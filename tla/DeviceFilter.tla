---------------------------- MODULE DeviceFilter ----------------------------
(***************************************************************************)
(* _collect_file_list and _filter_by_device: from the listing of a date to *)
(* the jobs of a cycle.                                                    *)
(*                                                                         *)
(* A text is a word in one of two spellings: the code compares sometimes   *)
(* as is, sometimes in upper and sometimes in lower case.  A raw file is   *)
(* known by the module its name starts with, by how its name is spelled,   *)
(* by whether there is a "." in it (before an extension) and whether "temp"*)
(* occurs in it, and by the vehicle its path names.                        *)
(***************************************************************************)
EXTENDS SequencesExt, Naturals

CONSTANTS
    Device,     \* modules of the sensor enums
    Stranger,   \* module names no enum has
    TypeOf,     \* TypeOf[d]: LIDAR, CAMERA or GNSS
    Vehicle,
    Within,     \* Within[v]: the vehicles in whose names the name v occurs
    MaxListing  \* bound: files of one date

Kind == {"LIDAR", "CAMERA", "GNSS"}

ASSUME FilterAssumption ==
    /\ TypeOf \in [Device -> Kind]
    /\ Device \cap Stranger = {}
    /\ Within \in [Vehicle -> SUBSET Vehicle]
    /\ \A v \in Vehicle : v \in Within[v]
    /\ "ALL" \notin Device \cup Kind
    /\ \A d \in Device \cap Kind : TypeOf[d] = d \* as of GNSS (enum_sensor.py)
    /\ MaxListing \in Nat

Spelling == {"UPPER", "lower"}
Text(Word) == [word : Word, spelling : Spelling]

File == [name : Text(Device \cup Stranger), dotted : BOOLEAN, temp : BOOLEAN,
         vehicle : Vehicle]

(* What selected_device may say, in the request or the configuration.       *)
Choice == Text({"ALL"} \cup Kind \cup Device)

VARIABLES
    listing,    \* the files below the date folder, in listing order
    device,     \* selected_device
    vehicle,    \* vehicle_id, as the set of vehicles it lets through
    seen,       \* how many files _filter_by_device has looked at
    jobs,       \* filtered, as positions in the listing
    outcome     \* "filtering", "jobs" or "raised"

vars == <<listing, device, vehicle, seen, jobs, outcome>>

-----------------------------------------------------------------------------
(* Faulty variant: the vehicle is not looked at.                            *)
OfVehicle_All(f) == TRUE

(* vehicle_id in f.get_file_path(), or no vehicle_id at all                 *)
OfVehicle(f) == f.vehicle \in vehicle

Init ==
    /\ listing \in UNION {[1 .. n -> File] : n \in 0 .. MaxListing}
    /\ device \in Choice
    /\ vehicle \in {Vehicle} \cup {Within[v] : v \in Vehicle}
    /\ seen = 0 /\ jobs = <<>> /\ outcome = "filtering"

(* The comparisons of _filter_by_device: as is, with upper() on both sides, *)
(* and with lower() on the selection only.                                  *)
IsAll(t)           == t = [word |-> "ALL", spelling |-> "UPPER"]
IsOfType(t, f)     == t.word = TypeOf[f.name.word]
OccursInName(t, f) == f.name = [word |-> t.word, spelling |-> "lower"]

Look(f) ==
    /\ outcome = "filtering" /\ seen < Len(listing)
    /\ f = listing[seen + 1]
    /\ seen' = seen + 1
    /\ UNCHANGED <<listing, device, vehicle>>

(* Faulty variant: files still being written are not skipped.               *)
Skipped_Vehicle(f) == ~OfVehicle(f)

Skipped(f) == ~OfVehicle(f) \/ f.temp

SkipFile ==
    \E f \in File :
       /\ Look(f) /\ Skipped(f)
       /\ UNCHANGED <<jobs, outcome>>

(* Faulty variant: no continue after the match of the type.                 *)
Matches_Again(f) ==
    (IF IsAll(device) \/ IsOfType(device, f) THEN <<seen + 1>> ELSE <<>>)
    \o (IF OccursInName(device, f) THEN <<seen + 1>> ELSE <<>>)

(* What one file adds to the list.                                          *)
Matches(f) ==
    IF IsAll(device) \/ IsOfType(device, f) \/ OccursInName(device, f)
    THEN <<seen + 1>> ELSE <<>>

(* PcapFilenameParser.parse finds a module name, and an enum has it.        *)
Known(f) == f.dotted /\ f.name.word \in Device

FilterFile ==
    \E f \in File :
       /\ Look(f) /\ ~Skipped(f)
       /\ IsAll(device) \/ Known(f)
       /\ jobs' = jobs \o Matches(f)
       /\ UNCHANGED outcome

(* parse raises IndexError, for a name without an extension, or             *)
(* get_sensor_type KeyError; the request ends as "unlisted".                *)
NameRaises ==
    \E f \in File :
       /\ Look(f) /\ ~Skipped(f)
       /\ ~IsAll(device) /\ ~Known(f)
       /\ outcome' = "raised"
       /\ UNCHANGED jobs

Return ==
    /\ outcome = "filtering" /\ seen = Len(listing)
    /\ outcome' = "jobs"
    /\ UNCHANGED <<listing, device, vehicle, seen, jobs>>

Next == SkipFile \/ FilterFile \/ NameRaises \/ Return

Spec == Init /\ [][Next]_vars

-----------------------------------------------------------------------------
(* The finished files of the request's vehicle and of these modules.        *)
Selecting(Modules) ==
    {i \in DOMAIN listing : /\ ~listing[i].temp
                            /\ listing[i].vehicle \in vehicle
                            /\ listing[i].name.word \in Modules}

(* A cycle works on no file twice and keeps the order of the listing, which *)
(* is what ManagerAssumption says of Folder.  A file may match the device   *)
(* both by its type and by its name.                                        *)
NoFileTwice == \A i, j \in DOMAIN jobs : i < j => jobs[i] < jobs[j]

(* ALL, or a kind in any spelling, selects exactly the finished files of    *)
(* that kind and vehicle, however the files' names are spelled              *)
(* (application.conf, [SELECTED_DEVICE]).                                   *)
KindSelects ==
    outcome = "jobs" =>
        /\ IsAll(device) => ToSet(jobs) = Selecting(Device \cup Stranger)
        /\ device.word \in Kind =>
              ToSet(jobs) = Selecting({d \in Device : TypeOf[d] = device.word})

(* One finished file of the vehicle whose name is not that of a registered  *)
(* module has a request for anything but ALL refused as a whole, wherever in*)
(* the listing it is; and nothing else has: not a file still being written, *)
(* not one of another vehicle.                                              *)
RefusedForNames ==
    LET unknown == {i \in DOMAIN listing : /\ ~listing[i].temp
                                           /\ listing[i].vehicle \in vehicle
                                           /\ ~Known(listing[i])}
    IN  /\ outcome = "raised" => ~IsAll(device) /\ unknown # {}
        /\ outcome = "jobs"   => IsAll(device) \/ unknown = {}

=============================================================================
