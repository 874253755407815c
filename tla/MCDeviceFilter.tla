--------------------------- MODULE MCDeviceFilter ---------------------------
(***************************************************************************)
(* Instances of DeviceFilter for TLC: one module of each kind, the GNSS    *)
(* one named like its kind, a stranger, and a vehicle whose name occurs in *)
(* that of another.                                                        *)
(***************************************************************************)
EXTENDS DeviceFilter

Types     == [d \in Device |-> IF d = "GNSS" THEN "GNSS"
                               ELSE IF d = "AM20" THEN "CAMERA" ELSE "LIDAR"]
Prefix    == [v \in Vehicle |-> IF v = "CAR1" THEN {"CAR1", "CAR12"} ELSE {v}]
=============================================================================
