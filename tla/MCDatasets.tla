---------------------------- MODULE MCDatasets ----------------------------
(***************************************************************************)
(* Datasets with two loaders at once, two users and two devices.  The CERT *)
(* rows are 1 to 3, in two files: 2 cannot be parsed, and 3 is another     *)
(* user's on the device of 1.  The mock data set is row 4, on a device of  *)
(* its own; row 5 comes from an agent, without a device.                   *)
(***************************************************************************)
EXTENDS Datasets, TLC

RowUsers == [r \in Row |-> IF r = 1 THEN 1 ELSE IF r = 2 THEN NoUser ELSE 2]
RowDevices == [r \in Row |-> IF r = 4 THEN 2 ELSE IF r = 5 THEN NoDevice ELSE 1]
DataFiles ==
  [k \in Kind |-> IF k \in {"mockapi", "direct"} THEN <<<<4>>>> ELSE <<<<1, 2>>, <<3>>>>]

Loaders == Permutations(Loader)
=============================================================================
