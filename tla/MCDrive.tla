------------------------------ MODULE MCDrive --------------------------------
(* Instances of Drive: a train with two functions in one group, one in      *)
(* another, and one on a reserved bit.                                      *)
EXTENDS Drive, TLC

Run == Message({"speed"}, 3, FALSE, {})
Light == Message({"F0_F4"}, 0, FALSE, {1, 3})
TakeOff == Message({}, 0, FALSE, {})

MCDriveMessage == {Run, Light, TakeOff}
Symmetry == Permutations(Thread)
=============================================================================
