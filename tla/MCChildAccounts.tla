---------------------------- MODULE MCChildAccounts ----------------------------
(* Two devices of one household and a lockout after two wrong PINs.        *)
EXTENDS ChildAccounts, TLC
DeviceSymmetry == Permutations(Devices)
================================================================================
