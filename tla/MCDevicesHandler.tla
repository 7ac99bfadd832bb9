-------------------------- MODULE MCDevicesHandler --------------------------
(* A small instance of DevicesHandler for TLC. *)
EXTENDS DevicesHandler, TLC

Symmetry == Permutations(Devices) \cup Permutations(WatchDescriptors)
=============================================================================
