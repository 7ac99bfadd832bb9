-------------------------- MODULE MCDaemonHistory --------------------------
(***************************************************************************)
(* Instances of DaemonHistory for TLC.  Client IDs are drawn at random and *)
(* session paths are compared only for equality, so that both sets are     *)
(* symmetric.                                                              *)
(***************************************************************************)
EXTENDS DaemonHistory, TLC

ClientSymmetry == Permutations(ClientID) \cup Permutations(Session)
=============================================================================
