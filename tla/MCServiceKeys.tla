---------------------------- MODULE MCServiceKeys ---------------------------
(* The standard keys are interchangeable. *)
EXTENDS ServiceKeys, TLC

KeySymmetry == Permutations(Key)
=============================================================================
