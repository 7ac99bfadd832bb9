-------------------------- MODULE MCMacroRecording --------------------------
(* Every key alone, no key, and M keys pressed together or with MR, MR with G. *)
EXTENDS MacroRecording

CONSTANTS m1, m2

TwoKeys == {m1, m2}
KeyReports == {{}, {m1}, {m2}, {"MR"}, {"G"}, {m1, m2}, {m1, "MR"}, {m1, m2, "MR"},
                {"MR", "G"}}
=============================================================================
