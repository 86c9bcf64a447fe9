-------------------------- MODULE MCSynthesisRuns --------------------------
(* Small instances of SynthesisRuns for TLC. *)
EXTENDS SynthesisRuns, TLC

RunSymmetry == Permutations(Runs)
=============================================================================
