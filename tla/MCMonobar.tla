----------------------------- MODULE MCMonobar -----------------------------
(* An instance of Monobar for TLC: its displays are interchangeable. *)
EXTENDS Monobar, TLC

DisplaySymmetry == Permutations(Displays)
=============================================================================
