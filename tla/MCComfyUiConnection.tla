-------------------------- MODULE MCComfyUiConnection --------------------------
(* Small instances of ComfyUiConnection. *)
EXTENDS ComfyUiConnection, TLC
CONSTANTS u1, u2, w1
MCSymmetry == Permutations(Targets)
=============================================================================
