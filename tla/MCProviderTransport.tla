-------------------------- MODULE MCProviderTransport --------------------------
(* Small instances of ProviderTransport: r1 is an edit, the others are not. *)
EXTENDS ProviderTransport, TLC

CONSTANTS r1, r2, r3

\* The requests that are not edits are interchangeable.
MCSymmetry == Permutations({r2, r3})
=============================================================================
