--------------------------- MODULE MCImagenSession ---------------------------
(* Small instances of ImagenSession.  The ComfyUI lane has a cap of 1 and the   *)
(* provider lane a cap of 2; the Tasks of a run share one of them, or have none. *)
EXTENDS ImagenSessionInductive, TLC

CONSTANTS t1, t2, t3

\* t1 and t2 compete for the ComfyUI lane, a third Task runs beside them.
MCMixedLanes == [t \in Tasks |-> IF t \in {t1, t2} THEN "comfyui" ELSE NoLane]

\* Every Task is in the provider lane.
MCOneLane == [t \in Tasks |-> "provider"]

MCLaneCap == [l \in Lanes |-> IF l = "comfyui" THEN 1 ELSE 2]

\* t1 and t2 are interchangeable in both assignments.
MCSymmetry == Permutations({t1, t2})

=============================================================================
