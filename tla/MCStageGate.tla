----------------------------- MODULE MCStageGate -----------------------------
(* Instances of the stage gate for TLC. *)
EXTENDS StageGateRefinement, TLC

\* Requests are interchangeable.
RequestSymmetry == Permutations(Requests)

\* The audit entries whose truth or presence a property is about.
Evidence == AuditActions \ {"STAGE_AWAITING_INSPECTION", "INSPECTION_RE_REQUESTED"}

=============================================================================
