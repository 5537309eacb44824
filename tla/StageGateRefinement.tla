------------------------- MODULE StageGateRefinement -------------------------
(***************************************************************************)
(* The two promises of the stage gate, as refinements of StageGate.         *)
(***************************************************************************)
EXTENDS StageGate

Ledger == INSTANCE InspectionLedger WITH
              opened    <- {s \in Stages : status[s] # "LOCKED"},
              verdict   <- inspection,
              certified <- certificate

\* Under every interleaving, failure and crash the gate implements the ledger.
KeepsLedger == Ledger!Spec

\* The committed PASS of s that a handler has yet to carry to the next row.
PassInFlight(s) == \E r \in Requests : Unlocking(r, s)

\* The contract moves the next stage, or completes the permit, in the step that
\* records the PASS: the mapping credits a handler with what it is about to write.
Contract == INSTANCE GateContract WITH
    gate <- [s \in Stages |-> IF s > 0 /\ PassInFlight(s - 1) THEN "AWAITING_PAYMENT"
                              ELSE status[s]],
    completed <- \/ permitStatus = "COMPLETED"
                 \/ \E r \in Requests : req[r].pc = "completePermit"
                 \/ \E s \in Stages : IsFinalStage(s) /\ PassInFlight(s)

\* One request at a time, in a process that lives, the gate implements the contract.
KeepsContract == Contract!Spec

\* The contract's promise, read through the mapping: at every moment of a
\* sequential run one stage is to be acted on, or the permit is done.
OneNextAction == Contract!OneOpenStage

=============================================================================
