----------------------------- MODULE GateContract -----------------------------
(***************************************************************************)
(* The stage gate as its contract tells it: every operation is one step on *)
(* the statuses, and a PASS opens the next stage in that same step.  The   *)
(* code keeps it as long as one request runs at a time and none is cut off *)
(* (StageGateRefinement).                                                   *)
(***************************************************************************)
EXTENDS Integers

CONSTANT NumStages

VARIABLES gate,      \* the status of each stage
          completed  \* the permit is COMPLETED

contractVars == <<gate, completed>>

Stages == 0 .. NumStages - 1

Queued == {"PAID_AWAITING_INSPECTION", "BOOKED"}

OpenStatuses == {"AWAITING_PAYMENT", "INSPECTED_FAIL"} \union Queued

\* The first k stages are passed, the next one is open, the others are locked.
Init ==
    \E k \in 0 .. NumStages :
        /\ \E now \in OpenStatuses :
              gate = [s \in Stages |-> CASE s < k -> "INSPECTED_PASS"
                                         [] s = k -> now
                                         [] s > k -> "LOCKED"]
        /\ completed = (k = NumStages)

Move(s, from, to) ==
    /\ gate[s] \in from
    /\ gate' = [gate EXCEPT ![s] = to]
    /\ UNCHANGED completed

Pay(s) == Move(s, {"AWAITING_PAYMENT"}, "PAID_AWAITING_INSPECTION")

Book(s) == Move(s, {"PAID_AWAITING_INSPECTION"}, "BOOKED")

Fail(s) == Move(s, Queued, "INSPECTED_FAIL")

ReRequest(s) == Move(s, {"INSPECTED_FAIL"}, "PAID_AWAITING_INSPECTION")

Pass(s) ==
    /\ gate[s] \in Queued
    /\ gate' = [t \in Stages |-> CASE t = s     -> "INSPECTED_PASS"
                                   [] t = s + 1 -> "AWAITING_PAYMENT"
                                   [] OTHER     -> gate[t]]
    /\ completed' = (s = NumStages - 1)

Next == \E s \in Stages : Pay(s) \/ Book(s) \/ Fail(s) \/ ReRequest(s) \/ Pass(s)

Spec == Init /\ [][Next]_contractVars

-----------------------------------------------------------------------------

Statuses == {"LOCKED", "INSPECTED_PASS"} \union OpenStatuses

\* The k first stages are passed, the next one is open, the others are locked.
OpenAt(k) ==
    /\ \A s \in Stages : /\ s < k => gate[s] = "INSPECTED_PASS"
                         /\ s = k => gate[s] \in OpenStatuses
                         /\ s > k => gate[s] = "LOCKED"
    /\ completed = (k = NumStages)

\* At every moment exactly one stage is open, or the permit is completed ("each
\* permit shows exactly one clear next action", CONTRACT.md).
OneOpenStage == \E k \in 0 .. NumStages : OpenAt(k)

=============================================================================
