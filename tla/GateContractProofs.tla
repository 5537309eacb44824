-------------------------- MODULE GateContractProofs --------------------------
(* The contract of the gate leaves one stage open at a time. *)
EXTENDS GateContract, TLAPS

ContractInv == gate \in [Stages -> Statuses] /\ OneOpenStage

LEMMA ContractInit ==
    ASSUME NumStages \in Nat \ {0}, Init
    PROVE  ContractInv
<1> PICK k \in 0 .. NumStages, now \in OpenStatuses :
       /\ gate = [s \in Stages |-> CASE s < k -> "INSPECTED_PASS"
                                     [] s = k -> now
                                     [] s > k -> "LOCKED"]
       /\ completed = (k = NumStages)
  BY DEF Init
<1>1. ASSUME NEW s \in Stages
      PROVE  /\ gate[s] \in Statuses
             /\ s < k => gate[s] = "INSPECTED_PASS"
             /\ s = k => gate[s] \in OpenStatuses
             /\ s > k => gate[s] = "LOCKED"
  <2>1. s \in Int /\ k \in Int
    BY DEF Stages
  <2>2. CASE s < k
    BY <2>1, <2>2 DEF Statuses
  <2>3. CASE s = k
    BY <2>1, <2>3 DEF Statuses
  <2>4. CASE s > k
    BY <2>1, <2>4 DEF Statuses
  <2> QED
    BY <2>1, <2>2, <2>3, <2>4
<1> QED
  BY <1>1 DEF ContractInv, OneOpenStage, OpenAt

\* A step changes the open stage within OpenStatuses, or passes it and opens the next.
LEMMA ContractStep ==
    ASSUME NumStages \in Nat \ {0}, ContractInv, [Next]_contractVars
    PROVE  ContractInv'
<1> PICK k \in 0 .. NumStages : OpenAt(k)
  BY DEF ContractInv, OneOpenStage
<1>0. \A s \in Stages : gate[s] \in OpenStatuses => s = k
  BY DEF OpenAt, Stages, OpenStatuses, Queued
<1>1. ASSUME NEW s \in Stages, NEW from \in SUBSET OpenStatuses, NEW to \in OpenStatuses,
             Move(s, from, to)
      PROVE  ContractInv'
  <2>1. s = k
    BY <1>0, <1>1 DEF Move
  <2>2. /\ gate' = [gate EXCEPT ![s] = to]
        /\ completed' = completed
    BY <1>1 DEF Move
  <2>3. gate' \in [Stages -> Statuses]
    BY <2>2 DEF ContractInv, Statuses
  <2>4. OpenAt(k)'
    BY <2>1, <2>2 DEF OpenAt, ContractInv, Stages
  <2> QED
    BY <2>3, <2>4 DEF ContractInv, OneOpenStage
<1>2. ASSUME NEW s \in Stages, Pass(s) PROVE ContractInv'
  <2>1. s = k /\ s \in Int
    BY <1>0, <1>2 DEF Pass, OpenStatuses, Stages
  <2>2. \A t \in Stages : /\ t = k => gate'[t] = "INSPECTED_PASS"
                          /\ t = k + 1 => gate'[t] = "AWAITING_PAYMENT"
                          /\ t # k /\ t # k + 1 => gate'[t] = gate[t]
    BY <1>2, <2>1 DEF Pass
  <2>3. gate' \in [Stages -> Statuses]
    BY <1>2 DEF Pass, ContractInv, Statuses, OpenStatuses
  <2>4. \A t \in Stages : /\ t < k + 1 => gate'[t] = "INSPECTED_PASS"
                          /\ t = k + 1 => gate'[t] \in OpenStatuses
                          /\ t > k + 1 => gate'[t] = "LOCKED"
    BY <2>1, <2>2 DEF OpenAt, OpenStatuses, Stages
  <2>5. k + 1 \in 0 .. NumStages /\ completed' = (k + 1 = NumStages)
    BY <1>2, <2>1 DEF Pass, Stages
  <2> QED
    BY <2>3, <2>4, <2>5 DEF ContractInv, OneOpenStage, OpenAt
<1>3. CASE UNCHANGED contractVars
  BY <1>3 DEF ContractInv, OneOpenStage, OpenAt, contractVars
<1> QED
  BY <1>1, <1>2, <1>3 DEF Next, Pay, Book, Fail, ReRequest, OpenStatuses, Queued

\* A permit that keeps the contract shows exactly one stage to act on, or is done.
THEOREM ContractShowsOneStage ==
    ASSUME NumStages \in Nat \ {0}
    PROVE  Spec => []OneOpenStage
<1>1. Init => ContractInv
  BY ContractInit
<1>2. ContractInv /\ [Next]_contractVars => ContractInv'
  BY ContractStep
<1>3. ContractInv => OneOpenStage
  BY DEF ContractInv
<1> QED
  BY <1>1, <1>2, <1>3, PTL DEF Spec

=============================================================================
