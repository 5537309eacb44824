------------------------ MODULE StageGateContractProofs ------------------------
(***************************************************************************)
(* One request at a time, in a process that lives, the stage gate           *)
(* implements the contract: what GateSequential checks on three stages, for *)
(* any number of them.                                                      *)
(***************************************************************************)
EXTENDS StageGateProofs

\* The mapping of StageGateRefinement, under names.
CreditedGate ==
    [s \in Stages |-> IF s > 0 /\ PassInFlight(s - 1) THEN "AWAITING_PAYMENT" ELSE status[s]]

CreditedDone ==
    \/ permitStatus = "COMPLETED"
    \/ \E r \in Requests : req[r].pc = "completePermit"
    \/ \E s \in Stages : IsFinalStage(s) /\ PassInFlight(s)

\* A handler that carries the PASS it committed to the next row.
Carrying(q) == \/ q.pc = "auditInspection" /\ q.result = "PASS"
               \/ q.pc \in {"findNext", "unlock", "createCertificate"}

\* What a lone handler read of its stage still holds when it writes.
SnapshotFresh ==
    \A r \in Requests :
        LET q == req[r] IN
        /\ q.pc = "markPaid" => status[q.stage] = "AWAITING_PAYMENT"
        /\ q.pc = "book" => status[q.stage] = "PAID_AWAITING_INSPECTION"
        /\ q.pc = "reRequest" => status[q.stage] = "INSPECTED_FAIL"
        /\ q.pc \in {"findInspection", "signOff"} => status[q.stage] \in AwaitingInspection

AloneInv == GateInv /\ RowsAgree /\ LoneHandler /\ SnapshotFresh

-----------------------------------------------------------------------------
(* Nobody writes between a lone handler's read and its write. *)

LEMMA SnapshotInit == Init => SnapshotFresh
BY DEF Init, Idle, SnapshotFresh

LEMMA SnapshotStep ==
    ASSUME NEW r, Requests = {r}, GateInv, SnapshotFresh, [Next]_vars
    PROVE  SnapshotFresh'
<1> DEFINE Reading == {"markPaid", "book", "reRequest", "findInspection", "signOff"}
<1>1. /\ r \in Requests /\ req[r] \in Request
      /\ req \in [Requests -> Request] /\ status \in [Stages -> StageStatuses]
  BY DEF GateInv, TypeOK
<1>2. ASSUME req'[r].pc \notin Reading PROVE SnapshotFresh'
  BY <1>2 DEF SnapshotFresh
<1>3. CASE Arrive(r)
  <2>1. status' = status
    BY <1>3 DEF Arrive, UserRequest, MarkPaidLoad, BookLoad, SignOffLoad, ReRequestLoad, rows
  <2>2. PICK s \in Stages : UserRequest(r, s) \/ MarkPaidLoad(r, s)
    BY <1>3 DEF Arrive
  <2> QED
    BY <1>1, <2>1, <2>2 DEF UserRequest, MarkPaidLoad, BookLoad, SignOffLoad, ReRequestLoad,
       Begin, SnapshotFresh
<1>4. CASE SignOffFindInspection(r)
  <2>1. status' = status
    BY <1>4 DEF SignOffFindInspection, rows
  <2>2. \/ req'[r].pc = "signOff" /\ req'[r].stage = req[r].stage
        \/ req'[r].pc = "idle"
    BY <1>1, <1>4 DEF SignOffFindInspection, Goto, Return, Idle, Request
  <2>3. status[req[r].stage] \in AwaitingInspection
    BY <1>1, <1>4 DEF SignOffFindInspection, SnapshotFresh
  <2> QED
    BY <1>2, <2>1, <2>2, <2>3 DEF SnapshotFresh
<1>5. ASSUME MarkPaidWrite(r) \/ BookWrite(r) \/ ReRequestWrite(r) \/ UnlockWrite(r)
      PROVE  SnapshotFresh'
  <2>1. req'[r].pc \in {"auditPaid", "auditBooked", "auditReRequest", "auditUnlocked"}
    BY <1>1, <1>5 DEF MarkPaidWrite, BookWrite, ReRequestWrite, UnlockWrite, Goto, Request
  <2> QED
    BY <1>2, <2>1
<1>6. ASSUME SignOffCommit(r) \/ UnlockFind(r) \/ CertificateCreate(r) \/ CompletePermit(r)
      PROVE  SnapshotFresh'
  <2>1. req'[r].pc \in {"auditInspection", "unlock", "completePermit", "auditCertificate", "idle"}
    BY <1>1, <1>6 DEF SignOffCommit, UnlockFind, CertificateCreate, CompletePermit, Goto, Return,
       Idle, Request
  <2> QED
    BY <1>2, <2>1
<1>7. ASSUME AuditRecord(r) \/ AuditSwallow(r) PROVE SnapshotFresh'
  <2>1. req'[r].pc \in {"createCertificate", "findNext", "idle"}
    BY <1>1, <1>7 DEF AuditRecord, AuditSwallow, AfterAudit, Goto, Return, Idle, Request
  <2> QED
    BY <1>2, <2>1
<1>8. ASSUME CallFails(r) \/ Crash PROVE SnapshotFresh'
  <2>1. req'[r].pc = "idle"
    BY <1>1, <1>8 DEF CallFails, Crash, Return, Idle
  <2> QED
    BY <1>2, <2>1
<1>9. CASE UNCHANGED vars
  BY <1>9 DEF vars, SnapshotFresh
<1> QED
  BY <1>3, <1>4, <1>5, <1>6, <1>7, <1>8, <1>9 DEF Next, Work, Fault, Resume

LEMMA AloneInvariant ==
    ASSUME NEW r, Requests = {r}
    PROVE  Spec => []AloneInv
<1>1. Init => RowsAgree /\ LoneHandler /\ SnapshotFresh
  BY AloneInit, SnapshotInit
<1>2. GateInv /\ RowsAgree /\ LoneHandler /\ SnapshotFresh /\ [Next]_vars
         => RowsAgree' /\ LoneHandler' /\ SnapshotFresh'
  BY AloneStep, SnapshotStep
<1> QED
  BY <1>1, <1>2, GateInvariant, PTL DEF Spec, AloneInv

-----------------------------------------------------------------------------
(* The mapping, for one handler. *)

LEMMA Credits ==
    ASSUME NEW r, Requests = {r}, TypeOK
    PROVE  /\ CreditedGate = [s \in Stages |->
                 IF s > 0 /\ Carrying(req[r]) /\ req[r].stage = s - 1 THEN "AWAITING_PAYMENT"
                 ELSE status[s]]
           /\ CreditedDone <=> \/ permitStatus = "COMPLETED"
                               \/ req[r].pc = "completePermit"
                               \/ Carrying(req[r]) /\ IsFinalStage(req[r].stage)
<1>1. req[r].stage \in Stages
  BY DEF TypeOK, Request
<1>2. \A s : PassInFlight(s) <=> Carrying(req[r]) /\ req[r].stage = s
  BY DEF PassInFlight, Unlocking, Carrying
<1> QED
  BY <1>1, <1>2 DEF CreditedGate, CreditedDone

\* A handler that carries nothing shows the statuses as they are.
LEMMA PlainGate ==
    ASSUME NEW r, Requests = {r}, TypeOK, ~Carrying(req[r])
    PROVE  CreditedGate = status
<1>1. CreditedGate = [s \in Stages |-> status[s]]
  BY Credits
<1> QED
  BY <1>1 DEF TypeOK

\* A completed permit has no stage left to act on.
LEMMA DoneIsPassed ==
    ASSUME NEW r, Requests = {r}, AloneInv, CreditedDone
    PROVE  \A s \in Stages : status[s] = "INSPECTED_PASS"
<1> USE DEF AloneInv, GateInv
<1>1. SUFFICES \A s \in Stages : inspection[s] = "PASS"
  BY DEF RowsAgree
<1>2. CASE permitStatus = "COMPLETED" \/ req[r].pc = "completePermit"
  BY <1>2 DEF HandlersConsistent, CertificateSound
<1>3. CASE Carrying(req[r]) /\ IsFinalStage(req[r].stage)
  <2> DEFINE f == req[r].stage
  <2>1. f \in Stages /\ f = NumStages - 1
    BY <1>3, StagesFacts DEF TypeOK, Request
  <2>2. Unlocking(r, f)
    BY <1>3 DEF Carrying, Unlocking
  <2>3. inspection[f] = "PASS" /\ status[f] = "INSPECTED_PASS"
    BY <2>1, <2>2 DEF UnlockNeverRefused, RowsAgree
  <2> HIDE DEF f
  <2>4. \A t \in Stages : t < f => inspection[t] = "PASS"
    BY <2>1, <2>3 DEF GateOrder
  <2>5. \A t \in Stages : t < f \/ t = f
    BY <2>1, NumStagesAssumption DEF Stages
  <2> QED
    BY <2>3, <2>4, <2>5
<1> QED
  BY <1>2, <1>3, Credits

\* The same, of the state a step leads to.
LEMMA CreditsNext ==
    ASSUME NEW r, Requests = {r}, TypeOK'
    PROVE  /\ CreditedGate' = [s \in Stages |->
                 IF s > 0 /\ Carrying(req'[r]) /\ req'[r].stage = s - 1 THEN "AWAITING_PAYMENT"
                 ELSE status'[s]]
           /\ CreditedDone' <=> \/ permitStatus' = "COMPLETED"
                                \/ req'[r].pc = "completePermit"
                                \/ Carrying(req'[r]) /\ IsFinalStage(req'[r].stage)
           /\ ~Carrying(req'[r]) => CreditedGate' = status'
<1>1. req'[r].stage \in Stages /\ status' \in [Stages -> StageStatuses]
  BY DEF TypeOK, Request
<1>2. \A s : PassInFlight(s)' <=> Carrying(req'[r]) /\ req'[r].stage = s
  BY DEF PassInFlight, Unlocking, Carrying
<1>3. CreditedGate' = [s \in Stages |->
          IF s > 0 /\ Carrying(req'[r]) /\ req'[r].stage = s - 1 THEN "AWAITING_PAYMENT"
          ELSE status'[s]]
  BY <1>2 DEF CreditedGate
<1>4. CreditedDone' <=> \/ permitStatus' = "COMPLETED"
                        \/ req'[r].pc = "completePermit"
                        \/ Carrying(req'[r]) /\ IsFinalStage(req'[r].stage)
  BY <1>1, <1>2 DEF CreditedDone
<1>5. ASSUME ~Carrying(req'[r]) PROVE CreditedGate' = status'
  <2>1. CreditedGate' = [s \in Stages |-> status'[s]]
    BY <1>3, <1>5
  <2> QED
    BY <1>1, <2>1
<1> QED
  BY <1>3, <1>4, <1>5

-----------------------------------------------------------------------------
(* The contract starts where the gate does. *)

\* The contract's state is the credited one.
LEMMA AContractStutter ==
    ASSUME CreditedGate' = CreditedGate, CreditedDone' <=> CreditedDone
    PROVE  UNCHANGED Contract!contractVars
BY DEF Contract!contractVars, CreditedGate, CreditedDone

LEMMA ContractInitially ==
    ASSUME NEW r, Requests = {r}
    PROVE  Init => Contract!Init
<1> SUFFICES ASSUME Init PROVE Contract!Init
  OBVIOUS
<1>1. /\ req[r].pc = "idle" /\ ~Carrying(req[r]) /\ TypeOK
  BY TypeInit DEF Init, Idle, Carrying
<1>2. CreditedGate = status /\ (CreditedDone <=> permitStatus = "COMPLETED")
  BY <1>1, PlainGate, Credits
<1>3. ASSUME NEW k \in 0 .. NumStages, NEW now \in Contract!OpenStatuses,
             status = [s \in Stages |-> CASE s < k -> "INSPECTED_PASS"
                                          [] s = k -> now
                                          [] s > k -> "LOCKED"],
             permitStatus = "COMPLETED" <=> k = NumStages
      PROVE  Contract!Init
  <2>1. CreditedGate = [s \in Stages |-> CASE s < k -> "INSPECTED_PASS"
                                           [] s = k -> now
                                           [] s > k -> "LOCKED"]
    BY <1>2, <1>3
  <2>2. CreditedDone = (k = NumStages)
    BY <1>2, <1>3 DEF CreditedDone
  <2> QED
    BY <2>1, <2>2 DEF Contract!Init, Contract!Stages, Stages, CreditedGate, CreditedDone
<1>4. CASE CreatedPermit
  <2>1. status = [s \in Stages |-> CASE s < 0 -> "INSPECTED_PASS"
                                     [] s = 0 -> "AWAITING_PAYMENT"
                                     [] s > 0 -> "LOCKED"]
    <3>1. status = [s \in Stages |-> IF s = 0 THEN "AWAITING_PAYMENT" ELSE "LOCKED"]
      BY <1>4 DEF CreatedPermit, InitialStatus
    <3>2. \A s \in Stages : /\ s \in Nat
                            /\ (IF s = 0 THEN "AWAITING_PAYMENT" ELSE "LOCKED")
                                 = CASE s < 0 -> "INSPECTED_PASS"
                                     [] s = 0 -> "AWAITING_PAYMENT"
                                     [] s > 0 -> "LOCKED"
      BY StagesFacts
    <3> QED
      BY <3>1, <3>2
  <2>2. permitStatus = "APPROVED"
    BY <1>4 DEF CreatedPermit
  <2>3. 0 \in 0 .. NumStages /\ 0 # NumStages
    BY NumStagesAssumption
  <2>4. "AWAITING_PAYMENT" \in Contract!OpenStatuses
    BY DEF Contract!OpenStatuses
  <2> QED
    BY <1>3, <2>1, <2>2, <2>3, <2>4
<1>5. CASE \E passed \in 0 .. NumStages, current \in SeedStatuses :
              SeededPermit(passed, current)
  <2> PICK passed \in 0 .. NumStages, current \in SeedStatuses : SeededPermit(passed, current)
    BY <1>5
  <2>1. status = [s \in Stages |-> CASE s < passed -> "INSPECTED_PASS"
                                     [] s = passed -> current
                                     [] s > passed -> "LOCKED"]
    BY DEF SeededPermit
  <2>2. permitStatus = "COMPLETED" <=> passed = NumStages
    BY DEF SeededPermit
  <2>3. current \in Contract!OpenStatuses
    BY DEF SeedStatuses, Contract!OpenStatuses, Contract!Queued
  <2> QED
    BY <1>3, <2>1, <2>2, <2>3
<1> QED
  BY <1>4, <1>5 DEF Init, InitRows

-----------------------------------------------------------------------------
(* Every step of a lone handler is a step of the contract, or none. *)

\* The row a handler read is the one it writes: Pay, Book, ReRequest.
LEMMA WriteImplements ==
    ASSUME NEW r, Requests = {r}, AloneInv, TypeOK',
           MarkPaidWrite(r) \/ BookWrite(r) \/ ReRequestWrite(r)
    PROVE  Contract!Next
<1>1. /\ req \in [Requests -> Request] /\ req[r] \in Request /\ TypeOK /\ r \in Requests
  BY DEF AloneInv, GateInv, TypeOK
<1> PICK s \in Stages : s = req[r].stage
  BY <1>1 DEF Request
<1>2. ~Carrying(req[r]) /\ req[r].pc # "completePermit"
  BY DEF MarkPaidWrite, BookWrite, ReRequestWrite, Carrying
<1>3. req'[r].pc \in {"auditPaid", "auditBooked", "auditReRequest"}
  BY <1>1 DEF MarkPaidWrite, BookWrite, ReRequestWrite, Goto, Request
<1>4. ~Carrying(req'[r]) /\ req'[r].pc # "completePermit"
  BY <1>3 DEF Carrying
<1>5. permitStatus' = permitStatus
  BY DEF MarkPaidWrite, BookWrite, ReRequestWrite
<1>6. CreditedGate = status /\ CreditedGate' = status' /\ (CreditedDone' <=> CreditedDone)
  BY <1>1, <1>2, <1>4, <1>5, PlainGate, Credits, CreditsNext
<1>7. s \in Contract!Stages
  BY <1>1 DEF Contract!Stages, Stages
<1>8. CASE MarkPaidWrite(r)
  <2>1. /\ status[s] \in {"AWAITING_PAYMENT"}
        /\ status' = [status EXCEPT ![s] = "PAID_AWAITING_INSPECTION"]
    BY <1>1, <1>8 DEF MarkPaidWrite, SetStatus, AloneInv, SnapshotFresh
  <2>2. Contract!Pay(s)
    BY <1>6, <2>1 DEF Contract!Pay, Contract!Move, CreditedGate, CreditedDone
  <2> QED
    BY <1>7, <2>2 DEF Contract!Next
<1>9. CASE BookWrite(r)
  <2>1. /\ status[s] \in {"PAID_AWAITING_INSPECTION"}
        /\ status' = [status EXCEPT ![s] = "BOOKED"]
    BY <1>1, <1>9 DEF BookWrite, SetStatus, AloneInv, SnapshotFresh
  <2>2. Contract!Book(s)
    BY <1>6, <2>1 DEF Contract!Book, Contract!Move, CreditedGate, CreditedDone
  <2> QED
    BY <1>7, <2>2 DEF Contract!Next
<1>10. CASE ReRequestWrite(r)
  <2>1. /\ status[s] \in {"INSPECTED_FAIL"}
        /\ status' = [status EXCEPT ![s] = "PAID_AWAITING_INSPECTION"]
    BY <1>1, <1>10 DEF ReRequestWrite, SetStatus, AloneInv, SnapshotFresh
  <2>2. Contract!ReRequest(s)
    BY <1>6, <2>1 DEF Contract!ReRequest, Contract!Move, CreditedGate, CreditedDone
  <2> QED
    BY <1>7, <2>2 DEF Contract!Next
<1> QED
  BY <1>8, <1>9, <1>10

\* The committed inspection: Fail, or Pass with the next stage credited.
LEMMA SignOffImplements ==
    ASSUME NEW r, Requests = {r}, AloneInv, TypeOK', SignOffCommit(r)
    PROVE  [Contract!Next]_(Contract!contractVars)
<1>1. /\ req \in [Requests -> Request] /\ req[r] \in Request /\ TypeOK /\ r \in Requests
      /\ status \in [Stages -> StageStatuses]
  BY DEF AloneInv, GateInv, TypeOK
<1> PICK s \in Stages, v \in {"PASS", "FAIL"} : s = req[r].stage /\ v = req[r].result
  BY <1>1 DEF Request, Results
<1>2. /\ ~Carrying(req[r]) /\ req[r].pc # "completePermit" /\ req[r].pc = "signOff"
      /\ permitStatus' = permitStatus
  BY DEF SignOffCommit, Carrying
<1>3. CreditedGate = status /\ (CreditedDone <=> permitStatus = "COMPLETED")
  BY <1>1, <1>2, PlainGate, Credits
<1>4. status[s] \in AwaitingInspection /\ s \in Contract!Stages
  BY <1>1, <1>2 DEF AloneInv, SnapshotFresh, Contract!Stages, Stages
<1>5. CASE inspection[s] # "NONE"
  <2>1. status' = status /\ req'[r].pc = "idle"
    BY <1>1, <1>5 DEF SignOffCommit, Return, Idle
  <2>2. ~Carrying(req'[r]) /\ req'[r].pc # "completePermit"
    BY <2>1 DEF Carrying
  <2>3. CreditedGate' = CreditedGate /\ (CreditedDone' <=> CreditedDone)
    BY <1>2, <1>3, <2>1, <2>2, CreditsNext
  <2> QED
    BY <2>3, AContractStutter
<1>6. CASE inspection[s] = "NONE"
  <2>1. /\ status' = [status EXCEPT ![s] = IF v = "FAIL" THEN "INSPECTED_FAIL" ELSE "INSPECTED_PASS"]
        /\ req'[r].pc = "auditInspection" /\ req'[r].stage = s /\ req'[r].result = v
    BY <1>1, <1>6 DEF SignOffCommit, SetStatus, Goto, Request
  <2>2. permitStatus # "COMPLETED"
    BY <1>1, <1>4, DoneIsPassed DEF CreditedDone, AwaitingInspection
  <2>3. ASSUME v = "FAIL" PROVE Contract!Fail(s)
    <3>1. ~Carrying(req'[r]) /\ req'[r].pc # "completePermit"
      BY <2>1, <2>3 DEF Carrying
    <3>2. CreditedGate' = status' /\ (CreditedDone' <=> CreditedDone)
      BY <1>2, <1>3, <3>1, CreditsNext
    <3>3. status' = [status EXCEPT ![s] = "INSPECTED_FAIL"] /\ status[s] \in Contract!Queued
      BY <1>4, <2>1, <2>3 DEF AwaitingInspection, Contract!Queued
    <3> QED
      BY <1>3, <3>2, <3>3 DEF Contract!Fail, Contract!Move, CreditedGate, CreditedDone
  <2>4. ASSUME v = "PASS" PROVE Contract!Pass(s)
    <3>1. Carrying(req'[r]) /\ req'[r].pc # "completePermit"
      BY <2>1, <2>4 DEF Carrying
    <3>2. status' = [status EXCEPT ![s] = "INSPECTED_PASS"]
      BY <2>1, <2>4
    <3>3. /\ CreditedGate' = [t \in Stages |->
                IF t > 0 /\ s = t - 1 THEN "AWAITING_PAYMENT" ELSE status'[t]]
          /\ CreditedDone' <=> IsFinalStage(s)
      BY <1>2, <2>1, <2>2, <3>1, CreditsNext
    <3>4. CreditedGate' = [t \in Stages |-> CASE t = s -> "INSPECTED_PASS"
                                              [] t = s + 1 -> "AWAITING_PAYMENT"
                                              [] OTHER -> CreditedGate[t]]
      <4>1. ASSUME NEW t \in Stages
            PROVE  (IF t > 0 /\ s = t - 1 THEN "AWAITING_PAYMENT" ELSE status'[t])
                     = CASE t = s -> "INSPECTED_PASS"
                         [] t = s + 1 -> "AWAITING_PAYMENT"
                         [] OTHER -> CreditedGate[t]
        <5>1. t \in Nat /\ s \in Nat
          BY <1>1, StagesFacts
        <5>2. CASE t = s
          BY <1>1, <3>2, <5>1, <5>2
        <5>3. CASE t = s + 1
          BY <5>1, <5>3
        <5>4. CASE t # s /\ t # s + 1
          BY <1>1, <1>3, <3>2, <5>1, <5>4
        <5> QED
          BY <5>2, <5>3, <5>4
      <4> QED
        BY <3>3, <4>1
    <3>5. CreditedDone' = (s = NumStages - 1)
      BY <1>1, <3>3, StagesFacts DEF CreditedDone
    <3>6. status[s] \in Contract!Queued
      BY <1>4 DEF AwaitingInspection, Contract!Queued
    <3> QED
      BY <1>3, <3>4, <3>5, <3>6 DEF Contract!Pass, Contract!Stages, Stages, CreditedGate, CreditedDone
  <2> QED
    BY <1>1, <1>4, <2>3, <2>4 DEF Contract!Next
<1> QED
  BY <1>5, <1>6

\* The write the gate was credited with.
LEMMA UnlockImplements ==
    ASSUME NEW r, Requests = {r}, AloneInv, TypeOK', UnlockWrite(r)
    PROVE  UNCHANGED Contract!contractVars
<1> DEFINE s == req[r].stage
<1>1. /\ req \in [Requests -> Request] /\ req[r] \in Request /\ s \in Stages /\ TypeOK
      /\ r \in Requests /\ s \in Nat /\ ~IsFinalStage(s)
      /\ status \in [Stages -> StageStatuses]
  BY StagesFacts DEF UnlockWrite, AloneInv, GateInv, HandlersConsistent, TypeOK, Request
<1>2. /\ Carrying(req[r]) /\ req[r].pc # "completePermit"
      /\ permitStatus' = permitStatus
      /\ status' = [status EXCEPT ![NextStage(s)] = "AWAITING_PAYMENT"]
  BY DEF UnlockWrite, Carrying, SetStatus
<1>3. req'[r].pc = "auditUnlocked" /\ ~Carrying(req'[r])
  BY <1>1 DEF UnlockWrite, Goto, Request, Carrying
<1>4. CreditedGate' = status' /\ (CreditedDone' <=> CreditedDone)
  BY <1>1, <1>2, <1>3, Credits, CreditsNext
<1>5. CreditedGate = [t \in Stages |-> IF t > 0 /\ s = t - 1 THEN "AWAITING_PAYMENT" ELSE status[t]]
  BY <1>1, <1>2, Credits
<1> HIDE DEF s
<1>6. status' = [t \in Stages |-> IF t > 0 /\ s = t - 1 THEN "AWAITING_PAYMENT" ELSE status[t]]
  <2>1. ASSUME NEW t \in Stages
        PROVE  status'[t] = IF t > 0 /\ s = t - 1 THEN "AWAITING_PAYMENT" ELSE status[t]
    BY <1>1, <1>2, StagesFacts DEF NextStage
  <2>2. status' \in [Stages -> StageStatuses]
    BY DEF TypeOK
  <2> QED
    BY <2>1, <2>2
<1> QED
  BY <1>4, <1>5, <1>6, AContractStutter

\* A step that leaves the statuses, and what a handler carries, as they are.
LEMMA CarryImplements ==
    ASSUME NEW r, Requests = {r}, TypeOK, TypeOK', status' = status,
           \/ ~Carrying(req[r]) /\ ~Carrying(req'[r])
           \/ Carrying(req[r]) /\ Carrying(req'[r]) /\ req'[r].stage = req[r].stage,
           \/ permitStatus' = permitStatus
           \/ permitStatus' = "COMPLETED" /\ req[r].pc = "completePermit",
           req'[r].pc # "completePermit",
           req[r].pc = "completePermit" => permitStatus' = "COMPLETED"
    PROVE  UNCHANGED Contract!contractVars
<1>1. CreditedGate' = CreditedGate
  BY Credits, CreditsNext
<1>2. CreditedDone' <=> CreditedDone
  BY Credits, CreditsNext
<1> QED
  BY <1>1, <1>2, AContractStutter

LEMMA ImplementsStep ==
    ASSUME NEW r, Requests = {r}, AloneInv, TypeOK', [Work]_vars
    PROVE  [Contract!Next]_(Contract!contractVars)
<1> DEFINE Quiet == UNCHANGED Contract!contractVars
<1>1. /\ r \in Requests /\ TypeOK /\ req[r] \in Request /\ req \in [Requests -> Request]
  BY DEF AloneInv, GateInv, TypeOK
<1>2. CASE Arrive(r)
  <2>1. PICK s \in Stages : UserRequest(r, s) \/ MarkPaidLoad(r, s)
    BY <1>2 DEF Arrive
  <2>2. UNCHANGED <<status, permitStatus>>
    BY <2>1 DEF UserRequest, MarkPaidLoad, BookLoad, SignOffLoad, ReRequestLoad, rows
  <2>3. req[r].pc = "idle" /\ req'[r].pc \in {"markPaid", "book", "findInspection", "reRequest"}
    BY <1>1, <2>1 DEF UserRequest, MarkPaidLoad, BookLoad, SignOffLoad, ReRequestLoad, Begin, IsIdle
  <2>4. ~Carrying(req[r]) /\ ~Carrying(req'[r])
    BY <2>3 DEF Carrying
  <2> QED
    BY <1>1, <2>2, <2>3, <2>4, CarryImplements
<1>3. CASE SignOffFindInspection(r)
  <2>1. req[r].pc = "findInspection" /\ req'[r].pc \in {"signOff", "idle"}
    BY <1>1, <1>3 DEF SignOffFindInspection, Goto, Return, Idle, Request
  <2>2. ~Carrying(req[r]) /\ ~Carrying(req'[r])
    BY <2>1 DEF Carrying
  <2>3. UNCHANGED <<status, permitStatus>>
    BY <1>3 DEF SignOffFindInspection, rows
  <2> QED
    BY <1>1, <2>1, <2>2, <2>3, CarryImplements
<1>4. CASE UnlockFind(r)
  <2>1. status[NextStage(req[r].stage)] = "LOCKED"
    BY <1>1, <1>4 DEF UnlockFind, AloneInv, GateInv, HandlersConsistent, UnlockNeverRefused,
       Unlocking, Request
  <2>2. /\ req[r].pc = "findNext" /\ req'[r].pc = "unlock" /\ req'[r].stage = req[r].stage
        /\ UNCHANGED <<status, permitStatus>>
    BY <1>1, <1>4, <2>1 DEF UnlockFind, Goto, rows, Request
  <2>3. Carrying(req[r]) /\ Carrying(req'[r])
    BY <2>2 DEF Carrying
  <2> QED
    BY <1>1, <2>2, <2>3, CarryImplements
<1>5. CASE CertificateCreate(r)
  <2>1. ~certificate /\ IsFinalStage(req[r].stage)
    BY <1>1, <1>5 DEF CertificateCreate, AloneInv, GateInv, HandlersConsistent, UnlockNeverRefused,
       Unlocking, Request
  <2>2. /\ req[r].pc = "createCertificate" /\ req'[r].pc = "completePermit"
        /\ req'[r].stage = req[r].stage /\ UNCHANGED <<status, permitStatus>>
    BY <1>1, <1>5, <2>1 DEF CertificateCreate, Goto, Request
  <2>3. Carrying(req[r]) /\ ~Carrying(req'[r])
    BY <2>2 DEF Carrying
  <2>4. \A t \in Stages : t > 0 => req[r].stage # t - 1
    BY <1>1, <2>1, StagesFacts, NumStagesAssumption DEF Stages, Request
  <2>5. CreditedGate = [t \in Stages |-> status[t]]
    BY <1>1, <2>4, Credits
  <2>6. CreditedGate' = status' /\ status' = [t \in Stages |-> status[t]]
    BY <1>1, <2>2, <2>3, CreditsNext DEF TypeOK
  <2>7. CreditedDone /\ CreditedDone'
    BY <1>1, <2>1, <2>2, <2>3, Credits, CreditsNext
  <2> QED
    BY <2>5, <2>6, <2>7, AContractStutter
<1>6. CASE CompletePermit(r)
  <2>1. /\ req[r].pc = "completePermit" /\ req'[r].pc = "auditCertificate"
        /\ status' = status /\ permitStatus' = "COMPLETED"
    BY <1>1, <1>6 DEF CompletePermit, Goto, Request
  <2>2. ~Carrying(req[r]) /\ ~Carrying(req'[r])
    BY <2>1 DEF Carrying
  <2> QED
    BY <1>1, <2>1, <2>2, CarryImplements
<1>7. CASE AuditRecord(r)
  <2>1. UNCHANGED <<status, permitStatus>> /\ req[r].pc \in AuditPoints
    BY <1>7 DEF AuditRecord, rows
  <2>2. CASE Carrying(req[r])
    <3>1. req[r].pc = "auditInspection" /\ req[r].result = "PASS"
      BY <2>1, <2>2 DEF Carrying, AuditPoints
    <3>2. req'[r].pc \in {"createCertificate", "findNext"} /\ req'[r].stage = req[r].stage
      BY <1>1, <1>7, <3>1 DEF AuditRecord, AfterAudit, Goto, Request
    <3>3. Carrying(req'[r])
      BY <3>2 DEF Carrying
    <3> QED
      BY <1>1, <2>1, <2>2, <3>1, <3>2, <3>3, CarryImplements
  <2>3. CASE ~Carrying(req[r])
    <3>1. req'[r].pc = "idle" /\ req[r].pc # "completePermit"
      BY <1>1, <1>7, <2>3 DEF AuditRecord, AuditPoints, AfterAudit, Return, Idle, Carrying
    <3>2. ~Carrying(req'[r])
      BY <3>1 DEF Carrying
    <3> QED
      BY <1>1, <2>1, <2>3, <3>1, <3>2, CarryImplements
  <2> QED
    BY <2>2, <2>3
<1>8. CASE UNCHANGED vars
  <2>1. UNCHANGED <<status, permitStatus, req>>
    BY <1>8 DEF vars
  <2>2. CreditedGate' = CreditedGate /\ (CreditedDone' <=> CreditedDone)
    BY <1>1, <2>1, Credits, CreditsNext
  <2> QED
    BY <2>2, AContractStutter
<1>9. ASSUME MarkPaidWrite(r) \/ BookWrite(r) \/ ReRequestWrite(r) PROVE Contract!Next
  BY <1>9, WriteImplements
<1>10. CASE SignOffCommit(r)
  BY <1>10, SignOffImplements
<1>11. CASE UnlockWrite(r)
  BY <1>11, UnlockImplements
<1>12. \/ Arrive(r) \/ Resume(r) \/ UNCHANGED vars
  BY DEF Work
<1> QED
  BY <1>2, <1>3, <1>4, <1>5, <1>6, <1>7, <1>8, <1>9, <1>10, <1>11, <1>12 DEF Resume

\* While requests come one at a time and none is cut off, every operation of the
\* gate is one step of its contract, for any number of stages.
THEOREM GateKeepsContract ==
    ASSUME NEW r, Requests = {r}
    PROVE  HealthySpec => KeepsContract
<1>1. [Work]_vars => [Next]_vars
  BY DEF Next
<1>2. HealthySpec => Spec /\ [][Work]_vars
  BY <1>1, PTL DEF HealthySpec, Spec
<1>3. Init => Contract!Init
  BY ContractInitially
<1>4. AloneInv /\ TypeOK' /\ [Work]_vars => [Contract!Next]_(Contract!contractVars)
  BY ImplementsStep
<1>5. Spec => []AloneInv /\ []TypeOK
  BY AloneInvariant, TypeCorrect, PTL
<1> QED
  BY <1>2, <1>3, <1>4, <1>5, PTL DEF Spec, KeepsContract, Contract!Spec

-----------------------------------------------------------------------------
(* What the contract promises, the gate shows. *)

ContractProofs == INSTANCE GateContractProofs WITH
    gate <- [s \in Stages |-> IF s > 0 /\ PassInFlight(s - 1) THEN "AWAITING_PAYMENT"
                              ELSE status[s]],
    completed <- \/ permitStatus = "COMPLETED"
                 \/ \E r \in Requests : req[r].pc = "completePermit"
                 \/ \E s \in Stages : IsFinalStage(s) /\ PassInFlight(s)

\* Every permit shows exactly one next action, or is done, at every moment of a
\* run of one request at a time (CONTRACT.md), for any number of stages.
THEOREM OneNextActionHolds ==
    ASSUME NEW r, Requests = {r}
    PROVE  HealthySpec => []OneNextAction
<1>1. Contract!Init => ContractProofs!ContractInv
  BY NumStagesAssumption, ContractProofs!ContractInit
     DEF Contract!Init, ContractProofs!Init, Contract!Stages, ContractProofs!Stages,
         Contract!OpenStatuses, ContractProofs!OpenStatuses, Contract!Queued, ContractProofs!Queued
<1>2. [Contract!Next]_(Contract!contractVars) => [ContractProofs!Next]_(ContractProofs!contractVars)
  BY DEF Contract!Next, Contract!Pay, Contract!Book, Contract!Fail, Contract!ReRequest,
         Contract!Pass, Contract!Move, Contract!Queued, Contract!Stages, Contract!contractVars,
         ContractProofs!Next, ContractProofs!Pay, ContractProofs!Book, ContractProofs!Fail,
         ContractProofs!ReRequest, ContractProofs!Pass, ContractProofs!Move,
         ContractProofs!Queued, ContractProofs!Stages, ContractProofs!contractVars
<1>3. ContractProofs!ContractInv /\ [ContractProofs!Next]_(ContractProofs!contractVars)
         => ContractProofs!ContractInv'
  BY NumStagesAssumption, ContractProofs!ContractStep
<1>4. ContractProofs!ContractInv => OneNextAction
  BY DEF ContractProofs!ContractInv, ContractProofs!OneOpenStage, ContractProofs!OpenAt,
         ContractProofs!Stages, ContractProofs!OpenStatuses, ContractProofs!Queued,
         OneNextAction, Contract!OneOpenStage, Contract!OpenAt, Contract!Stages,
         Contract!OpenStatuses, Contract!Queued
<1> QED
  BY <1>1, <1>2, <1>3, <1>4, GateKeepsContract, PTL DEF KeepsContract, Contract!Spec

=============================================================================
