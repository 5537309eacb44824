--------------------------- MODULE StageGateProofs ---------------------------
(***************************************************************************)
(* The invariants of the stage gate, for every number of stages and every  *)
(* set of concurrent requests, under every failure StageGate models.        *)
(***************************************************************************)
EXTENDS StageGateRefinement, TLAPS

-----------------------------------------------------------------------------
(* Type correctness. *)

LEMMA StagesFacts ==
    /\ Stages \subseteq Nat
    /\ 0 \in Stages
    /\ \A s \in Stages : IsFinalStage(s) <=> s = NumStages - 1
    /\ \A s \in Stages : ~IsFinalStage(s) => NextStage(s) \in Stages
BY NumStagesAssumption DEF Stages, IsFinalStage, NextStage

\* A suspended handler keeps a well-formed record, wherever it goes next.
LEMMA HandlerMoves ==
    ASSUME req \in [Requests -> Request], NEW r \in Requests
    PROVE  /\ Return(r) => req' \in [Requests -> Request]
           /\ \A pc \in CallPoints \union AuditPoints :
                 Goto(r, pc) => req' \in [Requests -> Request]
<1>1. Idle \in Request
  BY StagesFacts DEF Idle, Request, Results
<1>2. ASSUME NEW pc \in CallPoints \union AuditPoints
      PROVE  [req[r] EXCEPT !.pc = pc] \in Request
  BY DEF Request
<1>3. QED
  BY <1>1, <1>2 DEF Return, Goto

LEMMA TypeInit == Init => TypeOK
<1> SUFFICES ASSUME Init PROVE TypeOK
  OBVIOUS
<1>1. req \in [Requests -> Request]
  BY StagesFacts DEF Init, Idle, Request, Results
<1>2. CASE CreatedPermit
  BY <1>1, <1>2 DEF CreatedPermit, InitialStatus, TypeOK, StageStatuses, PermitStatuses
<1>3. CASE \E passed \in 0 .. NumStages, current \in SeedStatuses :
              SeededPermit(passed, current)
  <2> PICK passed \in 0 .. NumStages, current \in SeedStatuses : SeededPermit(passed, current)
    BY <1>3
  <2>1. status \in [Stages -> StageStatuses]
    BY StagesFacts DEF SeededPermit, SeedStatuses, StageStatuses
  <2>2. inspection \in [Stages -> Results \union {"NONE"}]
    BY StagesFacts DEF SeededPermit, Results
  <2>3. /\ bookedFor \in [Stages -> Dates \union {NoDate}]
        /\ certificate \in BOOLEAN
        /\ permitStatus \in PermitStatuses
    BY DEF SeededPermit, PermitStatuses
  <2>4. audit \subseteq [action : AuditActions, stage : Stages]
    BY DEF SeededPermit, Watch, AuditActions
  <2> QED
    BY <1>1, <2>1, <2>2, <2>3, <2>4 DEF TypeOK
<1> QED
  BY <1>2, <1>3 DEF Init, InitRows

\* Where a seeded permit stands.
LEMMA SeedShape ==
    ASSUME NEW passed \in 0 .. NumStages, NEW current \in SeedStatuses,
           SeededPermit(passed, current), NEW s \in Stages
    PROVE  /\ s < passed => status[s] # "LOCKED" /\ inspection[s] = "PASS"
           /\ s = passed => status[s] # "LOCKED" /\ inspection[s] # "PASS"
           /\ s > passed => status[s] = "LOCKED" /\ inspection[s] = "NONE"
<1>1. CASE s < passed
  BY <1>1, StagesFacts DEF SeededPermit
<1>2. CASE s = passed
  BY <1>2, StagesFacts DEF SeededPermit, SeedStatuses
<1>3. CASE s > passed
  BY <1>3, StagesFacts DEF SeededPermit
<1> QED
  BY <1>1, <1>2, <1>3, StagesFacts

LEMMA HandlersInit == Init => HandlersConsistent
BY DEF Init, Idle, HandlersConsistent

\* Typing needs the handlers' facts: STAGE_UNLOCKED names the stage after an
\* inner one.
LEMMA TypeStep == TypeOK /\ HandlersConsistent /\ [Next]_vars => TypeOK'
<1> SUFFICES ASSUME TypeOK, HandlersConsistent, [Next]_vars PROVE TypeOK'
  OBVIOUS
<1> USE StagesFacts
<1>1. ASSUME NEW r \in Requests, Arrive(r) PROVE TypeOK'
  BY <1>1 DEF Arrive, UserRequest, MarkPaidLoad, BookLoad, ReRequestLoad, SignOffLoad, Begin,
       CallPoints, Request, Results, TypeOK, rows
<1>2. ASSUME NEW r \in Requests, MarkPaidWrite(r) \/ BookWrite(r) \/ ReRequestWrite(r)
      PROVE  TypeOK'
  BY <1>2, HandlerMoves DEF MarkPaidWrite, BookWrite, ReRequestWrite, SetStatus,
       StageStatuses, AuditPoints, TypeOK
<1>3. ASSUME NEW r \in Requests, SignOffCommit(r) PROVE TypeOK'
  BY <1>3, HandlerMoves DEF SignOffCommit, SetStatus, StageStatuses, AuditPoints, Request, TypeOK
<1>4. ASSUME NEW r \in Requests, UnlockWrite(r) PROVE TypeOK'
  BY <1>4, HandlerMoves DEF UnlockWrite, SetStatus, StageStatuses, AuditPoints, TypeOK
<1>5. ASSUME NEW r \in Requests,
             \/ SignOffFindInspection(r) \/ UnlockFind(r)
             \/ CertificateCreate(r) \/ CompletePermit(r)
      PROVE  TypeOK'
  BY <1>5, HandlerMoves DEF SignOffFindInspection, UnlockFind, CertificateCreate,
       CompletePermit, CallPoints, AuditPoints, PermitStatuses, TypeOK, rows
<1>6. ASSUME NEW r \in Requests, AuditRecord(r) PROVE TypeOK'
  <2>1. AuditEntry(req[r]) \in [action : AuditActions, stage : Stages]
    BY <1>6 DEF AuditRecord, AuditPoints, AuditEntry, InspectionAction, AuditActions,
         HandlersConsistent, TypeOK, Request
  <2>2. req' \in [Requests -> Request]
    BY <1>6, HandlerMoves DEF AuditRecord, AfterAudit, CallPoints, TypeOK
  <2> QED
    BY <1>6, <2>1, <2>2 DEF AuditRecord, Watch, TypeOK, rows
<1>7. ASSUME NEW r \in Requests, AuditSwallow(r) \/ CallFails(r) PROVE TypeOK'
  BY <1>7, HandlerMoves DEF AuditSwallow, CallFails, AfterAudit, CallPoints, TypeOK, rows
<1>8. CASE Crash
  BY <1>8 DEF Crash, Idle, Request, Results, TypeOK, rows
<1>9. CASE UNCHANGED vars
  BY <1>9 DEF TypeOK, vars
<1> QED
  BY <1>1, <1>2, <1>3, <1>4, <1>5, <1>6, <1>7, <1>8, <1>9 DEF Next, Work, Fault, Resume

\* No handler takes from another what it relies on: stages never go back to
\* LOCKED, and an inspection row, once there, is refused to every other handler.
LEMMA HandlersStep == TypeOK /\ HandlersConsistent /\ [Next]_vars => HandlersConsistent'
<1> SUFFICES ASSUME TypeOK, HandlersConsistent, [Next]_vars PROVE HandlersConsistent'
  OBVIOUS
<1> USE StagesFacts DEF HandlersConsistent
<1>1. ASSUME NEW r \in Requests, Arrive(r) PROVE HandlersConsistent'
  BY <1>1 DEF Arrive, UserRequest, MarkPaidLoad, BookLoad, ReRequestLoad, SignOffLoad,
       AwaitingInspection, Begin, TypeOK, Request, rows
<1>2. ASSUME NEW r \in Requests, MarkPaidWrite(r) \/ BookWrite(r) \/ ReRequestWrite(r)
      PROVE  HandlersConsistent'
  BY <1>2 DEF MarkPaidWrite, BookWrite, ReRequestWrite, SetStatus, Goto, TypeOK, Request
<1>3. ASSUME NEW r \in Requests, SignOffCommit(r) PROVE HandlersConsistent'
  BY <1>3 DEF SignOffCommit, SetStatus, Goto, Return, Idle, TypeOK, Request, Results
<1>4. ASSUME NEW r \in Requests, UnlockWrite(r) PROVE HandlersConsistent'
  BY <1>4 DEF UnlockWrite, SetStatus, Goto, TypeOK, Request
<1>5. ASSUME NEW r \in Requests,
             \/ SignOffFindInspection(r) \/ UnlockFind(r)
             \/ CertificateCreate(r) \/ CompletePermit(r)
      PROVE  HandlersConsistent'
  BY <1>5 DEF SignOffFindInspection, UnlockFind, CertificateCreate, CompletePermit,
       Goto, Return, Idle, TypeOK, Request, rows
<1>6. ASSUME NEW r \in Requests, AuditRecord(r) \/ AuditSwallow(r) PROVE HandlersConsistent'
  BY <1>6 DEF AuditRecord, AuditSwallow, AfterAudit, Goto, Return, Idle, TypeOK, Request, rows
<1>7. ASSUME NEW r \in Requests, CallFails(r) PROVE HandlersConsistent'
  BY <1>7 DEF CallFails, Return, Idle, TypeOK, Request, rows
<1>8. CASE Crash
  BY <1>8 DEF Crash, Idle, rows
<1>9. CASE UNCHANGED vars
  BY <1>9 DEF vars
<1> QED
  BY <1>1, <1>2, <1>3, <1>4, <1>5, <1>6, <1>7, <1>8, <1>9 DEF Next, Work, Fault, Resume

\* Every reachable state has well-typed rows, audit entries and handlers.
THEOREM TypeCorrect == Spec => []TypeOK
<1>1. TypeOK /\ HandlersConsistent /\ [Next]_vars => TypeOK' /\ HandlersConsistent'
  BY TypeStep, HandlersStep
<1> QED
  BY <1>1, TypeInit, HandlersInit, PTL DEF Spec

\* Whatever the other handlers do, a suspended handler finds what it relies on.
THEOREM HandlersCorrect == Spec => []HandlersConsistent
BY TypeInit, HandlersInit, TypeStep, HandlersStep, PTL DEF Spec

-----------------------------------------------------------------------------
(* The gate order and the certificate. *)

GateInv == TypeOK /\ HandlersConsistent /\ GateOrder /\ UnlockNeverRefused /\ CertificateSound

LEMMA GateInit == Init => GateOrder /\ UnlockNeverRefused /\ CertificateSound
<1> SUFFICES ASSUME Init PROVE GateOrder /\ UnlockNeverRefused /\ CertificateSound
  OBVIOUS
<1>1. UnlockNeverRefused
  BY DEF Init, Idle, UnlockNeverRefused, Unlocking
<1>2. CASE CreatedPermit
  <2>1. \A s \in Stages : status[s] # "LOCKED" => s = 0
    BY <1>2 DEF CreatedPermit, InitialStatus
  <2> QED
    BY <1>1, <1>2, <2>1, StagesFacts DEF CreatedPermit, GateOrder, CertificateSound
<1>3. CASE \E passed \in 0 .. NumStages, current \in SeedStatuses :
              SeededPermit(passed, current)
  <2> PICK passed \in 0 .. NumStages, current \in SeedStatuses : SeededPermit(passed, current)
    BY <1>3
  <2>1. \A s \in Stages : /\ s < passed => inspection[s] = "PASS"
                          /\ s > passed => status[s] = "LOCKED"
    BY SeedShape
  <2>2. passed = NumStages => \A s \in Stages : s < passed
    BY NumStagesAssumption DEF Stages
  <2>3. GateOrder
    BY <2>1, StagesFacts DEF GateOrder
  <2>4. certificate <=> passed = NumStages
    BY DEF SeededPermit
  <2>5. permitStatus = "COMPLETED" => passed = NumStages
    BY DEF SeededPermit
  <2> QED
    BY <1>1, <2>1, <2>2, <2>3, <2>4, <2>5 DEF CertificateSound
<1> QED
  BY <1>2, <1>3 DEF Init, InitRows

\* Only UnlockWrite takes a stage out of LOCKED, and results are only added.
LEMMA GateOrderStep == GateInv /\ [Next]_vars => GateOrder'
<1> SUFFICES ASSUME GateInv, [Next]_vars PROVE GateOrder'
  OBVIOUS
<1> USE StagesFacts DEF GateInv
<1>1. ASSUME NEW r \in Requests, UnlockWrite(r) PROVE GateOrder'
  <2> DEFINE s == req[r].stage
  <2>1. /\ s \in Stages /\ NextStage(s) \in Stages
        /\ inspection[s] = "PASS" /\ status[s] # "LOCKED"
        /\ status' = [status EXCEPT ![NextStage(s)] = "AWAITING_PAYMENT"]
        /\ inspection' = inspection
    BY <1>1 DEF UnlockWrite, SetStatus, UnlockNeverRefused, Unlocking, HandlersConsistent,
         TypeOK, Request
  <2>2. \A u \in Stages : status'[u] # "LOCKED" => u = NextStage(s) \/ status[u] # "LOCKED"
    BY <2>1 DEF TypeOK
  <2> HIDE DEF s
  <2>3. \A t \in Stages : t < NextStage(s) => inspection[t] = "PASS"
    BY <2>1 DEF GateOrder, NextStage, Stages
  <2> QED
    BY <2>1, <2>2, <2>3 DEF GateOrder
<1>2. ASSUME NEW r \in Requests,
             MarkPaidWrite(r) \/ BookWrite(r) \/ ReRequestWrite(r) \/ SignOffCommit(r)
      PROVE  GateOrder'
  <2>1. req[r].stage \in Stages /\ status[req[r].stage] # "LOCKED"
    BY <1>2 DEF MarkPaidWrite, BookWrite, ReRequestWrite, SignOffCommit, HandlersConsistent,
         TypeOK, Request
  <2>2. \A t \in Stages : /\ status'[t] # "LOCKED" => status[t] # "LOCKED"
                          /\ inspection[t] = "PASS" => inspection'[t] = "PASS"
    BY <1>2, <2>1 DEF MarkPaidWrite, BookWrite, ReRequestWrite, SignOffCommit, SetStatus, TypeOK
  <2> QED
    BY <2>2 DEF GateOrder
<1>3. ASSUME UNCHANGED <<status, inspection>> PROVE GateOrder'
  BY <1>3 DEF GateOrder
<1> QED
  BY <1>1, <1>2, <1>3 DEF Next, Work, Fault, Arrive, UserRequest, Resume,
       MarkPaidLoad, BookLoad,
       SignOffLoad, ReRequestLoad, SignOffFindInspection, UnlockFind, CertificateCreate,
       CompletePermit, AuditRecord, AuditSwallow, CallFails, Crash, rows, vars

\* The certificate is created by a handler that has passed the last stage: by
\* GateOrder all stages are.
LEMMA CertificateStep == GateInv /\ [Next]_vars => CertificateSound'
<1> SUFFICES ASSUME GateInv, [Next]_vars PROVE CertificateSound'
  OBVIOUS
<1> USE StagesFacts DEF GateInv
<1>1. ASSUME NEW r \in Requests, CertificateCreate(r) PROVE CertificateSound'
  <2> DEFINE s == req[r].stage
  <2>1. s \in Stages /\ IsFinalStage(s) /\ inspection[s] = "PASS" /\ status[s] # "LOCKED"
    BY <1>1 DEF CertificateCreate, UnlockNeverRefused, Unlocking, HandlersConsistent,
         TypeOK, Request
  <2>2. \A t \in Stages : inspection[t] = "PASS"
    BY <2>1, NumStagesAssumption DEF GateOrder, Stages
  <2> QED
    BY <1>1, <2>2 DEF CertificateCreate, CertificateSound
<1>2. ASSUME NEW r \in Requests, CompletePermit(r) PROVE CertificateSound'
  BY <1>2 DEF CompletePermit, HandlersConsistent, CertificateSound
<1>3. ASSUME NEW r \in Requests, SignOffCommit(r) PROVE CertificateSound'
  BY <1>3 DEF SignOffCommit, CertificateSound, TypeOK
<1>4. ASSUME UNCHANGED <<inspection, certificate, permitStatus>> PROVE CertificateSound'
  BY <1>4 DEF CertificateSound
<1> QED
  BY <1>1, <1>2, <1>3, <1>4 DEF Next, Work, Fault, Arrive, UserRequest, Resume,
       MarkPaidLoad, BookLoad,
       SignOffLoad, ReRequestLoad, SignOffFindInspection, UnlockFind, UnlockWrite,
       MarkPaidWrite, BookWrite, ReRequestWrite, AuditRecord, AuditSwallow, CallFails,
       Crash, rows, vars

\* Two handlers never move the gate past the same stage: the inspection row the
\* first one commits refuses the second.
LEMMA UnlockStep == GateInv /\ [Next]_vars => UnlockNeverRefused'
<1> SUFFICES ASSUME GateInv, [Next]_vars PROVE UnlockNeverRefused'
  OBVIOUS
<1> USE StagesFacts DEF GateInv
<1>1. ASSUME NEW r \in Requests, SignOffCommit(r) PROVE UnlockNeverRefused'
  <2> DEFINE s == req[r].stage
  <2>1. CASE inspection[s] # "NONE"
    BY <1>1, <2>1 DEF SignOffCommit, Return, Idle, UnlockNeverRefused, Unlocking, TypeOK
  <2>2. CASE inspection[s] = "NONE"
    <3>1. s \in Stages /\ status[s] # "LOCKED"
      BY <1>1 DEF SignOffCommit, HandlersConsistent, TypeOK, Request
    <3>2. \A t \in Stages : status[t] = "LOCKED" => status'[t] = "LOCKED"
      BY <1>1, <3>1 DEF SignOffCommit, SetStatus, TypeOK
    <3>3. \A q \in Requests : ~Unlocking(q, s)
      BY <2>2, <3>1 DEF UnlockNeverRefused
    <3>4. /\ \A q \in Requests \ {r} : req'[q] = req[q]
          /\ req'[r].stage = s /\ req'[r].pc = "auditInspection"
          /\ req'[r].result = req[r].result
          /\ inspection' = [inspection EXCEPT ![s] = req[r].result]
          /\ certificate' = certificate
      BY <1>1, <2>2 DEF SignOffCommit, Goto, TypeOK, Request
    <3> HIDE DEF s
    <3>5. ~IsFinalStage(s) => status[NextStage(s)] = "LOCKED"
      BY <2>2, <3>1 DEF GateOrder, NextStage, Stages
    <3>6. ~certificate
      BY <2>2, <3>1 DEF CertificateSound
    <3>7. ASSUME NEW q \in Requests, NEW t \in Stages, Unlocking(q, t)'
          PROVE  /\ inspection'[t] = "PASS"
                 /\ IF IsFinalStage(t) THEN ~certificate' ELSE status'[NextStage(t)] = "LOCKED"
                 /\ \A p \in Requests \ {q} : ~Unlocking(p, t)'
      <4>1. CASE q = r
        <5>1. t = s /\ inspection'[t] = "PASS"
          BY <3>1, <3>4, <3>7, <4>1 DEF Unlocking, TypeOK
        <5> QED
          BY <3>1, <3>2, <3>3, <3>4, <3>5, <3>6, <4>1, <5>1 DEF Unlocking
      <4>2. CASE q # r
        <5>1. Unlocking(q, t) /\ t # s
          BY <3>3, <3>4, <3>7, <4>2 DEF Unlocking
        <5>2. \A p \in Requests \ {q} : ~Unlocking(p, t)'
          BY <3>4, <5>1 DEF UnlockNeverRefused, Unlocking
        <5>3. inspection'[t] = "PASS"
          BY <3>4, <5>1 DEF UnlockNeverRefused, TypeOK
        <5> QED
          BY <3>2, <3>4, <5>1, <5>2, <5>3 DEF UnlockNeverRefused
      <4> QED
        BY <4>1, <4>2
    <3> QED
      BY <3>7 DEF UnlockNeverRefused
  <2> QED
    BY <2>1, <2>2
<1>2. ASSUME NEW r \in Requests, UnlockWrite(r) PROVE UnlockNeverRefused'
  <2> DEFINE s == req[r].stage
  <2>1. s \in Stages /\ ~IsFinalStage(s) /\ Unlocking(r, s)
    BY <1>2 DEF UnlockWrite, Unlocking, HandlersConsistent, TypeOK, Request
  <2>2. \A q \in Requests \ {r} : ~Unlocking(q, s)
    BY <2>1 DEF UnlockNeverRefused
  <2>3. /\ req'[r].pc = "auditUnlocked" /\ req'[r].stage = s
        /\ \A q \in Requests \ {r} : req'[q] = req[q]
        /\ inspection' = inspection /\ certificate' = certificate
        /\ \A t \in Stages : t # NextStage(s) => status'[t] = status[t]
    BY <1>2 DEF UnlockWrite, SetStatus, Goto, TypeOK, Request
  <2> HIDE DEF s
  <2>4. ASSUME NEW q \in Requests, NEW t \in Stages, Unlocking(q, t)'
        PROVE  Unlocking(q, t) /\ q # r /\ t # s
    BY <2>2, <2>3, <2>4 DEF Unlocking
  <2>5. \A t \in Stages : t # s => NextStage(t) # NextStage(s)
    BY <2>1 DEF NextStage
  <2> QED
    BY <2>1, <2>3, <2>4, <2>5 DEF UnlockNeverRefused
<1>3. ASSUME NEW r \in Requests, MarkPaidWrite(r) \/ BookWrite(r) \/ ReRequestWrite(r)
      PROVE  UnlockNeverRefused'
  <2>1. req[r].stage \in Stages /\ status[req[r].stage] # "LOCKED"
    BY <1>3 DEF MarkPaidWrite, BookWrite, ReRequestWrite, HandlersConsistent, TypeOK, Request
  <2>2. \A t \in Stages : status[t] = "LOCKED" => status'[t] = "LOCKED"
    BY <1>3, <2>1 DEF MarkPaidWrite, BookWrite, ReRequestWrite, SetStatus, TypeOK
  <2>3. inspection' = inspection /\ certificate' = certificate
    BY <1>3 DEF MarkPaidWrite, BookWrite, ReRequestWrite
  <2>4. \A q \in Requests, t \in Stages : Unlocking(q, t)' => Unlocking(q, t)
    BY <1>3 DEF MarkPaidWrite, BookWrite, ReRequestWrite, Goto, Unlocking, TypeOK,
         Request
  <2> QED
    BY <2>2, <2>3, <2>4 DEF UnlockNeverRefused
<1>4. ASSUME NEW r \in Requests, CertificateCreate(r) PROVE UnlockNeverRefused'
  <2> DEFINE s == req[r].stage
  <2>1. s \in Stages /\ IsFinalStage(s) /\ Unlocking(r, s)
    BY <1>4 DEF CertificateCreate, Unlocking, HandlersConsistent, TypeOK, Request
  <2>2. \A q \in Requests \ {r} : ~Unlocking(q, s)
    BY <2>1 DEF UnlockNeverRefused
  <2>3. inspection' = inspection /\ status' = status
    BY <1>4 DEF CertificateCreate
  <2>4. \A q \in Requests, t \in Stages : Unlocking(q, t)' => Unlocking(q, t) /\ q # r
    BY <1>4 DEF CertificateCreate, Goto, Return, Idle, Unlocking, TypeOK, Request
  <2> HIDE DEF s
  <2>5. ASSUME NEW q \in Requests, NEW t \in Stages, Unlocking(q, t)'
        PROVE  ~IsFinalStage(t)
    BY <2>1, <2>2, <2>4, <2>5
  <2> QED
    BY <2>3, <2>4, <2>5 DEF UnlockNeverRefused
<1>5. ASSUME UNCHANGED <<status, inspection, certificate>>,
             \A q \in Requests, t \in Stages : Unlocking(q, t)' => Unlocking(q, t)
      PROVE  UnlockNeverRefused'
  BY <1>5 DEF UnlockNeverRefused
<1>6. ASSUME NEW r \in Requests,
             \/ Arrive(r) \/ SignOffFindInspection(r) \/ UnlockFind(r) \/ CompletePermit(r)
             \/ AuditRecord(r) \/ AuditSwallow(r) \/ CallFails(r)
      PROVE  UnlockNeverRefused'
  <2>1. UNCHANGED <<status, inspection, certificate>>
    BY <1>6 DEF Arrive, UserRequest, MarkPaidLoad, BookLoad, SignOffLoad, ReRequestLoad,
         SignOffFindInspection, UnlockFind, CompletePermit, AuditRecord, AuditSwallow,
         CallFails, rows
  <2>2. \A q \in Requests, t \in Stages : Unlocking(q, t)' => Unlocking(q, t)
    <3>1. CASE Arrive(r)
      BY <3>1 DEF Arrive, UserRequest, MarkPaidLoad, BookLoad, SignOffLoad, ReRequestLoad, Begin,
           Unlocking, TypeOK, Request
    <3>2. CASE SignOffFindInspection(r) \/ UnlockFind(r) \/ CompletePermit(r) \/ CallFails(r)
      BY <3>2 DEF SignOffFindInspection, UnlockFind, CompletePermit, CallFails, Goto, Return,
           Idle, Unlocking, TypeOK, Request
    <3>3. CASE AuditRecord(r) \/ AuditSwallow(r)
      BY <3>3 DEF AuditRecord, AuditSwallow, AfterAudit, Goto, Return, Idle, Unlocking,
           TypeOK, Request
    <3> QED
      BY <1>6, <3>1, <3>2, <3>3
  <2> QED
    BY <1>5, <2>1, <2>2
<1>7. CASE Crash \/ UNCHANGED vars
  BY <1>5, <1>7 DEF Crash, Idle, Unlocking, rows, vars
<1> QED
  BY <1>1, <1>2, <1>3, <1>4, <1>6, <1>7 DEF Next, Work, Fault, Resume

LEMMA GateInvariant == Spec => []GateInv
<1>1. Init => GateInv
  BY TypeInit, HandlersInit, GateInit DEF GateInv
<1>2. GateInv /\ [Next]_vars => GateInv'
  BY TypeStep, HandlersStep, GateOrderStep, CertificateStep, UnlockStep DEF GateInv
<1> QED
  BY <1>1, <1>2, PTL DEF Spec

\* A stage is open only behind a recorded PASS of every earlier stage.
THEOREM GateOrderHolds == Spec => []GateOrder
BY GateInvariant, PTL DEF GateInv

\* A certificate stands for the passes of all stages, COMPLETED for a certificate.
THEOREM CertificateIsSound == Spec => []CertificateSound
BY GateInvariant, PTL DEF GateInv

\* A sign-off whose inspection is committed is refused by no later check.
THEOREM UnlockIsNeverRefused == Spec => []UnlockNeverRefused
BY GateInvariant, PTL DEF GateInv

-----------------------------------------------------------------------------
(* What a step never takes back, and the ledger. *)

\* The effect of a step on the rows: a status outside LOCKED stays outside, and
\* results and the certificate are only added.
LEMMA StepKeeps ==
    ASSUME GateInv, [Next]_vars
    PROVE  /\ \A s \in Stages : /\ inspection[s] # "NONE" => inspection'[s] = inspection[s]
                                /\ status[s] # "LOCKED" => status'[s] # "LOCKED"
           /\ certificate => certificate'
<1> USE StagesFacts DEF GateInv
<1>1. ASSUME NEW r \in Requests, MarkPaidWrite(r) \/ BookWrite(r) \/ ReRequestWrite(r)
      PROVE  /\ inspection' = inspection /\ certificate' = certificate
             /\ \A s \in Stages : status[s] # "LOCKED" => status'[s] # "LOCKED"
  BY <1>1 DEF MarkPaidWrite, BookWrite, ReRequestWrite, SetStatus, TypeOK
<1>2. ASSUME NEW r \in Requests, UnlockWrite(r)
      PROVE  /\ inspection' = inspection /\ certificate' = certificate
             /\ \A s \in Stages : status[s] # "LOCKED" => status'[s] # "LOCKED"
  BY <1>2 DEF UnlockWrite, SetStatus, TypeOK
<1>3. ASSUME NEW r \in Requests, SignOffCommit(r)
      PROVE  /\ certificate' = certificate
             /\ \A s \in Stages : /\ inspection[s] # "NONE" => inspection'[s] = inspection[s]
                                  /\ status[s] # "LOCKED" => status'[s] # "LOCKED"
  BY <1>3 DEF SignOffCommit, SetStatus, TypeOK
<1>4. ASSUME NEW r \in Requests, CertificateCreate(r)
      PROVE  UNCHANGED <<status, inspection>> /\ (certificate => certificate')
  BY <1>4 DEF CertificateCreate
<1>5. CASE UNCHANGED <<status, inspection, certificate>>
  BY <1>5
<1> QED
  BY <1>1, <1>2, <1>3, <1>4, <1>5 DEF Next, Work, Fault, Arrive, UserRequest, Resume,
       MarkPaidLoad, BookLoad,
       SignOffLoad, ReRequestLoad, SignOffFindInspection, UnlockFind, CompletePermit,
       AuditRecord, AuditSwallow, CallFails, Crash, rows, vars

\* Recorded results, opened stages and the certificate are never taken back.
THEOREM NothingIsUndone == Spec => NothingUndone
<1>1. GateInv /\ [Next]_vars =>
        [/\ \A s \in Stages : /\ inspection[s] # "NONE" => inspection'[s] = inspection[s]
                              /\ status[s] # "LOCKED" => status'[s] # "LOCKED"
         /\ certificate => certificate']_vars
  BY StepKeeps
<1> QED
  BY <1>1, GateInvariant, PTL DEF Spec, NothingUndone

LEMMA LedgerInit == Init => Ledger!Init
<1> SUFFICES ASSUME Init PROVE Ledger!Init
  OBVIOUS
<1> USE StagesFacts DEF Ledger!Init, Ledger!Stages, Stages
<1>1. CASE CreatedPermit
  <2>1. /\ \A s \in Stages : status[s] # "LOCKED" <=> s <= 0
        /\ inspection \in [Stages -> {"NONE", "PASS", "FAIL"}]
        /\ \A s \in Stages : inspection[s] = "NONE"
        /\ certificate = (0 = NumStages)
    <3>1. \A s \in Stages : s <= 0 <=> s = 0
      BY NumStagesAssumption
    <3> QED
      BY <1>1, <3>1, NumStagesAssumption DEF CreatedPermit, InitialStatus
  <2> QED
    BY <2>1, NumStagesAssumption
<1>2. CASE \E passed \in 0 .. NumStages, current \in SeedStatuses :
              SeededPermit(passed, current)
  <2> PICK passed \in 0 .. NumStages, current \in SeedStatuses : SeededPermit(passed, current)
    BY <1>2
  <2>1. \A s \in Stages : /\ s < passed => status[s] # "LOCKED" /\ inspection[s] = "PASS"
                          /\ s = passed => status[s] # "LOCKED" /\ inspection[s] # "PASS"
                          /\ s > passed => status[s] = "LOCKED" /\ inspection[s] = "NONE"
    BY SeedShape
  <2>2. inspection \in [Stages -> {"NONE", "PASS", "FAIL"}]
    BY TypeInit DEF TypeOK, Results
  <2>4. \A s \in Stages : status[s] # "LOCKED" <=> s <= passed
    BY <2>1, NumStagesAssumption
  <2>3. certificate = (passed = NumStages)
    BY DEF SeededPermit
  <2> QED
    BY <2>1, <2>2, <2>3, <2>4
<1> QED
  BY <1>1, <1>2 DEF Init, InitRows

LEMMA LedgerStep == GateInv /\ [Next]_vars => [Ledger!Next]_(Ledger!ledgerVars)
<1> SUFFICES ASSUME GateInv, [Next]_vars PROVE [Ledger!Next]_(Ledger!ledgerVars)
  OBVIOUS
<1> USE StagesFacts DEF GateInv, Ledger!Stages, Stages
<1> DEFINE opened == {s \in Stages : status[s] # "LOCKED"}
<1>1. ASSUME NEW r \in Requests, MarkPaidWrite(r) \/ BookWrite(r) \/ ReRequestWrite(r)
      PROVE  UNCHANGED Ledger!ledgerVars
  <2>1. req[r].stage \in Stages /\ status[req[r].stage] # "LOCKED"
    BY <1>1 DEF MarkPaidWrite, BookWrite, ReRequestWrite, HandlersConsistent, TypeOK, Request
  <2>2. \A s \in Stages : status'[s] # "LOCKED" <=> status[s] # "LOCKED"
    BY <1>1, <2>1 DEF MarkPaidWrite, BookWrite, ReRequestWrite, SetStatus, TypeOK
  <2> QED
    BY <1>1, <2>2 DEF Ledger!ledgerVars, MarkPaidWrite, BookWrite, ReRequestWrite
<1>2. ASSUME NEW r \in Requests, SignOffCommit(r) PROVE [Ledger!Next]_(Ledger!ledgerVars)
  <2>1. /\ req[r].stage \in Stages /\ status[req[r].stage] # "LOCKED"
        /\ req[r].result \in {"PASS", "FAIL"}
    BY <1>2 DEF SignOffCommit, HandlersConsistent, TypeOK, Request, Results
  <2>2. \A s \in Stages : status'[s] # "LOCKED" <=> status[s] # "LOCKED"
    BY <1>2, <2>1 DEF SignOffCommit, SetStatus, TypeOK
  <2>3. CASE inspection[req[r].stage] = "NONE"
    <3>1. Ledger!Inspect(req[r].stage, req[r].result)
      BY <1>2, <2>1, <2>2, <2>3 DEF SignOffCommit, Ledger!Inspect
    <3> QED
      BY <2>1, <3>1 DEF Ledger!Next
  <2>4. CASE inspection[req[r].stage] # "NONE"
    BY <1>2, <2>2, <2>4 DEF SignOffCommit, Ledger!ledgerVars
  <2> QED
    BY <2>3, <2>4
<1>3. ASSUME NEW r \in Requests, UnlockWrite(r) PROVE Ledger!Next
  <2> DEFINE n == NextStage(req[r].stage)
  <2>1. /\ Unlocking(r, req[r].stage) /\ req[r].stage \in Stages
        /\ ~IsFinalStage(req[r].stage) /\ n \in Stages
    BY <1>3 DEF UnlockWrite, Unlocking, HandlersConsistent, TypeOK, Request
  <2>2. status[n] = "LOCKED"
    BY <2>1 DEF UnlockNeverRefused
  <2>3. /\ UNCHANGED <<inspection, certificate>>
        /\ status' = [status EXCEPT ![n] = "AWAITING_PAYMENT"]
    BY <1>3 DEF UnlockWrite, SetStatus
  <2>4. GateOrder'
    BY GateOrderStep
  <2> HIDE DEF n
  <2>5. status'[n] # "LOCKED" /\ \A s \in Stages : s # n => status'[s] = status[s]
    BY <2>1, <2>3 DEF TypeOK
  <2>6. \A t \in Stages : t < n => inspection[t] = "PASS"
    BY <2>1, <2>3, <2>4, <2>5 DEF GateOrder
  <2>7. Ledger!Open(n)
    BY <2>1, <2>2, <2>3, <2>5, <2>6 DEF Ledger!Open, Ledger!Passed
  <2> QED
    BY <2>1, <2>7 DEF Ledger!Next, Ledger!Open
<1>4. ASSUME NEW r \in Requests, CertificateCreate(r)
      PROVE  [Ledger!Next]_(Ledger!ledgerVars)
  <2>1. CertificateSound'
    BY CertificateStep
  <2>2. UNCHANGED <<status, inspection>>
    BY <1>4 DEF CertificateCreate
  <2>3. CASE certificate
    BY <1>4, <2>2, <2>3 DEF CertificateCreate, Ledger!ledgerVars
  <2>4. CASE ~certificate
    <3>1. certificate' = TRUE
      BY <1>4, <2>4 DEF CertificateCreate
    <3>2. Ledger!Certify
      BY <2>1, <2>2, <2>4, <3>1 DEF CertificateSound, Ledger!Certify, Ledger!Passed
    <3> QED
      BY <3>2 DEF Ledger!Next
  <2> QED
    BY <2>3, <2>4
<1>5. ASSUME UNCHANGED <<status, inspection, certificate>>
      PROVE  UNCHANGED Ledger!ledgerVars
  BY <1>5 DEF Ledger!ledgerVars
<1> QED
  BY <1>1, <1>2, <1>3, <1>4, <1>5 DEF Next, Work, Fault, Arrive, UserRequest, Resume, MarkPaidLoad,
       BookLoad, SignOffLoad, ReRequestLoad, SignOffFindInspection, UnlockFind,
       CompletePermit, AuditRecord, AuditSwallow, CallFails, Crash, rows, vars

\* Under every interleaving and failure the gate implements the ledger.
THEOREM GateKeepsLedger == Spec => KeepsLedger
<1>1. Init => Ledger!Init
  BY LedgerInit
<1>2. GateInv /\ [Next]_vars => [Ledger!Next]_(Ledger!ledgerVars)
  BY LedgerStep
<1> QED
  BY <1>1, <1>2, GateInvariant, PTL DEF Spec, KeepsLedger, Ledger!Spec

-----------------------------------------------------------------------------
(* The audit trail. *)

\* What makes an entry true.
Evidenced(e) ==
    /\ e.action \in {"INSPECTION_PASSED", "STAGE_PASSED"} => inspection[e.stage] = "PASS"
    /\ e.action = "INSPECTION_FAILED" => inspection[e.stage] = "FAIL"
    /\ e.action = "STAGE_BOOKED" => bookedFor[e.stage] \in Dates
    /\ e.action = "CERTIFICATE_ISSUED" => permitStatus = "COMPLETED"
    /\ e.action = "STAGE_UNLOCKED" => \A t \in Stages : t < e.stage => inspection[t] = "PASS"

LEMMA AuditInit == Init => AuditTruthful
<1> SUFFICES ASSUME Init, NEW e \in audit PROVE Evidenced(e)
  BY DEF AuditTruthful, Evidenced
<1>1. CASE CreatedPermit
  BY <1>1 DEF CreatedPermit
<1>2. CASE \E passed \in 0 .. NumStages, current \in SeedStatuses :
              SeededPermit(passed, current)
  <2> PICK passed \in 0 .. NumStages, current \in SeedStatuses : SeededPermit(passed, current)
    BY <1>2
  <2>1. \/ e.action = "STAGE_PASSED" /\ e.stage \in Stages /\ e.stage < passed
        \/ e.action = "INSPECTION_FAILED" /\ inspection[e.stage] = "FAIL"
        \/ e.action = "CERTIFICATE_ISSUED" /\ certificate
    BY DEF SeededPermit, Watch
  <2>2. certificate => permitStatus = "COMPLETED"
    BY DEF SeededPermit
  <2> QED
    BY <2>1, <2>2, SeedShape DEF Evidenced
<1> QED
  BY <1>1, <1>2 DEF Init, InitRows

\* The rows an entry speaks of only grow.
LEMMA EvidenceStays ==
    ASSUME GateInv, [Next]_vars, NEW e \in [action : AuditActions, stage : Stages], Evidenced(e)
    PROVE  Evidenced(e)'
<1>1. /\ \A s \in Stages : inspection[s] # "NONE" => inspection'[s] = inspection[s]
      /\ e.stage \in Stages
  BY StepKeeps
<1>2. permitStatus = "COMPLETED" => permitStatus' = "COMPLETED"
  BY DEF Next, Work, Fault, Arrive, UserRequest, Resume,
       MarkPaidLoad, BookLoad, SignOffLoad,
     ReRequestLoad, MarkPaidWrite, BookWrite, ReRequestWrite, SignOffFindInspection,
     SignOffCommit, UnlockFind, UnlockWrite, CertificateCreate, CompletePermit, AuditRecord,
     AuditSwallow, CallFails, Crash, rows, vars
<1>3. \A s \in Stages : bookedFor[s] \in Dates => bookedFor'[s] \in Dates
  <2>1. ASSUME NEW r \in Requests, BookWrite(r)
        PROVE  \A s \in Stages : bookedFor[s] \in Dates => bookedFor'[s] \in Dates
    BY <2>1 DEF BookWrite, GateInv, TypeOK
  <2>2. CASE bookedFor' = bookedFor
    BY <2>2
  <2> QED
    BY <2>1, <2>2 DEF Next, Work, Fault, Arrive, UserRequest, Resume,
       MarkPaidLoad, BookLoad, SignOffLoad,
       ReRequestLoad, MarkPaidWrite, ReRequestWrite, SignOffFindInspection,
       SignOffCommit, UnlockFind, UnlockWrite, CertificateCreate, CompletePermit, AuditRecord,
       AuditSwallow, CallFails, Crash, rows, vars
<1> QED
  BY <1>1, <1>2, <1>3 DEF Evidenced

LEMMA AuditStep == GateInv /\ AuditTruthful /\ [Next]_vars => AuditTruthful'
<1> SUFFICES ASSUME GateInv, AuditTruthful, [Next]_vars, NEW e \in audit' PROVE Evidenced(e)'
  BY DEF AuditTruthful, Evidenced
<1>1. CASE e \in audit
  <2>1. Evidenced(e) /\ e \in [action : AuditActions, stage : Stages]
    BY <1>1 DEF AuditTruthful, Evidenced, GateInv, TypeOK
  <2> QED
    BY <2>1, EvidenceStays
<1>2. CASE e \notin audit
  <2>1. PICK r \in Requests : AuditRecord(r)
    BY <1>2 DEF Next, Work, Fault, Arrive, UserRequest, Resume,
       MarkPaidLoad, BookLoad, SignOffLoad,
       ReRequestLoad, MarkPaidWrite, BookWrite, ReRequestWrite, SignOffFindInspection,
       SignOffCommit, UnlockFind, UnlockWrite, CertificateCreate, CompletePermit,
       AuditSwallow, CallFails, Crash, rows, vars
  <2>2. /\ e = AuditEntry(req[r]) /\ req[r].pc \in AuditPoints /\ UNCHANGED rows
        /\ req[r] \in Request
    BY <1>2, <2>1 DEF AuditRecord, Watch, GateInv, TypeOK
  <2>3. CASE req[r].pc = "auditUnlocked"
    <3>1. e.action = "STAGE_UNLOCKED" /\ e.stage \in Stages /\ status[e.stage] # "LOCKED"
      BY <2>2, <2>3, StagesFacts DEF AuditEntry, GateInv, HandlersConsistent, Request
    <3> QED
      BY <2>2, <3>1 DEF Evidenced, GateInv, GateOrder, rows
  <2>4. CASE req[r].pc = "auditInspection"
    BY <2>2, <2>4 DEF AuditEntry, InspectionAction, Evidenced, GateInv, HandlersConsistent,
         Request, Results, rows
  <2>5. CASE req[r].pc \in AuditPoints \ {"auditUnlocked", "auditInspection"}
    BY <2>2, <2>5 DEF AuditPoints, AuditEntry, Evidenced, GateInv, HandlersConsistent, rows
  <2> QED
    BY <2>2, <2>3, <2>4, <2>5
<1> QED
  BY <1>1, <1>2

\* The audit trail never claims what the rows do not bear out.
THEOREM AuditIsTruthful == Spec => []AuditTruthful
<1>1. GateInv /\ AuditTruthful /\ [Next]_vars => AuditTruthful'
  BY AuditStep
<1> QED
  BY <1>1, AuditInit, GateInvariant, PTL DEF Spec

-----------------------------------------------------------------------------
(* Nothing is missing from the audit trail of a process that lives. *)

\* The actions AuditComplete looks for.
Telling == {"STAGE_PASSED", "INSPECTION_PASSED", "INSPECTION_FAILED", "STAGE_UNLOCKED",
            "CERTIFICATE_ISSUED"}

LoggedAs(actions, s) == \E e \in audit : e.action \in actions /\ e.stage = s

AwaitsAudit(pc, s) == \E r \in Requests : req[r].pc = pc /\ req[r].stage = s

InspectionTold(s) == \/ LoggedAs({"STAGE_PASSED", "INSPECTION_PASSED", "INSPECTION_FAILED"}, s)
                     \/ AwaitsAudit("auditInspection", s)

UnlockTold(s) == \/ LoggedAs({"STAGE_PASSED"}, s)
                 \/ LoggedAs({"STAGE_UNLOCKED"}, NextStage(s))
                 \/ AwaitsAudit("auditUnlocked", s)

CertificateTold(s) == LoggedAs({"CERTIFICATE_ISSUED"}, s) \/ AwaitsAudit("auditCertificate", s)

CompleteAtFinal == \A r \in Requests :
    req[r].pc \in {"completePermit", "auditCertificate"} => IsFinalStage(req[r].stage)

AllTold(s) ==
    /\ inspection[s] # "NONE" => InspectionTold(s)
    /\ ~IsFinalStage(s) /\ status[NextStage(s)] # "LOCKED" => UnlockTold(s)
    /\ IsFinalStage(s) /\ permitStatus = "COMPLETED" => CertificateTold(s)

CompleteInv == CompleteAtFinal /\ \A s \in Stages : AllTold(s)

\* What seed.ts brings into the database it also writes into the trail.
LEMMA CompleteInit == ASSUME Telling \subseteq Watched, Init PROVE CompleteInv
<1>1. CompleteAtFinal
  BY DEF Init, Idle, CompleteAtFinal
<1>2. ASSUME NEW s \in Stages PROVE AllTold(s)
  <2>1. CASE CreatedPermit
    BY <2>1, StagesFacts DEF CreatedPermit, InitialStatus, AllTold, NextStage, Stages
  <2>2. CASE \E passed \in 0 .. NumStages, current \in SeedStatuses :
                SeededPermit(passed, current)
    <3> PICK passed \in 0 .. NumStages, current \in SeedStatuses : SeededPermit(passed, current)
      BY <2>2
    <3>1. s < passed => LoggedAs({"STAGE_PASSED"}, s)
      <4>1. s < passed => [action |-> "STAGE_PASSED", stage |-> s] \in audit
        BY DEF SeededPermit, Watch, Telling
      <4> QED
        BY <4>1 DEF LoggedAs
    <3>2. inspection[s] = "FAIL" => LoggedAs({"INSPECTION_FAILED"}, s)
      <4>1. inspection[s] = "FAIL" => [action |-> "INSPECTION_FAILED", stage |-> s] \in audit
        BY DEF SeededPermit, Watch, Telling
      <4> QED
        BY <4>1 DEF LoggedAs
    <3>3. certificate /\ IsFinalStage(s) => LoggedAs({"CERTIFICATE_ISSUED"}, s)
      <4>1. certificate /\ IsFinalStage(s) =>
               [action |-> "CERTIFICATE_ISSUED", stage |-> s] \in audit
        BY DEF SeededPermit, Watch, Telling
      <4> QED
        BY <4>1 DEF LoggedAs
    <3>4. inspection[s] # "NONE" => s < passed \/ inspection[s] = "FAIL"
      BY StagesFacts DEF SeededPermit
    <3>5. ~IsFinalStage(s) /\ status[NextStage(s)] # "LOCKED" => s < passed
      <4>1. ~IsFinalStage(s) => NextStage(s) \in Stages
        BY StagesFacts
      <4>2. ~IsFinalStage(s) /\ NextStage(s) > passed => status[NextStage(s)] = "LOCKED"
        BY <4>1, SeedShape
      <4> QED
        BY <4>1, <4>2, StagesFacts DEF NextStage
    <3>6. permitStatus = "COMPLETED" => certificate
      BY DEF SeededPermit
    <3>7. s < passed \/ inspection[s] = "FAIL" => InspectionTold(s)
      BY <3>1, <3>2 DEF InspectionTold, LoggedAs
    <3> QED
      BY <3>1, <3>3, <3>4, <3>5, <3>6, <3>7 DEF AllTold, UnlockTold, CertificateTold
  <2> QED
    BY <2>1, <2>2 DEF Init, InitRows
<1> QED
  BY <1>1, <1>2 DEF CompleteInv

\* The trail only grows, and a handler at an audit point leaves it by writing its entry.
LEMMA TrailGrows ==
    ASSUME GateInv, Telling \subseteq Watched, [Work]_vars
    PROVE  /\ audit \subseteq audit'
           /\ \A r \in Requests : req[r].pc \in AuditPoints =>
                 \/ req'[r] = req[r]
                 \/ AuditEntry(req[r]).action \in Telling => AuditEntry(req[r]) \in audit'
<1>1. ASSUME NEW q \in Requests, AuditRecord(q)
      PROVE  /\ audit \subseteq audit'
             /\ AuditEntry(req[q]).action \in Telling => AuditEntry(req[q]) \in audit'
             /\ \A r \in Requests : r # q => req'[r] = req[r]
  BY <1>1 DEF AuditRecord, Watch, AfterAudit, Goto, Return, GateInv, TypeOK
<1>2. ASSUME NEW q \in Requests, Arrive(q) \/ (Resume(q) /\ ~AuditRecord(q))
      PROVE  /\ audit' = audit /\ req[q].pc \notin AuditPoints
             /\ \A r \in Requests : r # q => req'[r] = req[r]
  BY <1>2 DEF Arrive, UserRequest, Resume, MarkPaidLoad, BookLoad, SignOffLoad, ReRequestLoad,
       MarkPaidWrite, BookWrite, ReRequestWrite, SignOffFindInspection, SignOffCommit, UnlockFind,
       UnlockWrite, CertificateCreate, CompletePermit, IsIdle, Begin, Goto, Return, AuditPoints,
       rows, GateInv, TypeOK
<1>3. CASE UNCHANGED vars
  BY <1>3 DEF vars
<1>4. ASSUME NEW q \in Requests, AuditRecord(q) \/ Arrive(q) \/ (Resume(q) /\ ~AuditRecord(q))
      PROVE  /\ audit \subseteq audit'
             /\ \A r \in Requests : req[r].pc \in AuditPoints =>
                   \/ req'[r] = req[r]
                   \/ AuditEntry(req[r]).action \in Telling => AuditEntry(req[r]) \in audit'
  BY <1>1, <1>2, <1>4
<1> QED
  BY <1>3, <1>4 DEF Work, Resume

\* What is told stays told.
LEMMA ToldStays ==
    ASSUME GateInv, Telling \subseteq Watched, [Work]_vars, NEW s \in Stages
    PROVE  /\ InspectionTold(s) => InspectionTold(s)'
           /\ UnlockTold(s) => UnlockTold(s)'
           /\ CertificateTold(s) => CertificateTold(s)'
<1>1. \A actions : LoggedAs(actions, s) => LoggedAs(actions, s)'
  BY TrailGrows DEF LoggedAs
<1>2. \A actions : LoggedAs(actions, NextStage(s)) => LoggedAs(actions, NextStage(s))'
  BY TrailGrows DEF LoggedAs
<1>3. AwaitsAudit("auditInspection", s) => InspectionTold(s)'
  <2> SUFFICES ASSUME NEW r \in Requests, req[r].pc = "auditInspection", req[r].stage = s
               PROVE  InspectionTold(s)'
    BY DEF AwaitsAudit
  <2>1. /\ AuditEntry(req[r]).action \in {"INSPECTION_PASSED", "INSPECTION_FAILED"}
        /\ AuditEntry(req[r]).stage = s
    BY DEF AuditEntry, InspectionAction
  <2>2. req'[r] = req[r] \/ AuditEntry(req[r]) \in audit'
    BY <2>1, TrailGrows DEF AuditPoints, Telling
  <2> QED
    BY <2>1, <2>2 DEF InspectionTold, LoggedAs, AwaitsAudit
<1>4. AwaitsAudit("auditUnlocked", s) => UnlockTold(s)'
  <2> SUFFICES ASSUME NEW r \in Requests, req[r].pc = "auditUnlocked", req[r].stage = s
               PROVE  UnlockTold(s)'
    BY DEF AwaitsAudit
  <2>1. AuditEntry(req[r]) = [action |-> "STAGE_UNLOCKED", stage |-> NextStage(s)]
    BY DEF AuditEntry
  <2>2. req'[r] = req[r] \/ AuditEntry(req[r]) \in audit'
    BY <2>1, TrailGrows DEF AuditPoints, Telling
  <2> QED
    BY <2>1, <2>2 DEF UnlockTold, LoggedAs, AwaitsAudit
<1>5. AwaitsAudit("auditCertificate", s) => CertificateTold(s)'
  <2> SUFFICES ASSUME NEW r \in Requests, req[r].pc = "auditCertificate", req[r].stage = s
               PROVE  CertificateTold(s)'
    BY DEF AwaitsAudit
  <2>1. AuditEntry(req[r]) = [action |-> "CERTIFICATE_ISSUED", stage |-> s]
    BY DEF AuditEntry
  <2>2. req'[r] = req[r] \/ AuditEntry(req[r]) \in audit'
    BY <2>1, TrailGrows DEF AuditPoints, Telling
  <2> QED
    BY <2>1, <2>2 DEF CertificateTold, LoggedAs, AwaitsAudit
<1> QED
  BY <1>1, <1>2, <1>3, <1>4, <1>5 DEF InspectionTold, UnlockTold, CertificateTold

\* What comes to be told of is told by the handler that made it.
LEMMA NewsIsTold ==
    ASSUME GateInv, CompleteAtFinal, [Work]_vars, NEW s \in Stages
    PROVE  /\ inspection[s] = "NONE" /\ inspection'[s] # "NONE" => InspectionTold(s)'
           /\ ~IsFinalStage(s) /\ status[NextStage(s)] = "LOCKED"
                 /\ status'[NextStage(s)] # "LOCKED" => UnlockTold(s)'
           /\ IsFinalStage(s) /\ permitStatus # "COMPLETED" /\ permitStatus' = "COMPLETED"
                 => CertificateTold(s)'
<1> DEFINE News == /\ inspection[s] = "NONE" /\ inspection'[s] # "NONE" => InspectionTold(s)'
                   /\ ~IsFinalStage(s) /\ status[NextStage(s)] = "LOCKED"
                         /\ status'[NextStage(s)] # "LOCKED" => UnlockTold(s)'
                   /\ IsFinalStage(s) /\ permitStatus # "COMPLETED" /\ permitStatus' = "COMPLETED"
                         => CertificateTold(s)'
<1>1. ASSUME NEW r \in Requests, SignOffCommit(r) PROVE News
  <2>1. \A t \in Stages : status[t] = "LOCKED" => status'[t] = "LOCKED"
    BY <1>1 DEF SignOffCommit, SetStatus, GateInv, TypeOK, Request, HandlersConsistent
  <2>2. inspection'[s] # inspection[s] => /\ req'[r].pc = "auditInspection"
                                          /\ req'[r].stage = s
    BY <1>1 DEF SignOffCommit, Goto, GateInv, TypeOK, Request
  <2>3. permitStatus' = permitStatus
    BY <1>1 DEF SignOffCommit
  <2> QED
    BY <2>1, <2>2, <2>3, StagesFacts DEF InspectionTold, AwaitsAudit
<1>2. ASSUME NEW r \in Requests, UnlockWrite(r) PROVE News
  <2>1. \A t \in Stages : status'[t] # status[t] => t = NextStage(req[r].stage)
    BY <1>2 DEF UnlockWrite, SetStatus, GateInv, TypeOK
  <2>2. req'[r].pc = "auditUnlocked" /\ req'[r].stage = req[r].stage /\ req[r].stage \in Stages
    BY <1>2 DEF UnlockWrite, Goto, GateInv, TypeOK, Request
  <2>3. UNCHANGED <<inspection, permitStatus>>
    BY <1>2 DEF UnlockWrite
  <2>4. s # req[r].stage => NextStage(s) # NextStage(req[r].stage)
    <3>1. s \in Nat /\ req[r].stage \in Nat
      BY <2>2, StagesFacts
    <3> QED
      BY <3>1 DEF NextStage
  <2>5. ~IsFinalStage(s) => NextStage(s) \in Stages
    BY StagesFacts
  <2>6. s = req[r].stage => UnlockTold(s)'
    BY <2>2 DEF UnlockTold, AwaitsAudit
  <2> QED
    BY <2>1, <2>3, <2>4, <2>5, <2>6
<1>3. ASSUME NEW r \in Requests, CompletePermit(r) PROVE News
  <2>1. IsFinalStage(s) => s = req[r].stage
    BY <1>3, StagesFacts DEF CompletePermit, CompleteAtFinal, GateInv, TypeOK, Request
  <2>2. req'[r].pc = "auditCertificate" /\ req'[r].stage = req[r].stage
    BY <1>3 DEF CompletePermit, Goto, GateInv, TypeOK, Request
  <2>3. UNCHANGED <<inspection, status>>
    BY <1>3 DEF CompletePermit
  <2> QED
    BY <2>1, <2>2, <2>3 DEF CertificateTold, AwaitsAudit
<1>4. ASSUME NEW r \in Requests, MarkPaidWrite(r) \/ BookWrite(r) \/ ReRequestWrite(r) PROVE News
  <2>1. \A t \in Stages : status[t] = "LOCKED" => status'[t] = "LOCKED"
    BY <1>4 DEF MarkPaidWrite, BookWrite, ReRequestWrite, SetStatus, GateInv, TypeOK, Request,
         HandlersConsistent
  <2>2. UNCHANGED <<inspection, permitStatus>>
    BY <1>4 DEF MarkPaidWrite, BookWrite, ReRequestWrite
  <2> QED
    BY <2>1, <2>2, StagesFacts
<1>5. CASE UNCHANGED <<status, inspection, permitStatus>>
  BY <1>5
<1> QED
  BY <1>1, <1>2, <1>3, <1>4, <1>5 DEF Work, Arrive, UserRequest, Resume, MarkPaidLoad, BookLoad,
       SignOffLoad, ReRequestLoad, SignOffFindInspection, UnlockFind, CertificateCreate,
       AuditRecord, rows, vars

LEMMA CompleteAtFinalStep == GateInv /\ CompleteAtFinal /\ [Work]_vars => CompleteAtFinal'
<1> SUFFICES ASSUME GateInv, CompleteAtFinal, [Work]_vars PROVE CompleteAtFinal'
  OBVIOUS
<1> USE DEF CompleteAtFinal, GateInv
<1>1. ASSUME NEW r \in Requests, Arrive(r) PROVE CompleteAtFinal'
  BY <1>1 DEF Arrive, UserRequest, MarkPaidLoad, BookLoad, ReRequestLoad, SignOffLoad, Begin, TypeOK
<1>2. ASSUME NEW r \in Requests, Resume(r), ~AuditRecord(r) PROVE CompleteAtFinal'
  BY <1>2 DEF Resume, MarkPaidWrite, BookWrite, ReRequestWrite, SignOffFindInspection,
       SignOffCommit, UnlockFind, UnlockWrite, CertificateCreate, CompletePermit, Goto, Return,
       Idle, TypeOK, Request, HandlersConsistent
<1>3. ASSUME NEW r \in Requests, AuditRecord(r) PROVE CompleteAtFinal'
  BY <1>3 DEF AuditRecord, AfterAudit, Goto, Return, Idle, TypeOK, Request
<1>4. CASE UNCHANGED vars
  BY <1>4 DEF vars
<1> QED
  BY <1>1, <1>2, <1>3, <1>4 DEF Work

LEMMA CompleteStep ==
    ASSUME Telling \subseteq Watched
    PROVE  GateInv /\ CompleteInv /\ [Work]_vars => CompleteInv'
<1> SUFFICES ASSUME GateInv, CompleteInv, [Work]_vars PROVE CompleteInv'
  OBVIOUS
<1>1. CompleteAtFinal'
  BY CompleteAtFinalStep DEF CompleteInv
<1>2. ASSUME NEW s \in Stages PROVE AllTold(s)'
  BY ToldStays, NewsIsTold DEF CompleteInv, AllTold
<1> QED
  BY <1>1, <1>2 DEF CompleteInv

\* AuditService's rule, for any number of handlers at once: while the process lives
\* and the database answers, every inspection, unlock and certificate is in the
\* trail or about to be written there.
THEOREM AuditIsComplete ==
    ASSUME Telling \subseteq Watched
    PROVE  HealthySpec => []AuditComplete
<1>1. [Work]_vars => [Next]_vars
  BY DEF Next
<1>2. HealthySpec => Spec /\ [][Work]_vars
  BY <1>1, PTL DEF HealthySpec, Spec
<1>3. Init => CompleteInv
  BY CompleteInit
<1>4. GateInv /\ CompleteInv /\ [Work]_vars => CompleteInv'
  BY CompleteStep
<1>5. CompleteInv => AuditComplete
  BY DEF CompleteInv, AllTold, InspectionTold, UnlockTold, CertificateTold, LoggedAs, AwaitsAudit,
         AuditComplete
<1> QED
  BY <1>2, <1>3, <1>4, <1>5, GateInvariant, PTL DEF Spec

-----------------------------------------------------------------------------
(* One request at a time. *)

\* What a lone handler will write contradicts no inspection.
LoneHandler ==
    \A r \in Requests :
        req[r].pc \in {"markPaid", "book", "reRequest"} => inspection[req[r].stage] # "PASS"

LEMMA AloneInit == Init => RowsAgree /\ LoneHandler
<1> SUFFICES ASSUME Init PROVE RowsAgree /\ LoneHandler
  OBVIOUS
<1>1. LoneHandler
  BY DEF Init, Idle, LoneHandler
<1>2. CASE CreatedPermit
  BY <1>1, <1>2 DEF CreatedPermit, InitialStatus, RowsAgree
<1>3. CASE \E passed \in 0 .. NumStages, current \in SeedStatuses :
              SeededPermit(passed, current)
  <2> PICK passed \in 0 .. NumStages, current \in SeedStatuses : SeededPermit(passed, current)
    BY <1>3
  <2>1. ASSUME NEW s \in Stages
        PROVE  /\ status[s] = "INSPECTED_PASS" <=> inspection[s] = "PASS"
               /\ status[s] = "INSPECTED_FAIL" => inspection[s] = "FAIL"
    <3>1. CASE s < passed
      BY <3>1, StagesFacts DEF SeededPermit
    <3>2. CASE s = passed
      BY <3>2, StagesFacts DEF SeededPermit, SeedStatuses
    <3>3. CASE s > passed
      BY <3>3, StagesFacts DEF SeededPermit
    <3> QED
      BY <3>1, <3>2, <3>3, StagesFacts
  <2>2. \A s \in Stages : status[s] = "BOOKED" => bookedFor[s] # NoDate
    BY DEF SeededPermit
  <2> QED
    BY <1>1, <2>1, <2>2 DEF RowsAgree
<1> QED
  BY <1>1, <1>2, <1>3 DEF Init, InitRows

LEMMA AloneStep ==
    ASSUME NEW r, Requests = {r}, GateInv, RowsAgree, LoneHandler, [Next]_vars
    PROVE  RowsAgree' /\ LoneHandler'
<1> DEFINE s == req[r].stage
<1>1. /\ r \in Requests /\ s \in Stages /\ req[r] \in Request
      /\ req \in [Requests -> Request] /\ status \in [Stages -> StageStatuses]
      /\ inspection \in [Stages -> Results \union {"NONE"}]
      /\ bookedFor \in [Stages -> Dates \union {NoDate}]
  BY DEF GateInv, TypeOK, Request
<1>7. ASSUME req'[r].pc \notin {"markPaid", "book", "reRequest"} PROVE LoneHandler'
  BY <1>7 DEF LoneHandler
<1>2. CASE Arrive(r)
  <2>1. UNCHANGED rows
    BY <1>2 DEF Arrive, UserRequest, MarkPaidLoad, BookLoad, SignOffLoad, ReRequestLoad
  <2>2. RowsAgree'
    BY <2>1 DEF rows, RowsAgree
  <2>3. LoneHandler'
    BY <1>1, <1>2, <2>1 DEF Arrive, UserRequest, MarkPaidLoad, BookLoad, SignOffLoad, ReRequestLoad,
       Begin, rows, RowsAgree, LoneHandler
  <2> QED
    BY <2>2, <2>3
<1>3. ASSUME MarkPaidWrite(r) \/ BookWrite(r) \/ ReRequestWrite(r) \/ UnlockWrite(r)
      PROVE  RowsAgree' /\ LoneHandler'
  <2>1. LoneHandler'
    <3>1. req'[r].pc \in {"auditPaid", "auditBooked", "auditReRequest", "auditUnlocked"}
      BY <1>1, <1>3 DEF MarkPaidWrite, BookWrite, ReRequestWrite, UnlockWrite, Goto, Request
    <3> QED
      BY <1>7, <3>1
  <2>3. CASE BookWrite(r)
    <3>1. /\ status' = [status EXCEPT ![s] = "BOOKED"] /\ UNCHANGED inspection
          /\ \E d \in Dates : bookedFor' = [bookedFor EXCEPT ![s] = d]
      BY <2>3 DEF BookWrite, SetStatus
    <3>2. inspection[s] # "PASS"
      BY <1>1, <2>3 DEF BookWrite, LoneHandler
    <3> HIDE DEF s
    <3>3. RowsAgree'
      BY <1>1, <3>1, <3>2, DatesAssumption DEF RowsAgree
    <3> QED
      BY <2>1, <3>3
  <2>4. CASE MarkPaidWrite(r) \/ ReRequestWrite(r)
    <3>1. /\ status' = [status EXCEPT ![s] = "PAID_AWAITING_INSPECTION"]
          /\ UNCHANGED <<inspection, bookedFor>>
      BY <2>4 DEF MarkPaidWrite, ReRequestWrite, SetStatus
    <3>2. inspection[s] # "PASS"
      BY <1>1, <2>4 DEF MarkPaidWrite, ReRequestWrite, LoneHandler
    <3> HIDE DEF s
    <3>3. RowsAgree'
      BY <1>1, <3>1, <3>2 DEF RowsAgree
    <3> QED
      BY <2>1, <3>3
  <2>5. CASE UnlockWrite(r)
    <3>1. NextStage(s) \in Stages /\ status[NextStage(s)] = "LOCKED"
      BY <1>1, <2>5, StagesFacts
         DEF UnlockWrite, GateInv, HandlersConsistent, UnlockNeverRefused, Unlocking
    <3>2. /\ status' = [status EXCEPT ![NextStage(s)] = "AWAITING_PAYMENT"]
          /\ UNCHANGED <<bookedFor, inspection>>
      BY <2>5 DEF UnlockWrite, SetStatus
    <3>3. inspection[NextStage(s)] # "PASS"
      BY <3>1 DEF RowsAgree
    <3> HIDE DEF s
    <3>4. RowsAgree'
      BY <1>1, <3>1, <3>2, <3>3 DEF RowsAgree
    <3> QED
      BY <2>1, <3>4
  <2> QED
    BY <1>3, <2>1, <2>3, <2>4, <2>5
<1>4. CASE SignOffCommit(r)
  <2>1. LoneHandler'
    <3>1. req'[r].pc \in {"auditInspection", "idle"}
      BY <1>1, <1>4 DEF SignOffCommit, Goto, Return, Idle, Request
    <3> QED
      BY <1>7, <3>1
  <2>2. CASE inspection[s] # "NONE"
    BY <1>4, <2>1, <2>2 DEF SignOffCommit, RowsAgree
  <2>3. CASE inspection[s] = "NONE"
    <3> DEFINE v == req[r].result
    <3>1. /\ inspection' = [inspection EXCEPT ![s] = v]
          /\ status' = [status EXCEPT ![s] = IF v = "FAIL" THEN "INSPECTED_FAIL" ELSE "INSPECTED_PASS"]
          /\ UNCHANGED bookedFor
      BY <1>4, <2>3 DEF SignOffCommit, SetStatus
    <3>2. v \in {"PASS", "FAIL"}
      BY <1>1 DEF Request, Results
    <3> HIDE DEF s, v
    <3>3. RowsAgree'
      BY <1>1, <3>1, <3>2 DEF RowsAgree
    <3> QED
      BY <2>1, <3>3
  <2> QED
    BY <2>2, <2>3
<1>5. ASSUME \/ SignOffFindInspection(r) \/ UnlockFind(r) \/ CertificateCreate(r)
             \/ CompletePermit(r) \/ AuditRecord(r) \/ AuditSwallow(r) \/ CallFails(r) \/ Crash
      PROVE  RowsAgree' /\ LoneHandler'
  <2>1. UNCHANGED <<status, inspection, bookedFor>>
    BY <1>5 DEF SignOffFindInspection, UnlockFind, CertificateCreate, CompletePermit, AuditRecord,
       AuditSwallow, CallFails, Crash, rows
  <2>2. req'[r].pc \notin {"markPaid", "book", "reRequest"}
    <3>1. CASE AuditRecord(r) \/ AuditSwallow(r)
      BY <1>1, <3>1 DEF AuditRecord, AuditSwallow, AfterAudit, Goto, Return, Idle, Request
    <3>2. CASE CertificateCreate(r) \/ CompletePermit(r) \/ UnlockFind(r) \/ SignOffFindInspection(r)
      BY <1>1, <3>2 DEF CertificateCreate, CompletePermit, UnlockFind, SignOffFindInspection,
         Goto, Return, Idle, Request
    <3>3. CASE CallFails(r) \/ Crash
      BY <1>1, <3>3 DEF CallFails, Crash, Return, Idle
    <3> QED
      BY <1>5, <3>1, <3>2, <3>3
  <2> QED
    BY <1>7, <2>1, <2>2 DEF RowsAgree
<1>6. CASE UNCHANGED vars
  BY <1>6 DEF vars, RowsAgree, LoneHandler
<1> QED
  BY <1>2, <1>3, <1>4, <1>5, <1>6 DEF Next, Work, Fault, Resume

\* While requests come one at a time the stage row and the inspection row agree,
\* whatever fails or crashes between their calls, for any number of stages.
THEOREM RowsAgreeAlone ==
    ASSUME NEW r, Requests = {r}
    PROVE  Spec => []RowsAgree
<1>1. Init => RowsAgree /\ LoneHandler
  BY AloneInit
<1>2. GateInv /\ RowsAgree /\ LoneHandler /\ [Next]_vars => RowsAgree' /\ LoneHandler'
  BY AloneStep
<1> QED
  BY <1>1, <1>2, GateInvariant, PTL DEF Spec

=============================================================================
