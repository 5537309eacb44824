------------------------------ MODULE StageGate ------------------------------
(***************************************************************************)
(* The stage gate of one building permit: stage-gate.service.ts over the  *)
(* Stage, Inspection, Certificate, Permit and AuditLog rows it writes.      *)
(*                                                                         *)
(* A handler is an async function of a single-threaded server: it runs     *)
(* undisturbed up to its next await, so one action is one database call    *)
(* with the code around it, and `req` keeps what a suspended handler       *)
(* carries over (its snapshot of the stage row is used for nothing but its *)
(* id and key once assertStatus has passed, so only the stage is kept).    *)
(* Every write is an unconditional update by id.                           *)
(***************************************************************************)
EXTENDS Integers

CONSTANTS NumStages,   \* entries of STAGE_DEFINITIONS (5 in the code)
          Requests,    \* handlers that may be in flight at one time
          Dates,       \* inspection dates an applicant may ask for
          NoDate,      \* bookedFor = null
          Watched      \* the audit actions a run tells apart (it bounds `audit`)

ASSUME NumStagesAssumption == NumStages \in Nat \ {0}
ASSUME DatesAssumption == NoDate \notin Dates

VARIABLES status,       \* Stage.status
          bookedFor,    \* Stage.bookedFor
          inspection,   \* Inspection.result of the stage's row, "NONE" without a row
          certificate,  \* the permit has a Certificate row
          permitStatus, \* Permit.status
          audit,        \* entries of the append-only AuditLog
          req           \* the suspended handlers

vars == <<status, bookedFor, inspection, certificate, permitStatus, audit, req>>
rows == <<status, bookedFor, inspection, certificate, permitStatus>>

-----------------------------------------------------------------------------
(* domain.ts *)

Stages == 0 .. NumStages - 1

StageStatuses == {"LOCKED", "AWAITING_PAYMENT", "PAID_AWAITING_INSPECTION",
                  "BOOKED", "INSPECTED_PASS", "INSPECTED_FAIL"}

PermitStatuses == {"DRAFT", "APPROVED", "IN_PROGRESS", "COMPLETED"}

Results == {"PASS", "FAIL"}

NextStage(s) == s + 1

IsFinalStageOffByOne(s) == s >= NumStages - 2
IsFinalStage(s) == NextStage(s) \notin Stages

-----------------------------------------------------------------------------
(* What a suspended handler is waiting for: pc names the database call that *)
(* runs when it resumes.                                                    *)

AuditPoints == {"auditPaid", "auditBooked", "auditInspection", "auditUnlocked",
                "auditCertificate", "auditReRequest"}

CallPoints == {"markPaid", "book", "findInspection", "signOff", "findNext",
               "unlock", "createCertificate", "completePermit", "reRequest"}

Request == [pc     : {"idle"} \union CallPoints \union AuditPoints,
            stage  : Stages,
            result : Results]

Idle == [pc |-> "idle", stage |-> 0, result |-> "FAIL"]

IsIdle(r) == req[r].pc = "idle"

AuditActions == {"STAGE_AWAITING_INSPECTION", "STAGE_BOOKED", "INSPECTION_RE_REQUESTED",
                 "STAGE_UNLOCKED", "CERTIFICATE_ISSUED", "INSPECTION_FAILED",
                 "INSPECTION_PASSED", "STAGE_PASSED"}

Goto(r, pc) == req' = [req EXCEPT ![r].pc = pc]
Return(r) == req' = [req EXCEPT ![r] = Idle]
Begin(r, pc, s, v) == req' = [req EXCEPT ![r] = [pc |-> pc, stage |-> s, result |-> v]]

SetStatus(s, new) == status' = [status EXCEPT ![s] = new]

-----------------------------------------------------------------------------
(* Permits the database may hold when the server starts. *)

Watch(entries) == {e \in entries : e.action \in Watched}

\* The stages a permit is created with: the first one payable, the others locked.
InitialStatus(s) == IF s = 0 THEN "AWAITING_PAYMENT" ELSE "LOCKED"

\* permits.service create: rows of a new permit, in one nested create.
CreatedPermit ==
    /\ status = [s \in Stages |-> InitialStatus(s)]
    /\ bookedFor = [s \in Stages |-> NoDate]
    /\ inspection = [s \in Stages |-> "NONE"]
    /\ certificate = FALSE
    /\ permitStatus = "APPROVED"
    /\ audit = {}

\* seed.ts createPermit: a permit whose first `passed` stages are inspected and
\* whose next stage, if there is one, is in status `current`.
SeededPermit(passed, current) ==
    /\ status = [s \in Stages |-> CASE s < passed -> "INSPECTED_PASS"
                                    [] s = passed -> current
                                    [] s > passed -> "LOCKED"]
    /\ bookedFor \in {f \in [Stages -> Dates \union {NoDate}] :
                        \A s \in Stages : f[s] # NoDate <=> status[s] = "BOOKED"}
    /\ inspection = [s \in Stages |-> CASE s < passed -> "PASS"
                       [] s = passed /\ current = "INSPECTED_FAIL" -> "FAIL"
                       [] OTHER -> "NONE"]
    /\ certificate = (passed = NumStages)
    /\ permitStatus = IF passed = NumStages THEN "COMPLETED"
                      ELSE IF passed > 0 THEN "IN_PROGRESS" ELSE "APPROVED"
    /\ audit = Watch([action : {"STAGE_PASSED"}, stage : {s \in Stages : s < passed}]
                     \union [action : {"INSPECTION_FAILED"},
                             stage : {s \in Stages : inspection[s] = "FAIL"}]
                     \union [action : {"CERTIFICATE_ISSUED"},
                             stage : {s \in Stages : certificate /\ IsFinalStage(s)}])

SeedStatuses == {"AWAITING_PAYMENT", "PAID_AWAITING_INSPECTION", "BOOKED", "INSPECTED_FAIL"}

InitRows == \/ CreatedPermit
            \/ \E passed \in 0 .. NumStages, current \in SeedStatuses :
                  SeededPermit(passed, current)

Init == InitRows /\ req = [r \in Requests |-> Idle]

-----------------------------------------------------------------------------
(* The first call of each operation: getStageOrThrow, then assertStatus on   *)
(* the row read. A refused request changes nothing. (assertActorMayAct reads *)
(* the permit's owner between the two, which never changes: no further       *)
(* interleaving can be told apart.)                                          *)

MarkPaidLoad(r, s) ==
    /\ IsIdle(r)
    /\ status[s] = "AWAITING_PAYMENT"
    /\ Begin(r, "markPaid", s, "FAIL")
    /\ UNCHANGED <<rows, audit>>

BookLoadFailedToo(r, s) ==
    /\ IsIdle(r)
    /\ status[s] \in {"PAID_AWAITING_INSPECTION", "INSPECTED_FAIL"}
    /\ Begin(r, "book", s, "FAIL")
    /\ UNCHANGED <<rows, audit>>

BookLoad(r, s) ==
    /\ IsIdle(r)
    /\ status[s] = "PAID_AWAITING_INSPECTION"
    /\ Begin(r, "book", s, "FAIL")
    /\ UNCHANGED <<rows, audit>>

NotYetInspected == StageStatuses \ {"INSPECTED_PASS", "INSPECTED_FAIL"}
AwaitingInspection == {"PAID_AWAITING_INSPECTION", "BOOKED"}

SignOffLoad(r, s, v) ==
    /\ IsIdle(r)
    /\ status[s] \in AwaitingInspection
    /\ Begin(r, "findInspection", s, v)
    /\ UNCHANGED <<rows, audit>>

ReRequestLoad(r, s) ==
    /\ IsIdle(r)
    /\ status[s] = "INSPECTED_FAIL"
    /\ Begin(r, "reRequest", s, "FAIL")
    /\ UNCHANGED <<rows, audit>>

-----------------------------------------------------------------------------
(* The calls a suspended handler resumes with. *)

MarkPaidWrite(r) ==
    /\ req[r].pc = "markPaid"
    /\ SetStatus(req[r].stage, "PAID_AWAITING_INSPECTION")
    /\ Goto(r, "auditPaid")
    /\ UNCHANGED <<bookedFor, inspection, certificate, permitStatus, audit>>

BookWriteDateLost(r) ==
    /\ req[r].pc = "book"
    /\ SetStatus(req[r].stage, "BOOKED")
    /\ Goto(r, "auditBooked")
    /\ UNCHANGED <<bookedFor, inspection, certificate, permitStatus, audit>>

BookWrite(r) ==
    /\ req[r].pc = "book"
    /\ SetStatus(req[r].stage, "BOOKED")
    /\ \E d \in Dates : bookedFor' = [bookedFor EXCEPT ![req[r].stage] = d]
    /\ Goto(r, "auditBooked")
    /\ UNCHANGED <<inspection, certificate, permitStatus, audit>>

ReRequestWrite(r) ==
    /\ req[r].pc = "reRequest"
    /\ SetStatus(req[r].stage, "PAID_AWAITING_INSPECTION")
    /\ Goto(r, "auditReRequest")
    /\ UNCHANGED <<bookedFor, inspection, certificate, permitStatus, audit>>

\* signOff, the lookup of an existing inspection: refused when there is one.
SignOffFindInspection(r) ==
    /\ req[r].pc = "findInspection"
    /\ IF inspection[req[r].stage] = "NONE" THEN Goto(r, "signOff") ELSE Return(r)
    /\ UNCHANGED <<rows, audit>>

\* signOff, the transaction: the inspection row and the stage's status commit
\* together, or neither does when Inspection.stageId is already taken.
SignOffCommitNoUnique(r) ==
    /\ req[r].pc = "signOff"
    /\ LET s == req[r].stage
           v == req[r].result
       IN /\ inspection' = [inspection EXCEPT ![s] = v]
          /\ SetStatus(s, IF v = "FAIL" THEN "INSPECTED_FAIL" ELSE "INSPECTED_PASS")
          /\ Goto(r, "auditInspection")
    /\ UNCHANGED <<bookedFor, certificate, permitStatus, audit>>

SignOffCommit(r) ==
    /\ req[r].pc = "signOff"
    /\ LET s == req[r].stage
           v == req[r].result
       IN IF inspection[s] = "NONE"
          THEN /\ inspection' = [inspection EXCEPT ![s] = v]
               /\ SetStatus(s, IF v = "FAIL" THEN "INSPECTED_FAIL" ELSE "INSPECTED_PASS")
               /\ Goto(r, "auditInspection")
          ELSE /\ UNCHANGED <<inspection, status>>
               /\ Return(r)
    /\ UNCHANGED <<bookedFor, certificate, permitStatus, audit>>

\* unlockNextStage: read the next stage and insist that it is still LOCKED ...
UnlockFind(r) ==
    /\ req[r].pc = "findNext"
    /\ IF status[NextStage(req[r].stage)] = "LOCKED" THEN Goto(r, "unlock") ELSE Return(r)
    /\ UNCHANGED <<rows, audit>>

\* ... then make it payable.
UnlockWriteForgotten(r) ==
    /\ req[r].pc = "unlock"
    /\ Goto(r, "auditUnlocked")
    /\ UNCHANGED <<rows, audit>>

UnlockWrite(r) ==
    /\ req[r].pc = "unlock"
    /\ SetStatus(NextStage(req[r].stage), "AWAITING_PAYMENT")
    /\ Goto(r, "auditUnlocked")
    /\ UNCHANGED <<bookedFor, inspection, certificate, permitStatus, audit>>

\* issueCertificate: Certificate.permitId is unique, a second row is refused.
CertificateCreate(r) ==
    /\ req[r].pc = "createCertificate"
    /\ IF certificate
       THEN UNCHANGED certificate /\ Return(r)
       ELSE certificate' = TRUE /\ Goto(r, "completePermit")
    /\ UNCHANGED <<status, bookedFor, inspection, permitStatus, audit>>

CompletePermitUnaudited(r) ==
    /\ req[r].pc = "completePermit"
    /\ permitStatus' = "COMPLETED"
    /\ Return(r)
    /\ UNCHANGED <<status, bookedFor, inspection, certificate, audit>>

CompletePermitMisspelt(r) ==
    /\ req[r].pc = "completePermit"
    /\ permitStatus' = "COMPLETE"
    /\ Goto(r, "auditCertificate")
    /\ UNCHANGED <<status, bookedFor, inspection, certificate, audit>>

CompletePermit(r) ==
    /\ req[r].pc = "completePermit"
    /\ permitStatus' = "COMPLETED"
    /\ Goto(r, "auditCertificate")
    /\ UNCHANGED <<status, bookedFor, inspection, certificate, audit>>

-----------------------------------------------------------------------------
(* AuditService.record, and where the handler goes on from there. *)

InspectionActionInverted(v) == IF v = "FAIL" THEN "INSPECTION_PASSED" ELSE "INSPECTION_FAILED"
InspectionAction(v) == IF v = "FAIL" THEN "INSPECTION_FAILED" ELSE "INSPECTION_PASSED"

AuditEntry(q) ==
    CASE q.pc = "auditPaid"        -> [action |-> "STAGE_AWAITING_INSPECTION", stage |-> q.stage]
      [] q.pc = "auditBooked"      -> [action |-> "STAGE_BOOKED", stage |-> q.stage]
      [] q.pc = "auditReRequest"   -> [action |-> "INSPECTION_RE_REQUESTED", stage |-> q.stage]
      [] q.pc = "auditUnlocked"    -> [action |-> "STAGE_UNLOCKED", stage |-> NextStage(q.stage)]
      [] q.pc = "auditCertificate" -> [action |-> "CERTIFICATE_ISSUED", stage |-> q.stage]
      [] q.pc = "auditInspection"  -> [action |-> InspectionAction(q.result), stage |-> q.stage]

AfterAuditOfAnyResult(r) ==
    LET q == req[r]
    IN IF q.pc = "auditInspection"
       THEN Goto(r, IF IsFinalStage(q.stage) THEN "createCertificate" ELSE "findNext")
       ELSE Return(r)

AfterAuditUncertified(r) ==
    LET q == req[r]
    IN IF q.pc = "auditInspection" /\ q.result = "PASS"
       THEN Goto(r, IF IsFinalStage(q.stage) THEN "completePermit" ELSE "findNext")
       ELSE Return(r)

\* A pass of the final stage issues the certificate, any other pass unlocks.
AfterAudit(r) ==
    LET q == req[r]
    IN IF q.pc = "auditInspection" /\ q.result = "PASS"
       THEN Goto(r, IF IsFinalStage(q.stage) THEN "createCertificate" ELSE "findNext")
       ELSE Return(r)

AuditRecord(r) ==
    /\ req[r].pc \in AuditPoints
    /\ audit' = audit \union Watch({AuditEntry(req[r])})
    /\ AfterAudit(r)
    /\ UNCHANGED rows

\* record is best-effort: a failed insert is logged and swallowed.
AuditSwallow(r) ==
    /\ req[r].pc \in AuditPoints
    /\ AfterAudit(r)
    /\ UNCHANGED <<rows, audit>>

-----------------------------------------------------------------------------
(* Failures. *)

\* A database call rejects, before or after it took effect: the handler ends
\* with a 500 and nothing is rolled back.
CallFails(r) ==
    /\ ~IsIdle(r)
    /\ Return(r)
    /\ UNCHANGED <<rows, audit>>

\* The process dies: every handler is lost, the rows stay.
Crash ==
    /\ \E r \in Requests : ~IsIdle(r)
    /\ req' = [r \in Requests |-> Idle]
    /\ UNCHANGED <<rows, audit>>

-----------------------------------------------------------------------------

\* A request arrives: POST /inspections/book, /:stageId/re-request, /sign-off.
UserRequest(r, s) ==
    \/ BookLoad(r, s)
    \/ ReRequestLoad(r, s)
    \/ \E v \in Results : SignOffLoad(r, s, v)

\* The payments service calls the gate too, whenever a fee has been paid.
Arrive(r) == \E s \in Stages : UserRequest(r, s) \/ MarkPaidLoad(r, s)

\* A suspended handler runs on to its next await.
Resume(r) ==
    \/ MarkPaidWrite(r)
    \/ BookWrite(r)
    \/ ReRequestWrite(r)
    \/ SignOffFindInspection(r)
    \/ SignOffCommit(r)
    \/ UnlockFind(r)
    \/ UnlockWrite(r)
    \/ CertificateCreate(r)
    \/ CompletePermit(r)
    \/ AuditRecord(r)

Fault == Crash \/ \E r \in Requests : AuditSwallow(r) \/ CallFails(r)

Work == \E r \in Requests : Arrive(r) \/ Resume(r)

Next == Work \/ Fault

\* The gate with everything that can go wrong.
Spec == Init /\ [][Next]_vars

\* The gate while the process lives and the database answers: the event loop
\* resumes every handler whose call has settled.
HealthySpec == Init /\ [][Work]_vars /\ \A r \in Requests : WF_vars(Resume(r))

-----------------------------------------------------------------------------
(* Properties. *)

\* Every variable holds a value its column or the handler allows.
TypeOK ==
    /\ status \in [Stages -> StageStatuses]
    /\ bookedFor \in [Stages -> Dates \union {NoDate}]
    /\ inspection \in [Stages -> Results \union {"NONE"}]
    /\ certificate \in BOOLEAN
    /\ permitStatus \in PermitStatuses
    /\ audit \subseteq [action : AuditActions, stage : Stages]
    /\ req \in [Requests -> Request]

\* A stage is open only if every earlier stage has a recorded PASS, whatever
\* handlers interleave and whatever fails (the rule of the class comment).
GateOrder ==
    \A s \in Stages : status[s] # "LOCKED" =>
        \A t \in Stages : t < s => inspection[t] = "PASS"

\* A certificate stands for passes of all stages, and a permit is COMPLETED
\* only with a certificate.
CertificateSound ==
    /\ certificate => \A s \in Stages : inspection[s] = "PASS"
    /\ permitStatus = "COMPLETED" => certificate

\* A handler that has committed a PASS of s and still has the gate to move.
Unlocking(r, s) ==
    /\ req[r].stage = s
    /\ \/ req[r].pc = "auditInspection" /\ req[r].result = "PASS"
       \/ req[r].pc \in {"findNext", "unlock", "createCertificate"}

\* Once the inspection is committed nothing else refuses the sign-off: one
\* handler at a time moves the gate past a stage, it finds the next stage LOCKED
\* (assertStatus in unlockNextStage never throws), and no certificate exists yet
\* (Certificate.permitId is never the constraint that stops it).
UnlockNeverRefused ==
    \A r \in Requests, s \in Stages : Unlocking(r, s) =>
        /\ inspection[s] = "PASS"
        /\ IF IsFinalStage(s) THEN ~certificate ELSE status[NextStage(s)] = "LOCKED"
        /\ \A q \in Requests \ {r} : ~Unlocking(q, s)

\* What a suspended handler may rely on when it resumes, although it reads no
\* row again: the facts the invariants above rest on.
HandlersConsistent ==
    \A r \in Requests :
        LET q == req[r] IN
        /\ q.pc # "idle" => status[q.stage] # "LOCKED"
        /\ q.pc = "auditInspection" => inspection[q.stage] = q.result
        /\ q.pc \in {"findNext", "unlock", "auditUnlocked"} => ~IsFinalStage(q.stage)
        /\ q.pc = "auditUnlocked" => status[NextStage(q.stage)] # "LOCKED"
        /\ q.pc = "auditBooked" => bookedFor[q.stage] \in Dates
        /\ q.pc = "createCertificate" => IsFinalStage(q.stage)
        /\ q.pc = "completePermit" => certificate
        /\ q.pc = "auditCertificate" => permitStatus = "COMPLETED"

\* No interleaving or failure takes a recorded result, an unlock or the
\* certificate back.
NothingUndone ==
    [][/\ \A s \in Stages : /\ inspection[s] # "NONE" => inspection'[s] = inspection[s]
                            /\ status[s] # "LOCKED" => status'[s] # "LOCKED"
       /\ certificate => certificate']_vars

\* The audit trail never claims what did not happen: its entries agree with the
\* rows, although the rows are written first and by other handlers too.
AuditTruthful ==
    \A e \in audit :
        /\ e.action \in {"INSPECTION_PASSED", "STAGE_PASSED"} => inspection[e.stage] = "PASS"
        /\ e.action = "INSPECTION_FAILED" => inspection[e.stage] = "FAIL"
        /\ e.action = "STAGE_BOOKED" => bookedFor[e.stage] \in Dates
        /\ e.action = "CERTIFICATE_ISSUED" => permitStatus = "COMPLETED"
        /\ e.action = "STAGE_UNLOCKED" => \A t \in Stages : t < e.stage => inspection[t] = "PASS"

\* While the process lives and the database answers, every inspection, unlock
\* and certificate is in the audit trail or about to be written there by the
\* handler that made it (AuditService: every state transition must call record).
AuditComplete ==
    LET Logged(actions, s) == \E e \in audit : e.action \in actions /\ e.stage = s
        Pending(pc, s) == \E r \in Requests : req[r].pc = pc /\ req[r].stage = s
    IN \A s \in Stages :
        /\ inspection[s] # "NONE" =>
              \/ Logged({"STAGE_PASSED", "INSPECTION_PASSED", "INSPECTION_FAILED"}, s)
              \/ Pending("auditInspection", s)
        /\ ~IsFinalStage(s) /\ status[NextStage(s)] # "LOCKED" =>
              \/ Logged({"STAGE_PASSED"}, s)
              \/ Logged({"STAGE_UNLOCKED"}, NextStage(s))
              \/ Pending("auditUnlocked", s)
        /\ IsFinalStage(s) /\ permitStatus = "COMPLETED" =>
              Logged({"CERTIFICATE_ISSUED"}, s) \/ Pending("auditCertificate", s)

\* With one request at a time the stage row and the inspection row agree on a
\* pass, and a failed stage has its failed inspection.
RowsAgree ==
    \A s \in Stages : /\ status[s] = "INSPECTED_PASS" <=> inspection[s] = "PASS"
                      /\ status[s] = "INSPECTED_FAIL" => inspection[s] = "FAIL"
                      /\ status[s] = "BOOKED" => bookedFor[s] # NoDate

\* A recorded PASS opens the next stage, and the last one completes the permit,
\* even when other handlers interfere.
PassCarriesOn ==
    \A s \in Stages :
        inspection[s] = "PASS" ~>
            IF IsFinalStage(s) THEN permitStatus = "COMPLETED"
            ELSE status[NextStage(s)] # "LOCKED"

-----------------------------------------------------------------------------
(* What comments and the README claim, and the code does not keep. *)

Quiescent == \A r \in Requests : IsIdle(r)

\* "Requires the stage to be PAID_AWAITING_INSPECTION or BOOKED" (signOff): a
\* stage in the inspector's queue can be signed off, so it has no inspection yet.
QueuedStageCanBeSignedOff ==
    \A s \in Stages : Quiescent /\ status[s] \in AwaitingInspection => inspection[s] = "NONE"

\* "an inspection can never exist without the matching gate transition" (signOff):
\* a passed stage stays passed.
PassIsKept ==
    \A s \in Stages : inspection[s] = "PASS" => status[s] = "INSPECTED_PASS"

=============================================================================
