---------------------------- MODULE PaymentsProofs ----------------------------
(***************************************************************************)
(* The payments implement the stage gate they extend, and no stage passes  *)
(* its fee without a paid payment, for every set of payments and handlers, *)
(* under every failure Payments models.                                     *)
(***************************************************************************)
EXTENDS Payments, StageGateProofs

-----------------------------------------------------------------------------
(* Shapes: the part of the type invariant the steps of the gate need. *)

PayShape ==
    /\ payment \in [Payments -> PaymentRow]
    /\ preq \in [Requests -> PayRequest]
    /\ txn \in [Payments -> {"none", "open"} \union Settled]
    /\ live \in BOOLEAN
    /\ timers \subseteq Payments

PayPoints == {"askPaynow", "createPayment", "poll", "pollPosted", "findPayment", "writePaid",
              "advanceGate", "writeFailed"} \union PayAuditPoints

\* A suspended payment handler keeps a well-formed record, wherever it goes next.
LEMMA PayHandlerMoves ==
    ASSUME PayShape, NEW r \in Requests
    PROVE  /\ PayReturn(r) => preq' \in [Requests -> PayRequest]
           /\ \A pc \in PayPoints : PayGoto(r, pc) => preq' \in [Requests -> PayRequest]
           /\ \A pc \in PayPoints, a \in Modes \union Settled :
                 PayAnswered(r, pc, a) => preq' \in [Requests -> PayRequest]
           /\ \A pc \in PayPoints, p \in Payments, a \in Modes \union Settled :
                 PayBegin(r, pc, p, a) => preq' \in [Requests -> PayRequest]
<1>1. PayIdle \in PayRequest
  BY StagesFacts DEF PayIdle, PayRequest, Modes
<1>2. ASSUME NEW pc \in PayPoints
      PROVE  [preq[r] EXCEPT !.pc = pc] \in PayRequest
  BY DEF PayShape, PayRequest, PayPoints
<1>3. ASSUME NEW pc \in PayPoints, NEW a \in Modes \union Settled
      PROVE  [preq[r] EXCEPT !.pc = pc, !.answer = a] \in PayRequest
  BY DEF PayShape, PayRequest, PayPoints
<1>4. ASSUME NEW pc \in PayPoints, NEW p \in Payments, NEW a \in Modes \union Settled
      PROVE  [pc |-> pc, payment |-> p, stage |-> payment[p].stage, answer |-> a] \in PayRequest
  BY DEF PayShape, PayRequest, PayPoints, PaymentRow
<1>5. PayReturn(r) => preq' \in [Requests -> PayRequest]
  BY <1>1 DEF PayReturn, PayShape
<1>6. ASSUME NEW pc \in PayPoints, PayGoto(r, pc) PROVE preq' \in [Requests -> PayRequest]
  BY <1>2, <1>6 DEF PayGoto, PayShape
<1>7. ASSUME NEW pc \in PayPoints, NEW a \in Modes \union Settled, PayAnswered(r, pc, a)
      PROVE  preq' \in [Requests -> PayRequest]
  BY <1>3, <1>7 DEF PayAnswered, PayShape
<1>8. ASSUME NEW pc \in PayPoints, NEW p \in Payments, NEW a \in Modes \union Settled,
             PayBegin(r, pc, p, a)
      PROVE  preq' \in [Requests -> PayRequest]
  BY <1>4, <1>8 DEF PayBegin, PayShape
<1>9. QED
  BY <1>5, <1>6, <1>7, <1>8

-----------------------------------------------------------------------------
(* The rows and the handlers that work on them. *)

Creating == {"askPaynow", "createPayment"}

\* What a suspended payment handler may rely on: its payment's row is still to be
\* created by it alone, or exists, for the stage it knows.
HandlerSound(r) ==
    LET q == preq[r] IN
    /\ q.pc # "idle" <=> q.payment \in Payments
    /\ q.pc \in Creating =>
          /\ payment[q.payment].status = "NONE"
          /\ q.answer \in Modes
          /\ \A t \in Requests \ {r} : preq[t].payment # q.payment
    /\ q.pc \in PayPoints \ Creating =>
          payment[q.payment].status # "NONE" /\ payment[q.payment].stage = q.stage
    /\ q.pc \in {"auditPaymentPaid", "advanceGate"} => payment[q.payment].paidAt

PayHandlers == \A r \in Requests : HandlerSound(r)

\* A row that does not exist is not paid, and no timer waits for it.
RowsWait ==
    /\ \A p \in Payments : payment[p].status = "NONE" => ~payment[p].paidAt
    /\ \A p \in timers : payment[p].status # "NONE"

LEMMA PayInitFacts == PayInit => PayShape /\ PayHandlers /\ RowsWait
<1> SUFFICES ASSUME PayInit PROVE PayShape /\ PayHandlers /\ RowsWait
  OBVIOUS
<1>1. PayIdle \in PayRequest
  BY StagesFacts DEF PayIdle, PayRequest, Modes
<1>2. NoRow \in PaymentRow /\ \A s \in Stages : SeededPayment(s) \in PaymentRow
  BY StagesFacts DEF NoRow, SeededPayment, PaymentRow, Modes
<1>3. PayShape
  BY <1>1, <1>2 DEF PayInit, PayShape
<1>4. PayHandlers
  BY NoPaymentAssumption DEF PayInit, PayHandlers, HandlerSound, PayIdle, Creating, PayPoints,
     PayAuditPoints
<1>5. RowsWait
  BY DEF PayInit, RowsWait, NoRow, SeededPayment
<1> QED
  BY <1>3, <1>4, <1>5

\* Three calls write payment rows.
LEMMA RowWriters ==
    ASSUME [PayNext]_allVars
    PROVE  \/ payment' = payment
           \/ \E r \in Requests : CreatePayment(r) \/ WritePaid(r) \/ WriteFailed(r)
BY DEF PayNext, PayWork, PayFault, GateStep, PayArrive, PayResume, GateFault, InitiateLoad,
   GetStatusLoad, ConfirmLoad, CallbackLoad, PaynowAccepts, PaynowSimulates, Poll, PollPosted,
   Polled, FindPayment,
   PayAuditRecord, AdvanceGate, TimerFires, PaynowSettles, PayAuditSwallow, PaynowAnswerLost,
   PayCallFails, PayCrash, payRows, allVars

\* A row once created keeps its stage and mode, and what was paid stays paid.
LEMMA RowsStay ==
    ASSUME PayShape, PayHandlers, [PayNext]_allVars, NEW p \in Payments,
           payment[p].status # "NONE"
    PROVE  /\ payment'[p].status # "NONE"
           /\ payment'[p].stage = payment[p].stage
           /\ payment'[p].mode = payment[p].mode
           /\ payment[p].paidAt => payment'[p].paidAt
<1>1. CASE payment' = payment
  BY <1>1
<1>2. ASSUME NEW r \in Requests, CreatePayment(r) PROVE payment'[p] = payment[p]
  BY <1>2 DEF CreatePayment, PayHandlers, HandlerSound, PayShape, Creating
<1>3. ASSUME NEW r \in Requests, WritePaid(r) \/ WriteFailed(r)
      PROVE  /\ payment'[p].status # "NONE"
             /\ payment'[p].stage = payment[p].stage
             /\ payment'[p].mode = payment[p].mode
             /\ payment[p].paidAt => payment'[p].paidAt
  BY <1>3 DEF WritePaid, WriteFailed, PayShape, PaymentRow
<1> QED
  BY <1>1, <1>2, <1>3, RowWriters

\* The rows, Paynow's transactions and the timers keep their shape ...
LEMMA PayRowsTyped ==
    ASSUME PayShape, PayHandlers, [PayNext]_allVars
    PROVE  /\ payment' \in [Payments -> PaymentRow]
           /\ txn' \in [Payments -> {"none", "open"} \union Settled]
           /\ live' \in BOOLEAN
           /\ timers' \subseteq Payments
<1>1. payment' \in [Payments -> PaymentRow]
  <2>1. ASSUME NEW r \in Requests, CreatePayment(r) PROVE payment' \in [Payments -> PaymentRow]
    BY <2>1 DEF CreatePayment, PayHandlers, HandlerSound, PayShape, PaymentRow, PayRequest,
       Creating
  <2>2. ASSUME NEW r \in Requests, WritePaid(r) \/ WriteFailed(r)
        PROVE  payment' \in [Payments -> PaymentRow]
    BY <2>2 DEF WritePaid, WriteFailed, PayShape, PaymentRow
  <2> QED
    BY <2>1, <2>2, RowWriters DEF PayShape
<1>2. txn' \in [Payments -> {"none", "open"} \union Settled]
  <2>1. ASSUME NEW r \in Requests, PaynowAccepts(r) \/ PaynowAnswerLost(r)
        PROVE  txn' \in [Payments -> {"none", "open"} \union Settled]
    BY <2>1 DEF PaynowAccepts, PaynowAnswerLost, PayShape
  <2>2. ASSUME NEW p \in Payments, PaynowSettles(p)
        PROVE  txn' \in [Payments -> {"none", "open"} \union Settled]
    BY <2>2 DEF PaynowSettles, PayShape
  <2> QED
    BY <2>1, <2>2 DEF PayShape, PayNext, PayWork, PayFault, GateStep, PayArrive, PayResume,
       GateFault, InitiateLoad, GetStatusLoad, ConfirmLoad, CallbackLoad, PaynowSimulates,
       CreatePayment, WritePaid, WriteFailed, Poll, PollPosted, Polled, FindPayment,
       PayAuditRecord, AdvanceGate,
       TimerFires, PayAuditSwallow, PayCallFails, PayCrash, payRows, allVars
<1>3. live' \in BOOLEAN
  BY DEF PayShape, PayNext, PayWork, PayFault, GateStep, PayArrive, PayResume, PaynowAccepts,
     GateFault, InitiateLoad, GetStatusLoad, ConfirmLoad, CallbackLoad, PaynowSimulates,
     CreatePayment, WritePaid, WriteFailed, Poll, PollPosted, Polled, FindPayment,
     PayAuditRecord, AfterPayAudit,
     AdvanceGate, TimerFires, PayAuditSwallow, PayCallFails, PayCrash, PaynowSettles,
     PaynowAnswerLost, payRows, allVars
<1>4. timers' \subseteq Payments
  <2>1. ASSUME NEW r \in Requests, preq[r].pc \in PayAuditPoints, AfterPayAudit(r)
        PROVE  timers' \subseteq Payments
    BY <2>1 DEF AfterPayAudit, PayAuditPoints, PayHandlers, HandlerSound, PayShape
  <2> QED
    BY <2>1 DEF PayShape, PayNext, PayWork, PayFault, GateStep, PayArrive, PayResume,
       PaynowAccepts, GateFault, InitiateLoad, GetStatusLoad, ConfirmLoad, CallbackLoad,
       PaynowSimulates, CreatePayment, WritePaid, WriteFailed, Poll, PollPosted, Polled,
       FindPayment,
       PayAuditRecord, AdvanceGate, TimerFires, PayAuditSwallow, PayCallFails, PayCrash,
       PaynowSettles, PaynowAnswerLost, payRows, allVars
<1> QED
  BY <1>1, <1>2, <1>3, <1>4

\* ... and so do the handlers.
LEMMA PayHandlersTyped ==
    ASSUME PayShape, [PayNext]_allVars
    PROVE  preq' \in [Requests -> PayRequest]
<1> USE DEF PayPoints, PayAuditPoints
<1>1. ASSUME NEW r \in Requests, PayArrive(r) PROVE preq' \in [Requests -> PayRequest]
  <2> PICK p \in Payments : \/ \E s \in Stages : InitiateLoad(r, s, p)
                            \/ GetStatusLoad(r, p) \/ ConfirmLoad(r, p) \/ CallbackLoad(r, p)
    BY <1>1 DEF PayArrive
  <2>1. ASSUME NEW s \in Stages, InitiateLoad(r, s, p) PROVE preq' \in [Requests -> PayRequest]
    BY <2>1 DEF InitiateLoad, PayRequest, Modes, PayShape
  <2>2. CASE GetStatusLoad(r, p) \/ ConfirmLoad(r, p)
    BY <2>2, PayHandlerMoves DEF GetStatusLoad, ConfirmLoad, Modes
  <2>3. CASE CallbackLoad(r, p)
    BY <2>3, PayHandlerMoves DEF CallbackLoad, Modes, Settled
  <2> QED
    BY <2>1, <2>2, <2>3
<1>2. ASSUME NEW r \in Requests,
             PaynowAccepts(r) \/ PaynowSimulates(r) \/ PaynowAnswerLost(r)
      PROVE  preq' \in [Requests -> PayRequest]
  BY <1>2, PayHandlerMoves DEF PaynowAccepts, PaynowSimulates, PaynowAnswerLost, Modes
<1>3. ASSUME NEW r \in Requests,
             \/ CreatePayment(r) \/ FindPayment(r) \/ WritePaid(r) \/ WriteFailed(r)
             \/ PayAuditRecord(r) \/ PayAuditSwallow(r) \/ AdvanceGate(r) \/ PayCallFails(r)
      PROVE  preq' \in [Requests -> PayRequest]
  BY <1>3, PayHandlerMoves DEF CreatePayment, FindPayment, WritePaid, WriteFailed,
       PayAuditRecord, PayAuditSwallow, AfterPayAudit, AdvanceGate, PayCallFails
<1>4. ASSUME NEW r \in Requests, Poll(r) \/ PollPosted(r) PROVE preq' \in [Requests -> PayRequest]
  BY <1>4, PayHandlerMoves DEF Poll, PollPosted, Polled, Settled
<1>5. ASSUME NEW p \in Payments, TimerFires(p) PROVE preq' \in [Requests -> PayRequest]
  BY <1>5, PayHandlerMoves, TimersAreHandlers DEF TimerFires, Modes
<1>6. CASE PayCrash
  BY <1>6, StagesFacts DEF PayCrash, PayIdle, PayRequest, Modes
<1>7. CASE UNCHANGED preq
  BY <1>7 DEF PayShape
<1> QED
  BY <1>1, <1>2, <1>3, <1>4, <1>5, <1>6, <1>7 DEF PayNext, PayWork, PayFault, PayResume,
     GateStep, GateFault, PaynowSettles, allVars

\* A step of one handler leaves the others sound when it takes up no payment they
\* are creating and writes no row but that of its own payment.
LEMMA OthersStaySound ==
    ASSUME PayShape, PayHandlers, [PayNext]_allVars, NEW r \in Requests,
           \A t \in Requests \ {r} : preq'[t] = preq[t],
           \/ preq'[r].payment \in {preq[r].payment, NoPayment}
           \/ payment[preq'[r].payment].status # "NONE"
           \/ \A t \in Requests : preq[t].payment # preq'[r].payment,
           \A p \in Payments : p # preq[r].payment => payment'[p] = payment[p],
           HandlerSound(r)'
    PROVE  PayHandlers'
<1> SUFFICES ASSUME NEW t \in Requests \ {r} PROVE HandlerSound(t)'
  BY DEF PayHandlers
<1>1. preq[t].pc \in Creating =>
         /\ preq[r].payment # preq[t].payment
         /\ preq[t].payment \in Payments
         /\ payment'[preq[t].payment].status = "NONE"
  BY DEF PayHandlers, HandlerSound, Creating
<1>2. preq[t].pc \in Creating => preq'[r].payment # preq[t].payment
  BY <1>1, NoPaymentAssumption DEF PayHandlers, HandlerSound, Creating
<1>3. preq[t].pc \in PayPoints /\ payment[preq[t].payment].status # "NONE" =>
            /\ payment'[preq[t].payment].status # "NONE"
            /\ payment'[preq[t].payment].stage = payment[preq[t].payment].stage
            /\ payment[preq[t].payment].paidAt => payment'[preq[t].payment].paidAt
  BY RowsStay DEF PayHandlers, HandlerSound, PayPoints, PayAuditPoints
<1> QED
  BY <1>1, <1>2, <1>3 DEF PayHandlers, HandlerSound, PayPoints, PayAuditPoints, Creating

LEMMA PayHandlersStep ==
    ASSUME PayShape, PayHandlers, RowsWait, [PayNext]_allVars
    PROVE  PayHandlers'
<1> USE DEF PayShape, PayPoints, PayAuditPoints, Creating
<1>1. ASSUME NEW r \in Requests, NEW s \in Stages, NEW p \in Payments, InitiateLoad(r, s, p)
      PROVE  PayHandlers'
  <2>1. HandlerSound(r)'
    BY <1>1 DEF InitiateLoad, Unused, HandlerSound, Modes, payRows
  <2> QED
    BY <1>1, <2>1, OthersStaySound DEF InitiateLoad, Unused, payRows
<1>2. ASSUME NEW r \in Requests, NEW p \in Payments,
             NEW pc \in {"poll", "pollPosted", "findPayment", "writeFailed"}, NEW a,
             PayBegin(r, pc, p, a), payment[p].status # "NONE", payment' = payment
      PROVE  PayHandlers'
  <2>1. HandlerSound(r)'
    BY <1>2 DEF PayBegin, HandlerSound
  <2> QED
    BY <1>2, <2>1, OthersStaySound DEF PayBegin
<1>3. ASSUME NEW r \in Requests, PayReturn(r), payment' = payment PROVE PayHandlers'
  <2>1. HandlerSound(r)'
    BY <1>3, NoPaymentAssumption DEF PayReturn, PayIdle, HandlerSound
  <2> QED
    BY <1>3, <2>1, OthersStaySound DEF PayReturn, PayIdle
<1>4. ASSUME NEW r \in Requests,
             PaynowAccepts(r) \/ PaynowSimulates(r) \/ PaynowAnswerLost(r)
      PROVE  PayHandlers'
  <2>1. HandlerSound(r)'
    BY <1>4 DEF PaynowAccepts, PaynowSimulates, PaynowAnswerLost, PayAnswered, PayHandlers,
         HandlerSound, PayRequest, Modes, payRows
  <2> QED
    BY <1>4, <2>1, OthersStaySound
       DEF PaynowAccepts, PaynowSimulates, PaynowAnswerLost, PayAnswered, PayRequest, payRows
<1>5. ASSUME NEW r \in Requests,
             CreatePayment(r) \/ WritePaid(r) \/ WriteFailed(r)
      PROVE  PayHandlers'
  <2>1. HandlerSound(r)'
    BY <1>5 DEF CreatePayment, WritePaid, WriteFailed, PayGoto, PayHandlers, HandlerSound,
         PayRequest, PaymentRow
  <2> QED
    BY <1>5, <2>1, OthersStaySound
       DEF CreatePayment, WritePaid, WriteFailed, PayGoto, PayRequest
<1>6. ASSUME NEW r \in Requests, Poll(r) \/ PollPosted(r) \/ FindPayment(r) PROVE PayHandlers'
  <2>1. CASE PayReturn(r)
    BY <1>3, <1>6, <2>1 DEF Poll, PollPosted, Polled, FindPayment, payRows
  <2>2. CASE ~PayReturn(r)
    <3>1. HandlerSound(r)'
      BY <1>6, <2>2 DEF Poll, PollPosted, Polled, FindPayment, PayGoto, PayAnswered,
         PayHandlers, HandlerSound,
           PayRequest, payRows
    <3> QED
      BY <1>6, <2>2, <3>1, OthersStaySound
         DEF Poll, PollPosted, Polled, FindPayment, PayGoto, PayAnswered, PayRequest, payRows
  <2> QED
    BY <2>1, <2>2
<1>7. ASSUME NEW r \in Requests, PayAuditRecord(r) \/ PayAuditSwallow(r) PROVE PayHandlers'
  <2>1. CASE PayReturn(r)
    BY <1>3, <1>7, <2>1 DEF PayAuditRecord, PayAuditSwallow
  <2>2. CASE preq[r].pc = "auditPaymentPaid" /\ PayGoto(r, "advanceGate")
    <3>1. HandlerSound(r)'
      BY <1>7, <2>2 DEF PayAuditRecord, PayAuditSwallow, PayGoto, PayHandlers, HandlerSound,
           PayRequest
    <3> QED
      BY <1>7, <2>2, <3>1, OthersStaySound DEF PayAuditRecord, PayAuditSwallow, PayGoto,
         PayRequest
  <2> QED
    BY <1>7, <2>1, <2>2 DEF PayAuditRecord, PayAuditSwallow, AfterPayAudit
<1>8. ASSUME NEW r \in Requests, AdvanceGate(r) \/ PayCallFails(r) PROVE PayHandlers'
  BY <1>3, <1>8 DEF AdvanceGate, PayCallFails, payRows
<1>9. CASE PayCrash
  BY <1>9, NoPaymentAssumption DEF PayCrash, PayHandlers, HandlerSound, PayIdle
<1>10. CASE UNCHANGED <<payment, preq>>
  BY <1>10 DEF PayHandlers, HandlerSound
<1>11. ASSUME NEW r \in Requests, PayArrive(r) PROVE PayHandlers'
  <2> PICK p \in Payments : \/ \E s \in Stages : InitiateLoad(r, s, p)
                            \/ GetStatusLoad(r, p) \/ ConfirmLoad(r, p) \/ CallbackLoad(r, p)
    BY <1>11 DEF PayArrive
  <2>1. CASE GetStatusLoad(r, p) \/ ConfirmLoad(r, p) \/ CallbackLoad(r, p)
    BY <1>2, <2>1 DEF GetStatusLoad, ConfirmLoad, CallbackLoad, payRows
  <2> QED
    BY <1>1, <2>1
<1>12. ASSUME NEW p \in Payments, TimerFires(p) PROVE PayHandlers'
  BY <1>2, <1>12, TimersAreHandlers DEF TimerFires, RowsWait
<1> QED
  BY <1>4, <1>5, <1>6, <1>7, <1>8, <1>9, <1>10, <1>11, <1>12 DEF PayNext, PayWork, PayFault,
     PayResume, GateStep, GateFault, PaynowSettles, payRows, allVars

LEMMA RowsWaitStep ==
    ASSUME PayShape, PayHandlers, RowsWait, [PayNext]_allVars
    PROVE  RowsWait'
<1>1. \A p \in Payments : payment'[p].status = "NONE" => ~payment'[p].paidAt
  <2>1. ASSUME NEW r \in Requests, CreatePayment(r) \/ WritePaid(r) \/ WriteFailed(r)
        PROVE  \A p \in Payments : payment'[p].status = "NONE" => ~payment'[p].paidAt
    BY <2>1 DEF CreatePayment, WritePaid, WriteFailed, RowsWait, PayShape, PaymentRow
  <2> QED
    BY <2>1, RowWriters DEF RowsWait
<1>2. \A p \in timers' : payment[p].status # "NONE"
  <2>1. ASSUME NEW r \in Requests, preq[r].pc \in PayAuditPoints, AfterPayAudit(r)
        PROVE  \A p \in timers' : payment[p].status # "NONE"
    BY <2>1 DEF AfterPayAudit, PayAuditPoints, PayPoints, Creating, PayHandlers, HandlerSound,
         RowsWait
  <2> QED
    BY <2>1 DEF RowsWait, PayNext, PayWork, PayFault, GateStep, PayArrive, PayResume,
       PaynowAccepts, GateFault, InitiateLoad, GetStatusLoad, ConfirmLoad, CallbackLoad,
       PaynowSimulates, CreatePayment, WritePaid, WriteFailed, Poll, PollPosted, Polled,
       FindPayment,
       PayAuditRecord, AdvanceGate, TimerFires, PayAuditSwallow, PayCallFails, PayCrash,
       PaynowSettles, PaynowAnswerLost, payRows, allVars
<1> QED
  BY <1>1, <1>2, RowsStay, PayRowsTyped DEF RowsWait

-----------------------------------------------------------------------------
(* The payments are one more user of the gate. *)

PayFacts == PayShape /\ PayHandlers /\ RowsWait

LEMMA PayFactsStep == PayFacts /\ [PayNext]_allVars => PayFacts'
<1> SUFFICES ASSUME PayFacts, [PayNext]_allVars PROVE PayFacts'
  OBVIOUS
<1>1. PayShape'
  BY PayRowsTyped, PayHandlersTyped DEF PayFacts, PayShape
<1> QED
  BY <1>1, PayHandlersStep, RowsWaitStep DEF PayFacts

\* An idle handler holds nothing: a crash takes nothing from it.
Rested == \A r \in Requests : IsIdle(r) => req[r] = Idle

LEMMA RestedStep == TypeOK /\ Rested /\ [Next]_vars => Rested'
<1> SUFFICES ASSUME TypeOK, Rested, [Next]_vars PROVE Rested'
  OBVIOUS
<1> USE DEF Rested, IsIdle, TypeOK, Request
<1>1. ASSUME NEW r \in Requests, Arrive(r) PROVE Rested'
  BY <1>1 DEF Arrive, UserRequest, MarkPaidLoad, BookLoad, ReRequestLoad, SignOffLoad, Begin
<1>2. ASSUME NEW r \in Requests, Return(r) PROVE Rested'
  BY <1>2 DEF Return
<1>3. ASSUME NEW r \in Requests, NEW pc \in CallPoints \union AuditPoints, Goto(r, pc)
      PROVE  Rested'
  BY <1>3 DEF Goto, CallPoints, AuditPoints
<1>4. ASSUME NEW r \in Requests, Resume(r) \/ AuditSwallow(r) \/ CallFails(r) PROVE Rested'
  BY <1>2, <1>3, <1>4 DEF Resume, MarkPaidWrite, BookWrite, ReRequestWrite,
     SignOffFindInspection, SignOffCommit, UnlockFind, UnlockWrite, CertificateCreate,
     CompletePermit, AuditRecord, AuditSwallow, AfterAudit, CallFails, CallPoints, AuditPoints
<1>5. CASE Crash
  BY <1>5 DEF Crash
<1>6. CASE UNCHANGED vars
  BY <1>6 DEF vars
<1> QED
  BY <1>1, <1>4, <1>5, <1>6 DEF Next, Work, Fault

\* A payment handler at work changes the gate only through AdvanceGate.
LEMMA GateOfStep == TypeOK /\ Rested /\ PayShape /\ [PayNext]_allVars => [Next]_vars
<1> SUFFICES ASSUME TypeOK, Rested, PayShape, [PayNext]_allVars PROVE [Next]_vars
  OBVIOUS
<1>1. ASSUME NEW r \in Requests, GateStep(r) PROVE [Next]_vars
  BY <1>1 DEF GateStep, Next, Work, Arrive
<1>2. ASSUME NEW r \in Requests, GateFault(r) PROVE [Next]_vars
  BY <1>2 DEF GateFault, Next, Fault
<1>3. ASSUME NEW r \in Requests, AdvanceGate(r) PROVE [Next]_vars
  <2>1. preq[r].stage \in Stages
    BY DEF PayShape, PayRequest
  <2>2. CASE MarkPaidLoad(r, preq[r].stage)
    BY <2>1, <2>2 DEF Next, Work, Arrive
  <2> QED
    BY <1>3, <2>2 DEF AdvanceGate, gateVars, vars
<1>4. CASE PayCrash
  <2>1. CASE \E r \in Requests : ~IsIdle(r)
    BY <1>4, <2>1 DEF PayCrash, Next, Fault, Crash
  <2>2. CASE \A r \in Requests : IsIdle(r)
    <3>1. req' = req
      BY <1>4, <2>2 DEF PayCrash, Rested, TypeOK
    <3> QED
      BY <1>4, <3>1 DEF PayCrash, rows, vars
  <2> QED
    BY <2>1, <2>2
<1>5. CASE UNCHANGED gateVars
  BY <1>5 DEF gateVars, vars
<1> QED
  BY <1>1, <1>2, <1>3, <1>4, <1>5 DEF PayNext, PayWork, PayFault, PayArrive, PayResume,
     PaynowAccepts, InitiateLoad, GetStatusLoad, ConfirmLoad, CallbackLoad, PaynowSimulates,
     CreatePayment, WritePaid, WriteFailed, Poll, PollPosted, Polled, FindPayment,
     PayAuditRecord,
     TimerFires, PayAuditSwallow, PayCallFails, PaynowSettles, PaynowAnswerLost, allVars

LEMMA PayGateInvariant ==
    PaySpec => [](TypeOK /\ HandlersConsistent /\ Rested /\ PayFacts)
<1>1. PayInit => TypeOK /\ HandlersConsistent /\ Rested /\ PayFacts
  <2> SUFFICES ASSUME PayInit PROVE TypeOK /\ HandlersConsistent /\ Rested /\ PayFacts
    OBVIOUS
  <2>1. Init
    BY DEF PayInit
  <2>2. Rested
    BY <2>1 DEF Init, Rested
  <2> QED
    BY <2>1, <2>2, TypeInit, HandlersInit, PayInitFacts DEF PayFacts
<1>2. TypeOK /\ HandlersConsistent /\ Rested /\ PayFacts /\ [PayNext]_allVars
         => (TypeOK /\ HandlersConsistent /\ Rested /\ PayFacts)'
  BY GateOfStep, TypeStep, HandlersStep, RestedStep, PayFactsStep DEF PayFacts
<1> QED
  BY <1>1, <1>2, PTL DEF PaySpec

\* The payments service is one more client of the stage gate: whatever it does,
\* and however its handlers die, the gate takes only steps of its own.
THEOREM PaymentsKeepGate == PaySpec => Spec
<1>1. PayInit => Init
  BY DEF PayInit
<1>2. TypeOK /\ Rested /\ PayFacts /\ [PayNext]_allVars => [Next]_vars
  BY GateOfStep DEF PayFacts
<1> QED
  BY <1>1, <1>2, PayGateInvariant, PTL DEF PaySpec, Spec

-----------------------------------------------------------------------------
(* No stage passes its fee without a paid payment. *)

FeePaid(s) == \E p \in Payments : payment[p].stage = s /\ payment[p].paidAt

\* The writes that take a stage past its fee, or find it there.
PastFeeWrites == {"book", "findInspection", "signOff", "reRequest"}

\* A handler that is about to open a stage for inspection has its payment, and one
\* that moves it on has read it past its fee.
FeeInv ==
    /\ PaidStageHasPayment
    /\ \A r \in Requests :
          /\ req[r].pc = "markPaid" => FeePaid(req[r].stage)
          /\ req[r].pc \in PastFeeWrites => PastFee(req[r].stage)

LEMMA FeeInit == PayInit => FeeInv
<1> SUFFICES ASSUME PayInit PROVE FeeInv
  OBVIOUS
<1>1. ASSUME NEW s \in Stages, PastFee(s) PROVE FeePaid(s)
  <2> PICK p \in Payments : payment[p] = SeededPayment(s)
    BY <1>1 DEF PayInit
  <2> QED
    BY DEF FeePaid, SeededPayment
<1>2. \A r \in Requests : req[r].pc = "idle"
  BY DEF PayInit, Init, Idle
<1> QED
  BY <1>1, <1>2 DEF FeeInv, PaidStageHasPayment, FeePaid, PastFeeWrites

LEMMA FeeStays ==
    ASSUME PayFacts, [PayNext]_allVars, NEW s, FeePaid(s)
    PROVE  FeePaid(s)'
<1> PICK p \in Payments : payment[p].stage = s /\ payment[p].paidAt
  BY DEF FeePaid
<1>1. payment[p].status # "NONE"
  BY DEF PayFacts, RowsWait
<1> QED
  BY <1>1, RowsStay DEF PayFacts, FeePaid

\* The unlock makes a stage payable, but only one that was locked.
LEMMA PastFeeStays ==
    ASSUME GateInv, [Next]_vars, NEW s \in Stages, PastFee(s)
    PROVE  PastFee(s)'
<1> USE DEF GateInv, TypeOK, Request, PastFee
<1>1. ASSUME NEW r \in Requests, UnlockWrite(r) PROVE PastFee(s)'
  <2>1. /\ ~IsFinalStage(req[r].stage) /\ req[r].stage \in Stages
        /\ Unlocking(r, req[r].stage)
    BY <1>1 DEF UnlockWrite, Unlocking, HandlersConsistent
  <2>2. status[NextStage(req[r].stage)] = "LOCKED"
    BY <2>1 DEF UnlockNeverRefused
  <2> QED
    BY <1>1, <2>1, <2>2, StagesFacts DEF UnlockWrite, SetStatus
<1>2. ASSUME NEW r \in Requests,
             MarkPaidWrite(r) \/ BookWrite(r) \/ ReRequestWrite(r) \/ SignOffCommit(r)
      PROVE  PastFee(s)'
  BY <1>2 DEF MarkPaidWrite, BookWrite, ReRequestWrite, SignOffCommit, SetStatus
<1>3. CASE UNCHANGED status
  BY <1>3
<1> QED
  BY <1>1, <1>2, <1>3 DEF Next, Work, Fault, Arrive, UserRequest, Resume, MarkPaidLoad,
     BookLoad,
     SignOffLoad, ReRequestLoad, SignOffFindInspection, UnlockFind, CertificateCreate,
     CompletePermit, AuditRecord, AuditSwallow, CallFails, Crash, rows, vars

\* A stage passes its fee by the write of a handler that markPaid started.
LEMMA PastFeeBegins ==
    ASSUME GateInv, [Next]_vars, NEW s \in Stages, PastFee(s)'
    PROVE  \/ PastFee(s)
           \/ \E r \in Requests : /\ req[r].pc \in PastFeeWrites \union {"markPaid"}
                                  /\ req[r].stage = s
<1> USE DEF GateInv, TypeOK, Request, PastFee, PastFeeWrites
<1>1. ASSUME NEW r \in Requests, UnlockWrite(r) PROVE PastFee(s)
  BY <1>1, StagesFacts DEF UnlockWrite, SetStatus, HandlersConsistent
<1>2. ASSUME NEW r \in Requests,
             MarkPaidWrite(r) \/ BookWrite(r) \/ ReRequestWrite(r) \/ SignOffCommit(r),
             req[r].stage # s
      PROVE  PastFee(s)
  BY <1>2 DEF MarkPaidWrite, BookWrite, ReRequestWrite, SignOffCommit, SetStatus
<1>3. ASSUME NEW r \in Requests,
             MarkPaidWrite(r) \/ BookWrite(r) \/ ReRequestWrite(r) \/ SignOffCommit(r)
      PROVE  req[r].pc \in PastFeeWrites \union {"markPaid"}
  BY <1>3 DEF MarkPaidWrite, BookWrite, ReRequestWrite, SignOffCommit
<1>4. CASE UNCHANGED status
  BY <1>4
<1> QED
  BY <1>1, <1>2, <1>3, <1>4 DEF Next, Work, Fault, Arrive, UserRequest, Resume, MarkPaidLoad,
     BookLoad, SignOffLoad, ReRequestLoad, SignOffFindInspection, UnlockFind, CertificateCreate,
     CompletePermit, AuditRecord, AuditSwallow, CallFails, Crash, rows, vars

\* Where the handlers of the writes come from.
LEMMA WritersBegin ==
    ASSUME TypeOK, [PayNext]_allVars, NEW r \in Requests
    PROVE  /\ req'[r].pc = "markPaid" =>
                 \/ req'[r] = req[r]
                 \/ preq[r].pc = "advanceGate" /\ req'[r].stage = preq[r].stage
           /\ req'[r].pc \in PastFeeWrites =>
                 \/ req'[r] = req[r]
                 \/ PastFee(req'[r].stage)
                 \/ req[r].pc \in PastFeeWrites /\ req'[r].stage = req[r].stage
<1> USE DEF TypeOK, Request, PastFeeWrites, PastFee
<1>1. ASSUME NEW t \in Requests, NEW s \in Stages, UserRequest(t, s)
      PROVE  \/ req'[r] = req[r]
             \/ req'[r].pc # "markPaid" /\ PastFee(req'[r].stage)
  BY <1>1 DEF UserRequest, BookLoad, SignOffLoad, ReRequestLoad, Begin, AwaitingInspection
<1>2. ASSUME NEW t \in Requests, Resume(t) \/ AuditSwallow(t) \/ CallFails(t)
      PROVE  \/ req'[r] = req[r]
             \/ req'[r].pc \notin PastFeeWrites \union {"markPaid"}
             \/ /\ req[r].pc = "findInspection" /\ req'[r].pc = "signOff"
                /\ req'[r].stage = req[r].stage
  BY <1>2 DEF Resume, MarkPaidWrite, BookWrite, ReRequestWrite, SignOffFindInspection,
     SignOffCommit, UnlockFind, UnlockWrite, CertificateCreate, CompletePermit, AuditRecord,
     AuditSwallow, AfterAudit, CallFails, Goto, Return, Idle
<1>3. ASSUME NEW t \in Requests, AdvanceGate(t), req'[r] # req[r]
      PROVE  t = r /\ preq[r].pc = "advanceGate" /\ req'[r].stage = preq[r].stage
                   /\ req'[r].pc = "markPaid"
  BY <1>3 DEF AdvanceGate, MarkPaidLoad, Begin, gateVars
<1>4. CASE PayCrash
  BY <1>4 DEF PayCrash, Idle
<1>5. CASE UNCHANGED req
  BY <1>5
<1> QED
  BY <1>1, <1>2, <1>3, <1>4, <1>5 DEF PayNext, PayWork, PayFault, GateStep, GateFault,
     PayArrive,
     PayResume, PaynowAccepts, InitiateLoad, GetStatusLoad, ConfirmLoad, CallbackLoad,
     PaynowSimulates, CreatePayment, WritePaid, WriteFailed, Poll, PollPosted, Polled,
     FindPayment, PayAuditRecord,
     TimerFires, PayAuditSwallow, PayCallFails, PaynowSettles, PaynowAnswerLost, gateVars,
     allVars

LEMMA FeeStep ==
    ASSUME GateInv, PayFacts, FeeInv, [Next]_vars, [PayNext]_allVars
    PROVE  FeeInv'
<1>1. ASSUME NEW s \in Stages, PastFee(s)' PROVE FeePaid(s)'
  <2>1. FeePaid(s)
    BY <1>1, PastFeeBegins DEF FeeInv, PaidStageHasPayment, FeePaid, PastFeeWrites
  <2> QED
    BY <2>1, FeeStays
<1>2. ASSUME NEW r \in Requests, NEW s, req'[r].pc = "markPaid", req'[r].stage = s
      PROVE  FeePaid(s)'
  <2>1. FeePaid(s)
    <3>1. CASE req'[r] = req[r]
      BY <1>2, <3>1 DEF FeeInv
    <3>2. CASE preq[r].pc = "advanceGate" /\ req'[r].stage = preq[r].stage
      BY <1>2, <3>2 DEF PayFacts, PayHandlers, HandlerSound, FeePaid, PayPoints, Creating
    <3> QED
      BY <1>2, <3>1, <3>2, WritersBegin DEF GateInv
  <2> QED
    BY <2>1, FeeStays
<1>3. ASSUME NEW r \in Requests, NEW s \in Stages, req'[r].pc \in PastFeeWrites,
             req'[r].stage = s
      PROVE  PastFee(s)'
  <2>1. PastFee(s)
    BY <1>3, WritersBegin DEF FeeInv, GateInv
  <2> QED
    BY <2>1, PastFeeStays
<1>4. \A r \in Requests : req'[r].stage \in Stages
  BY TypeStep DEF GateInv, TypeOK, Request
<1>5. PaidStageHasPayment'
  BY <1>1 DEF PaidStageHasPayment, FeePaid
<1>6. \A r \in Requests : req'[r].pc = "markPaid" => FeePaid(req[r].stage)'
  BY <1>2 DEF FeePaid
<1>7. \A r \in Requests : req'[r].pc \in PastFeeWrites => PastFee(req[r].stage)'
  BY <1>3, <1>4 DEF PastFee
<1> QED
  BY <1>5, <1>6, <1>7 DEF FeeInv

\* Behind every stage past its fee there is a payment that was marked paid,
\* however many payments race for it and wherever the handlers die.
THEOREM NoStageInspectedUnpaid == PaySpec => []PaidStageHasPayment
<1>1. FeeInv => PaidStageHasPayment
  BY DEF FeeInv
<1>2. GateInv /\ PayFacts /\ FeeInv /\ [Next]_vars /\ [PayNext]_allVars => FeeInv'
  BY FeeStep
<1>3. PaySpec => []GateInv
  BY PaymentsKeepGate, GateInvariant, PTL
<1>4. PaySpec => [][Next]_vars
  BY PaymentsKeepGate, PTL DEF Spec
<1> QED
  BY <1>1, <1>2, <1>3, <1>4, FeeInit, PayGateInvariant, PTL DEF PaySpec

-----------------------------------------------------------------------------
(* Types: a timer waits for a simulated payment, with its handler at rest. *)

Initiating(p) == \E r \in Requests : preq[r].pc = "auditInitiated" /\ preq[r].payment = p

\* A timer is set once, by the one handler that created the payment, and its own
\* handler begins only when it fires.
TimerInv ==
    /\ \A p \in timers : payment[p].mode = "simulated" /\ Free(p) /\ ~Initiating(p)
    /\ \A p \in Payments : ~Free(p) => payment[p].status # "NONE" /\ ~Initiating(p)
    /\ \A r \in Requests : preq[r].pc = "auditInitiated" =>
          /\ payment[preq[r].payment].mode = preq[r].answer
          /\ \A t \in Requests \ {r} : preq[t].pc = "auditInitiated" =>
                                          preq[t].payment # preq[r].payment

LEMMA TimerInit == PayInit => TimerInv
<1> SUFFICES ASSUME PayInit PROVE TimerInv
  OBVIOUS
<1>1. timers = {} /\ \A r \in Requests : preq[r].pc = "idle"
  BY DEF PayInit, PayIdle
<1>2. \A p \in Payments : Free(p)
  BY <1>1, TimersAreHandlers DEF PayInit, Init, Idle, IsIdle, Free
<1> QED
  BY <1>1, <1>2 DEF TimerInv

\* Outside TimerFires a timer's handler begins nothing.
LEMMA TimersRest ==
    ASSUME TypeOK, PayShape, [PayNext]_allVars, NEW p \in Payments, Free(p)
    PROVE  Free(p)' \/ TimerFires(p)
<1> USE TimersAreHandlers DEF TypeOK, PayShape, Free, IsIdle, HttpRequests
<1>1. ASSUME NEW r \in Requests, GateStep(r) PROVE Free(p)'
  <2>1. CASE Resume(r)
    BY <1>1, <2>1 DEF GateStep, Resume, MarkPaidWrite, BookWrite, ReRequestWrite,
       SignOffFindInspection, SignOffCommit, UnlockFind, UnlockWrite, CertificateCreate,
       CompletePermit, AuditRecord, AfterAudit, Goto, Return, Idle, AuditPoints
  <2>2. ASSUME r \in HttpRequests, NEW s \in Stages, UserRequest(r, s) PROVE Free(p)'
    BY <1>1, <2>2 DEF GateStep, UserRequest, BookLoad, ReRequestLoad, SignOffLoad, Begin
  <2> QED
    BY <1>1, <2>1, <2>2 DEF GateStep
<1>2. ASSUME NEW r \in Requests, GateFault(r) PROVE Free(p)'
  BY <1>2 DEF GateFault, AuditSwallow, CallFails, AfterAudit, Goto, Return, Idle, AuditPoints
<1>3. ASSUME NEW r \in Requests, PayArrive(r) PROVE Free(p)'
  BY <1>3 DEF PayArrive, InitiateLoad, GetStatusLoad, ConfirmLoad, CallbackLoad, PayBegin,
     gateVars
<1>4. ASSUME NEW r \in Requests,
             PayResume(r) \/ PayAuditSwallow(r) \/ PaynowAnswerLost(r) \/ PayCallFails(r)
      PROVE  Free(p)'
  <2>1. CASE AdvanceGate(r)
    BY <2>1 DEF AdvanceGate, MarkPaidLoad, Begin, PayReturn, PayIdle, gateVars
  <2>2. CASE ~AdvanceGate(r)
    BY <1>4, <2>2 DEF PayResume, PaynowAccepts, PaynowSimulates, CreatePayment, Poll,
       PollPosted, Polled,
       FindPayment, WritePaid, WriteFailed, PayAuditRecord, PayAuditSwallow, PaynowAnswerLost,
       PayCallFails, AfterPayAudit, PayAnswered, PayGoto, PayReturn, PayIdle, PayAuditPoints,
       gateVars
  <2> QED
    BY <2>1, <2>2
<1>5. CASE PayCrash
  BY <1>5 DEF PayCrash, Idle, PayIdle
<1>6. ASSUME NEW u \in Payments, TimerFires(u), u # p PROVE Free(p)'
  BY <1>6 DEF TimerFires, PayBegin, gateVars
<1>7. ASSUME UNCHANGED <<gateVars, preq>> PROVE Free(p)'
  BY <1>7 DEF gateVars
<1> QED
  BY <1>1, <1>2, <1>3, <1>4, <1>5, <1>6, <1>7 DEF PayNext, PayWork, PayFault, PaynowSettles,
     allVars

\* A handler comes to the audit of a new payment only by creating its row.
LEMMA InitiatingBegins ==
    ASSUME PayShape, PayHandlers, [PayNext]_allVars, NEW r \in Requests,
           preq'[r].pc = "auditInitiated"
    PROVE  \/ preq'[r] = preq[r] /\ payment'[preq[r].payment].mode = payment[preq[r].payment].mode
           \/ CreatePayment(r)
<1> USE DEF PayShape, PayRequest
<1>1. CASE preq'[r] = preq[r]
  <2>1. preq[r].payment \in Payments /\ payment[preq[r].payment].status # "NONE"
    BY <1>1 DEF PayHandlers, HandlerSound, PayPoints, PayAuditPoints, Creating
  <2> QED
    BY <1>1, <2>1, RowsStay
<1>2. CASE preq'[r] # preq[r]
  <2>1. ASSUME NEW t \in Requests, PayArrive(t) PROVE FALSE
    BY <1>2, <2>1 DEF PayArrive, InitiateLoad, GetStatusLoad, ConfirmLoad, CallbackLoad,
       PayBegin
  <2>2. ASSUME NEW t \in Requests,
               PayResume(t) \/ PayAuditSwallow(t) \/ PaynowAnswerLost(t) \/ PayCallFails(t)
        PROVE  CreatePayment(r)
    <3>1. t = r
      <4>1. PayReturn(t) \/ \E q : preq' = [preq EXCEPT ![t] = q]
        BY <2>2 DEF PayResume, PaynowAccepts, PaynowSimulates, CreatePayment, Poll, PollPosted,
           Polled, FindPayment,
           WritePaid, WriteFailed, PayAuditRecord, PayAuditSwallow, PaynowAnswerLost,
           PayCallFails, AdvanceGate, AfterPayAudit, PayAnswered, PayGoto
      <4> QED
        BY <1>2, <4>1 DEF PayReturn
    <3>2. CASE CreatePayment(t)
      BY <3>1, <3>2
    <3>3. CASE PayReturn(t)
      BY <3>1, <3>3 DEF PayReturn, PayIdle
    <3>4. ASSUME NEW pc \in PayPoints \ {"auditInitiated"}, NEW a,
                 PayGoto(t, pc) \/ PayAnswered(t, pc, a)
          PROVE  FALSE
      BY <3>1, <3>4 DEF PayGoto, PayAnswered
    <3>5. \/ CreatePayment(t)
          \/ PayReturn(t)
          \/ \E pc \in PayPoints \ {"auditInitiated"} :
                PayGoto(t, pc) \/ \E a : PayAnswered(t, pc, a)
      BY <2>2 DEF PayResume, PaynowAccepts, PaynowSimulates, Poll, PollPosted, Polled,
         FindPayment, WritePaid,
         WriteFailed, PayAuditRecord, PayAuditSwallow, PaynowAnswerLost, PayCallFails,
         AdvanceGate, AfterPayAudit, PayPoints, PayAuditPoints
    <3> QED
      BY <3>1, <3>2, <3>3, <3>4, <3>5
  <2>3. ASSUME NEW p \in Payments, TimerFires(p) PROVE FALSE
    BY <1>2, <2>3, TimersAreHandlers DEF TimerFires, PayBegin
  <2>4. ~PayCrash
    BY <1>2 DEF PayCrash, PayIdle
  <2> QED
    BY <1>2, <2>1, <2>2, <2>3, <2>4 DEF PayNext, PayWork, PayFault, GateStep, GateFault,
       PaynowSettles, allVars
<1> QED
  BY <1>1, <1>2

\* No handler comes to initiate a payment whose row exists.
LEMMA InitiatedOnce ==
    ASSUME PayShape, PayHandlers, [PayNext]_allVars, NEW p \in Payments,
           payment[p].status # "NONE", Initiating(p)'
    PROVE  Initiating(p)
<1> PICK r \in Requests : preq'[r].pc = "auditInitiated" /\ preq'[r].payment = p
  BY DEF Initiating
<1>1. ~CreatePayment(r)
  BY DEF CreatePayment, PayGoto, PayShape, PayRequest, PayHandlers, HandlerSound, Creating
<1>2. preq'[r] = preq[r]
  BY <1>1, InitiatingBegins
<1> QED
  BY <1>2 DEF Initiating

\* A timer is new only when the handler that created its payment sets it.
LEMMA TimersBegin ==
    ASSUME [PayNext]_allVars, NEW p \in timers', p \notin timers
    PROVE  \E r \in Requests : /\ preq[r].pc = "auditInitiated" /\ preq[r].payment = p
                              /\ preq[r].answer = "simulated"
                              /\ PayReturn(r) /\ payment' = payment
BY DEF PayNext, PayWork, PayFault, GateStep, PayArrive, PayResume, PaynowAccepts, GateFault,
   InitiateLoad, GetStatusLoad, ConfirmLoad, CallbackLoad, PaynowSimulates, CreatePayment,
   WritePaid, WriteFailed, Poll, PollPosted, Polled, FindPayment, PayAuditRecord,
   AfterPayAudit, AdvanceGate,
   TimerFires, PayAuditSwallow, PayCallFails, PayCrash, PaynowSettles, PaynowAnswerLost,
   payRows, allVars

LEMMA TimerStep ==
    ASSUME TypeOK, PayShape, PayHandlers, RowsWait, TimerInv, [PayNext]_allVars
    PROVE  TimerInv'
<1>1. ASSUME NEW p \in timers'
      PROVE  payment'[p].mode = "simulated" /\ Free(p)' /\ ~Initiating(p)'
  <2>1. CASE p \in timers
    <3>1. p \in Payments /\ payment[p].status # "NONE"
      BY <2>1 DEF PayShape, RowsWait
    <3>2. ~TimerFires(p)
      BY <1>1 DEF TimerFires
    <3> QED
      BY <2>1, <3>1, <3>2, RowsStay, TimersRest, InitiatedOnce DEF TimerInv
  <2>2. CASE p \notin timers
    <3> PICK r \in Requests : /\ preq[r].pc = "auditInitiated" /\ preq[r].payment = p
                              /\ preq[r].answer = "simulated"
                              /\ PayReturn(r) /\ payment' = payment
      BY <1>1, <2>2, TimersBegin
    <3>1. p \in Payments /\ payment[p].status # "NONE"
      BY DEF PayHandlers, HandlerSound, PayPoints, PayAuditPoints, Creating
    <3>2. Initiating(p)
      BY DEF Initiating
    <3>3. ~TimerFires(p)
      BY <2>2 DEF TimerFires
    <3>4. Free(p)'
      BY <3>1, <3>2, <3>3, TimersRest DEF TimerInv
    <3>5. ASSUME NEW t \in Requests, preq'[t].pc = "auditInitiated", preq'[t].payment = p
          PROVE  FALSE
      <4>1. t # r
        BY <3>5 DEF PayReturn, PayIdle, PayShape
      <4>2. ~CreatePayment(t)
        BY <3>1, <3>5 DEF CreatePayment, PayGoto, PayShape, PayRequest, PayHandlers,
           HandlerSound, Creating
      <4>3. preq'[t] = preq[t]
        BY <3>5, <4>2, InitiatingBegins
      <4> QED
        BY <3>5, <4>1, <4>3 DEF TimerInv
    <3>6. ~Initiating(p)'
      BY <3>5 DEF Initiating
    <3> QED
      BY <3>4, <3>6 DEF TimerInv
  <2> QED
    BY <2>1, <2>2
<1>2. ASSUME NEW p \in Payments, ~Free(p)'
      PROVE  payment'[p].status # "NONE" /\ ~Initiating(p)'
  <2>1. payment[p].status # "NONE" /\ ~Initiating(p)
    <3>1. CASE Free(p)
      <4>1. p \in timers
        BY <1>2, <3>1, TimersRest DEF TimerFires
      <4> QED
        BY <4>1 DEF TimerInv, RowsWait
    <3>2. CASE ~Free(p)
      BY <3>2 DEF TimerInv
    <3> QED
      BY <3>1, <3>2
  <2> QED
    BY <2>1, RowsStay, InitiatedOnce
<1>3. ASSUME NEW r \in Requests, preq'[r].pc = "auditInitiated"
      PROVE  payment'[preq'[r].payment].mode = preq'[r].answer
  <2>1. CASE CreatePayment(r)
    BY <2>1 DEF CreatePayment, PayGoto, PayShape, PayRequest, PayHandlers, HandlerSound,
       Creating
  <2> QED
    BY <1>3, <2>1, InitiatingBegins DEF TimerInv
<1>4. ASSUME NEW r \in Requests, preq'[r].pc = "auditInitiated",
             NEW t \in Requests \ {r}, preq'[t].pc = "auditInitiated"
      PROVE  preq'[t].payment # preq'[r].payment
  <2>1. ASSUME NEW u \in Requests, CreatePayment(u)
        PROVE  /\ \A v \in Requests \ {u} : preq[v].payment # preq[u].payment
               /\ \A v \in Requests : preq'[v].payment = preq[v].payment
    BY <2>1 DEF CreatePayment, PayGoto, PayShape, PayRequest, PayHandlers, HandlerSound,
       Creating
  <2>2. CASE preq'[r] = preq[r] /\ preq'[t] = preq[t]
    BY <1>4, <2>2 DEF TimerInv
  <2> QED
    BY <1>4, <2>1, <2>2, InitiatingBegins
<1> QED
  BY <1>1, <1>2, <1>3, <1>4 DEF TimerInv

\* Every row, timer and handler is well-formed, and a timer waits for a simulated
\* payment with its own handler at rest.
THEOREM PaymentsTyped == PaySpec => []PayTypeOK
<1>1. PayShape /\ TypeOK /\ TimerInv => PayTypeOK
  BY DEF PayShape, TimerInv, PayTypeOK
<1>2. PayFacts /\ GateInv /\ TimerInv /\ [PayNext]_allVars => TimerInv'
  BY TimerStep DEF PayFacts, GateInv
<1>3. PayFacts => PayShape
  BY DEF PayFacts
<1>4. GateInv => TypeOK
  BY DEF GateInv
<1>5. PaySpec => []GateInv
  BY PaymentsKeepGate, GateInvariant, PTL
<1> QED
  BY <1>1, <1>2, <1>3, <1>4, <1>5, TimerInit, PayGateInvariant, PTL DEF PaySpec

-----------------------------------------------------------------------------
(* A server that lives. Only a handler's own steps move it on.               *)

LEMMA WorkIsNext == [PayWork]_allVars => [PayNext]_allVars
BY DEF PayNext

\* The steps that change what a suspended payment handler carries.
LEMMA PayHandlerSteps ==
    ASSUME PayShape, [PayWork]_allVars, NEW r \in Requests
    PROVE  \/ preq'[r] = preq[r]
           \/ PayArrive(r) \/ PayResume(r)
           \/ r \in Payments /\ TimerFires(r)
<1> USE DEF PayShape
<1>1. ASSUME NEW t \in Requests \ {r}, PayArrive(t) PROVE preq'[r] = preq[r]
  BY <1>1 DEF PayArrive, InitiateLoad, GetStatusLoad, ConfirmLoad, CallbackLoad, PayBegin
<1>2. ASSUME NEW t \in Requests \ {r}, PayResume(t) PROVE preq'[r] = preq[r]
  BY <1>2 DEF PayResume, PaynowAccepts, PaynowSimulates, CreatePayment, Poll, PollPosted,
     Polled, FindPayment,
     WritePaid, WriteFailed, PayAuditRecord, AdvanceGate, AfterPayAudit, PayAnswered, PayGoto,
     PayReturn
<1>3. ASSUME NEW p \in Payments, TimerFires(p), p # r PROVE preq'[r] = preq[r]
  BY <1>3 DEF TimerFires, PayBegin
<1>4. CASE UNCHANGED preq
  BY <1>4
<1> QED
  BY <1>1, <1>2, <1>3, <1>4 DEF PayWork, GateStep, PaynowSettles, allVars

\* A handler of the gate is moved by its own calls, or started by markPaid.
LEMMA GateHandlerSteps ==
    ASSUME TypeOK, [PayWork]_allVars, NEW r \in Requests
    PROVE  \/ req'[r] = req[r]
           \/ GateStep(r)
           \/ AdvanceGate(r)
<1> USE DEF TypeOK
<1>1. ASSUME NEW t \in Requests \ {r}, GateStep(t) PROVE req'[r] = req[r]
  <2>1. CASE Resume(t)
    BY <2>1 DEF Resume, MarkPaidWrite, BookWrite, ReRequestWrite, SignOffFindInspection,
       SignOffCommit, UnlockFind, UnlockWrite, CertificateCreate, CompletePermit, AuditRecord,
       AfterAudit, Goto, Return
  <2>2. ASSUME NEW s \in Stages, UserRequest(t, s) PROVE req'[r] = req[r]
    BY <2>2 DEF UserRequest, BookLoad, ReRequestLoad, SignOffLoad, Begin
  <2> QED
    BY <1>1, <2>1, <2>2 DEF GateStep
<1>2. ASSUME NEW t \in Requests \ {r}, AdvanceGate(t) PROVE req'[r] = req[r]
  BY <1>2 DEF AdvanceGate, MarkPaidLoad, Begin, gateVars
<1>3. CASE UNCHANGED req
  BY <1>3
<1> QED
  BY <1>1, <1>2, <1>3 DEF PayWork, PayArrive, PayResume, PaynowAccepts, InitiateLoad,
     GetStatusLoad, ConfirmLoad, CallbackLoad, PaynowSimulates, CreatePayment, WritePaid,
     WriteFailed, Poll, PollPosted, Polled, FindPayment, PayAuditRecord, TimerFires, PaynowSettles, gateVars, allVars

-----------------------------------------------------------------------------
(* Money taken moves its stage. *)

\* A fee is asked, and a payment made, only of a stage that is open.
FeeOpen ==
    /\ \A p \in Payments : payment[p].status # "NONE" => status[payment[p].stage] # "LOCKED"
    /\ \A r \in Requests : preq[r].pc \in Creating => status[preq[r].stage] # "LOCKED"

\* The stage of a paid payment is past its fee, or a handler is about to take it there.
AdvanceInv ==
    /\ FeeOpen
    /\ \A p \in Payments : payment[p].paidAt =>
          PastFee(payment[p].stage) \/ Advancing(payment[p].stage)

LEMMA AdvanceInit == PayInit => AdvanceInv
<1> SUFFICES ASSUME PayInit PROVE AdvanceInv
  OBVIOUS
<1>1. ASSUME NEW p \in Payments, payment[p] # NoRow
      PROVE  PastFee(payment[p].stage)
  <2> PICK s \in Stages : payment[p] = SeededPayment(s)
    BY <1>1 DEF PayInit
  <2>1. PastFee(s)
    BY DEF PayInit
  <2> QED
    BY <2>1 DEF SeededPayment
<1>2. \A r \in Requests : preq[r].pc = "idle"
  BY DEF PayInit, PayIdle
<1> QED
  BY <1>1, <1>2 DEF AdvanceInv, FeeOpen, PastFee, NoRow, Creating

\* A handler comes to create a payment only of a stage it has read payable.
LEMMA CreatingBegins ==
    ASSUME PayShape, [PayWork]_allVars, NEW r \in Requests, preq'[r].pc \in Creating
    PROVE  \/ preq[r].pc \in Creating /\ preq'[r].stage = preq[r].stage
           \/ status[preq'[r].stage] = "AWAITING_PAYMENT"
<1> USE DEF PayShape, PayRequest, Creating
<1>1. CASE preq'[r] = preq[r]
  BY <1>1
<1>2. CASE PayArrive(r)
  <2> PICK p \in Payments : \/ \E s \in Stages : InitiateLoad(r, s, p)
                            \/ GetStatusLoad(r, p) \/ ConfirmLoad(r, p) \/ CallbackLoad(r, p)
    BY <1>2 DEF PayArrive
  <2>1. ASSUME NEW s \in Stages, InitiateLoad(r, s, p)
        PROVE  status[preq'[r].stage] = "AWAITING_PAYMENT"
    BY <2>1 DEF InitiateLoad
  <2>2. ~GetStatusLoad(r, p) /\ ~ConfirmLoad(r, p) /\ ~CallbackLoad(r, p)
    BY DEF GetStatusLoad, ConfirmLoad, CallbackLoad, PayBegin
  <2> QED
    BY <2>1, <2>2
<1>3. CASE PaynowAccepts(r) \/ PaynowSimulates(r)
  BY <1>3 DEF PaynowAccepts, PaynowSimulates, PayAnswered
<1>4. ~CreatePayment(r) /\ ~WritePaid(r) /\ ~WriteFailed(r)
  BY DEF CreatePayment, WritePaid, WriteFailed, PayGoto
<1>5. ~Poll(r) /\ ~PollPosted(r) /\ ~FindPayment(r)
  BY DEF Poll, PollPosted, Polled, FindPayment, PayGoto, PayAnswered, PayReturn, PayIdle
<1>6. ~PayAuditRecord(r) /\ ~AdvanceGate(r)
  BY DEF PayAuditRecord, AdvanceGate, AfterPayAudit, PayGoto, PayReturn, PayIdle
<1>7. ~TimerFires(r)
  BY DEF TimerFires, PayBegin
<1> QED
  BY <1>1, <1>2, <1>3, <1>4, <1>5, <1>6, <1>7, PayHandlerSteps DEF PayResume

LEMMA FeeOpenStep ==
    ASSUME GateInv, [Next]_vars, PayFacts, FeeOpen, [PayWork]_allVars
    PROVE  FeeOpen'
<1> USE DEF PayFacts
<1>0. [PayNext]_allVars
  BY WorkIsNext
<1>1. \A s \in Stages : status[s] # "LOCKED" => status'[s] # "LOCKED"
  BY StepKeeps
<1>2. ASSUME NEW r \in Requests, preq'[r].pc \in Creating
      PROVE  status'[preq'[r].stage] # "LOCKED"
  <2>1. preq'[r].stage \in Stages
    BY <1>0, PayHandlersTyped DEF PayRequest
  <2> QED
    BY <1>1, <1>2, <2>1, CreatingBegins DEF FeeOpen
<1>3. ASSUME NEW p \in Payments, payment'[p].status # "NONE"
      PROVE  status'[payment'[p].stage] # "LOCKED"
  <2>1. CASE payment[p].status # "NONE"
    <3>1. payment'[p].stage = payment[p].stage /\ payment[p].stage \in Stages
      BY <1>0, <2>1, RowsStay DEF PayShape, PaymentRow
    <3> QED
      BY <1>1, <2>1, <3>1 DEF FeeOpen
  <2>2. CASE payment[p].status = "NONE"
    <3>1. PICK r \in Requests : CreatePayment(r) \/ WritePaid(r) \/ WriteFailed(r)
      BY <1>0, <1>3, <2>2, RowWriters
    <3>2. CASE CreatePayment(r)
      <4>1. p = preq[r].payment /\ payment'[p].stage = preq[r].stage
        BY <1>3, <2>2, <3>2 DEF CreatePayment, PayShape, PaymentRow
      <4>2. status[preq[r].stage] # "LOCKED" /\ preq[r].stage \in Stages
        BY <3>2 DEF CreatePayment, FeeOpen, Creating, PayShape, PayRequest
      <4> QED
        BY <1>1, <4>1, <4>2
    <3>3. CASE WritePaid(r) \/ WriteFailed(r)
      <4>1. payment[preq[r].payment].status # "NONE"
        BY <3>3 DEF WritePaid, WriteFailed, PayHandlers, HandlerSound, PayPoints, Creating
      <4>2. payment'[p].status = payment[p].status
        BY <2>2, <3>3, <4>1 DEF WritePaid, WriteFailed, PayShape
      <4> QED
        BY <1>3, <2>2, <4>2
    <3> QED
      BY <3>1, <3>2, <3>3
  <2> QED
    BY <2>1, <2>2
<1> QED
  BY <1>2, <1>3 DEF FeeOpen

\* The news of a payment reaches the gate: the handler that owes it keeps owing it
\* until the stage is past its fee.
LEMMA AdvancingStays ==
    ASSUME GateInv, [Next]_vars, PayFacts, TimerInv, FeeOpen, [PayWork]_allVars,
           NEW s \in Stages, Advancing(s)
    PROVE  PastFee(s)' \/ Advancing(s)'
<1> USE DEF PayFacts
<1> PICK r \in Requests : \/ /\ preq[r].pc \in {"auditPaymentPaid", "advanceGate"}
                             /\ preq[r].stage = s
                          \/ /\ req[r].pc = "markPaid" /\ req[r].stage = s
  BY DEF Advancing
<1>1. /\ preq \in [Requests -> PayRequest] /\ preq[r] \in PayRequest
      /\ req \in [Requests -> Request] /\ req[r] \in Request
      /\ status \in [Stages -> StageStatuses]
  BY DEF PayShape, GateInv, TypeOK
<1>2. CASE preq[r].pc \in {"auditPaymentPaid", "advanceGate"} /\ preq[r].stage = s
  <2>1. CASE preq'[r] = preq[r]
    BY <1>2, <2>1 DEF Advancing
  <2>2. ~PayArrive(r) /\ ~(r \in Payments /\ TimerFires(r))
    BY <1>2 DEF PayArrive, InitiateLoad, GetStatusLoad, ConfirmLoad, CallbackLoad, TimerFires,
       TimerInv, Free
  <2>3. CASE PayAuditRecord(r)
    <3>1. preq[r].pc = "auditPaymentPaid"
      BY <1>2, <2>3 DEF PayAuditRecord, PayAuditPoints
    <3>2. PayGoto(r, "advanceGate")
      BY <2>3, <3>1 DEF PayAuditRecord, AfterPayAudit
    <3>3. preq'[r].pc = "advanceGate" /\ preq'[r].stage = s
      BY <1>1, <1>2, <3>2 DEF PayGoto, PayRequest
    <3> QED
      BY <3>3 DEF Advancing
  <2>4. CASE AdvanceGate(r)
    <3>1. CASE status[s] = "AWAITING_PAYMENT"
      <4>1. req'[r].pc = "markPaid" /\ req'[r].stage = s
        BY <1>1, <1>2, <2>4, <3>1 DEF AdvanceGate, MarkPaidLoad, Begin
      <4> QED
        BY <4>1 DEF Advancing
    <3>2. CASE status[s] # "AWAITING_PAYMENT"
      <4>1. preq[r].payment \in Payments
        BY <2>4 DEF AdvanceGate, PayHandlers, HandlerSound
      <4>2. payment[preq[r].payment].status # "NONE" /\ payment[preq[r].payment].stage = s
        BY <1>2, <2>4 DEF AdvanceGate, PayHandlers, HandlerSound, PayPoints, Creating
      <4>3. PastFee(s)
        BY <3>2, <4>1, <4>2 DEF FeeOpen, PastFee
      <4> QED
        BY <4>3, PastFeeStays
    <3> QED
      BY <3>1, <3>2
  <2>5. PayResume(r) => PayAuditRecord(r) \/ AdvanceGate(r)
    BY <1>2 DEF PayResume, PaynowAccepts, PaynowSimulates, CreatePayment, Poll, PollPosted,
       Polled, FindPayment,
       WritePaid, WriteFailed
  <2> QED
    BY <2>1, <2>2, <2>3, <2>4, <2>5, PayHandlerSteps
<1>3. CASE req[r].pc = "markPaid" /\ req[r].stage = s
  <2>1. CASE req'[r] = req[r]
    BY <1>3, <2>1 DEF Advancing
  <2>2. CASE GateStep(r)
    <3>1. MarkPaidWrite(r)
      BY <1>3, <2>2 DEF GateStep, Free, IsIdle, Resume, BookWrite, ReRequestWrite,
         SignOffFindInspection, SignOffCommit, UnlockFind, UnlockWrite, CertificateCreate,
         CompletePermit, AuditRecord, AuditPoints
    <3>2. status' = [status EXCEPT ![s] = "PAID_AWAITING_INSPECTION"]
      BY <1>3, <3>1 DEF MarkPaidWrite, SetStatus
    <3>3. status'[s] = "PAID_AWAITING_INSPECTION"
      BY <1>1, <3>2
    <3> QED
      BY <3>3 DEF PastFee
  <2>3. CASE AdvanceGate(r)
    <3>1. UNCHANGED gateVars
      BY <1>3, <2>3 DEF AdvanceGate, MarkPaidLoad, IsIdle
    <3>2. req'[r].pc = "markPaid" /\ req'[r].stage = s
      BY <1>3, <3>1 DEF gateVars
    <3> QED
      BY <3>2 DEF Advancing
  <2> QED
    BY <2>1, <2>2, <2>3, GateHandlerSteps DEF GateInv
<1> QED
  BY <1>2, <1>3

LEMMA AdvanceStep ==
    ASSUME GateInv, [Next]_vars, PayFacts, TimerInv, AdvanceInv, [PayWork]_allVars
    PROVE  AdvanceInv'
<1> USE DEF PayFacts
<1>0. [PayNext]_allVars /\ FeeOpen
  BY WorkIsNext DEF AdvanceInv
<1>1. ASSUME NEW p \in Payments, NEW s \in Stages, payment'[p].paidAt, payment'[p].stage = s
      PROVE  PastFee(s)' \/ Advancing(s)'
  <2>1. CASE payment[p].paidAt
    <3>1. payment[p].stage = s
      BY <1>0, <1>1, <2>1, RowsStay DEF RowsWait
    <3>2. PastFee(s) \/ Advancing(s)
      BY <2>1, <3>1 DEF AdvanceInv
    <3> QED
      BY <1>0, <3>2, PastFeeStays, AdvancingStays
  <2>2. CASE ~payment[p].paidAt
    <3>1. PICK r \in Requests : CreatePayment(r) \/ WritePaid(r) \/ WriteFailed(r)
      BY <1>0, <1>1, <2>2, RowWriters
    <3>2. WritePaid(r) /\ p = preq[r].payment
      BY <1>1, <2>2, <3>1 DEF CreatePayment, WritePaid, WriteFailed, PayShape, PaymentRow
    <3>3. payment[p].status # "NONE" /\ payment[p].stage = preq[r].stage
      BY <3>2 DEF WritePaid, PayHandlers, HandlerSound, PayPoints, Creating
    <3>4. preq[r].stage = s
      BY <1>0, <1>1, <3>3, RowsStay
    <3>5. preq'[r].pc = "auditPaymentPaid" /\ preq'[r].stage = s
      BY <3>2, <3>4 DEF WritePaid, PayGoto, PayShape, PayRequest
    <3> QED
      BY <3>5 DEF Advancing
  <2> QED
    BY <2>1, <2>2
<1>2. FeeOpen'
  BY <1>0, FeeOpenStep
<1>3. \A p \in Payments : payment'[p].stage \in Stages
  BY <1>0, PayRowsTyped DEF PaymentRow
<1>4. \A p \in Payments : payment'[p].paidAt =>
         PastFee(payment[p].stage)' \/ Advancing(payment[p].stage)'
  BY <1>1, <1>3 DEF PastFee, Advancing
<1> QED
  BY <1>2, <1>4 DEF AdvanceInv

\* What every run of a live server keeps.
PayRunInv == GateInv /\ PayFacts /\ TimerInv

LEMMA PayRun ==
    PayInit /\ [][PayWork]_allVars
        => PaySpec /\ [][Next]_vars /\ []PayRunInv
<1>1. PayInit /\ [][PayWork]_allVars => PaySpec
  BY WorkIsNext, PTL DEF PaySpec
<1>2. PayFacts /\ GateInv /\ TimerInv /\ [PayNext]_allVars => TimerInv'
  BY TimerStep DEF PayFacts, GateInv
<1>3. PaySpec => []GateInv /\ [][Next]_vars
  BY PaymentsKeepGate, GateInvariant, PTL DEF Spec
<1> QED
  BY <1>1, <1>2, <1>3, TimerInit, PayGateInvariant, PTL DEF PaySpec, PayRunInv

LEMMA PaidAdvances == PayInit /\ [][PayWork]_allVars => []PaidAdvancesStage
<1>1. PayRunInv /\ AdvanceInv /\ [Next]_vars /\ [PayWork]_allVars => AdvanceInv'
  BY AdvanceStep DEF PayRunInv
<1>2. AdvanceInv => PaidAdvancesStage
  BY DEF AdvanceInv, PaidAdvancesStage, PastFee
<1> QED
  BY <1>1, <1>2, PayRun, AdvanceInit, PTL

\* While the process lives, no money taken is left behind: the stage of a paid
\* payment has moved on or a handler is about to move it, for any number of
\* payments, stages and handlers.
THEOREM MoneyMovesStage == PayHealthySpec => []PaidAdvancesStage
BY PaidAdvances, PTL DEF PayHealthySpec

-----------------------------------------------------------------------------
(* What Paynow says of a payment with a poll URL, as long as callbacks carry no  *)
(* other transaction's URL and no empty one.                                     *)

OwnUrls == PostedUrls \subseteq {"absent", "own"}

Refused == {"cancelled", "failed"}

\* The row says nothing of the money that Paynow has not said ...
RowAgrees(p) ==
    payment[p].mode = "live" =>
        /\ payment[p].status = "PAID" \/ payment[p].paidAt => txn[p] = "paid"
        /\ payment[p].status = "CANCELLED" => txn[p] = "cancelled"
        /\ payment[p].status = "FAILED" => txn[p] = "failed"

\* ... and neither do the handlers on their way to it.
HandlerAgrees(r) ==
    LET q == preq[r] IN
    /\ q.pc # "pollPosted"
    /\ q.pc \in {"findPayment", "writePaid", "writeFailed"} /\ payment[q.payment].mode = "live" =>
          IF q.pc = "writeFailed" THEN q.answer \in Refused /\ txn[q.payment] = q.answer
                                  ELSE txn[q.payment] = "paid"

AgreeInv == /\ \A p \in Payments : RowAgrees(p)
            /\ \A r \in Requests : HandlerAgrees(r)

LEMMA AgreeInit == PayInit => AgreeInv
<1> SUFFICES ASSUME PayInit PROVE AgreeInv
  OBVIOUS
<1>1. \A r \in Requests : preq[r].pc = "idle"
  BY DEF PayInit, PayIdle
<1>2. \A p \in Payments : payment[p].mode = "simulated"
  BY DEF PayInit, NoRow, SeededPayment
<1> QED
  BY <1>1, <1>2 DEF AgreeInv, RowAgrees, HandlerAgrees

\* The steps, failures included, that change what a payment handler carries.
LEMMA PayHandlerFaults ==
    ASSUME PayShape, [PayNext]_allVars, NEW r \in Requests
    PROVE  \/ preq'[r] = preq[r] \/ preq'[r] = PayIdle
           \/ PayArrive(r) \/ PayResume(r)
           \/ PayAuditSwallow(r) \/ PaynowAnswerLost(r)
           \/ r \in Payments /\ TimerFires(r)
<1> USE DEF PayShape
<1>1. CASE [PayWork]_allVars
  BY <1>1, PayHandlerSteps
<1>2. ASSUME NEW t \in Requests, PayAuditSwallow(t) \/ PaynowAnswerLost(t), t # r
      PROVE  preq'[r] = preq[r]
  BY <1>2 DEF PayAuditSwallow, PaynowAnswerLost, AfterPayAudit, PayAnswered, PayGoto, PayReturn
<1>3. ASSUME NEW t \in Requests, PayCallFails(t)
      PROVE  preq'[r] = preq[r] \/ preq'[r] = PayIdle
  BY <1>3 DEF PayCallFails, PayReturn
<1>4. ASSUME NEW t \in Requests, GateFault(t) PROVE preq'[r] = preq[r]
  BY <1>4 DEF GateFault
<1>5. CASE PayCrash
  BY <1>5 DEF PayCrash
<1> QED
  BY <1>1, <1>2, <1>3, <1>4, <1>5 DEF PayNext, PayFault

\* What Paynow has settled of an existing payment stays settled.
LEMMA TxnRests ==
    ASSUME PayShape, PayHandlers, [PayNext]_allVars, NEW p \in Payments,
           payment[p].status # "NONE", txn[p] \in Settled
    PROVE  txn'[p] = txn[p]
<1>1. ASSUME NEW r \in Requests, PaynowAccepts(r) \/ PaynowAnswerLost(r)
      PROVE  txn'[p] = txn[p]
  BY <1>1 DEF PaynowAccepts, PaynowAnswerLost, PayShape, PayHandlers, HandlerSound, Creating
<1>2. ASSUME NEW u \in Payments, PaynowSettles(u) PROVE txn'[p] = txn[p]
  BY <1>2 DEF PaynowSettles, PayShape, Settled
<1> QED
  BY <1>1, <1>2 DEF PayNext, PayWork, PayFault, GateStep, PayArrive, PayResume,
     GateFault, InitiateLoad, GetStatusLoad, ConfirmLoad, CallbackLoad, PaynowSimulates,
     CreatePayment, WritePaid, WriteFailed, Poll, PollPosted, FindPayment, PayAuditRecord,
     AdvanceGate, TimerFires, PayAuditSwallow, PayCallFails, PayCrash, payRows, allVars

\* Who comes to settle a payment with a poll URL has Paynow's word for it.
LEMMA HandlerAgreesStep ==
    ASSUME OwnUrls, PayShape, PayHandlers, RowsWait, TimerInv, AgreeInv, [PayNext]_allVars,
           NEW r \in Requests
    PROVE  HandlerAgrees(r)'
<1> USE DEF PayShape
<1>0. /\ HandlerAgrees(r) /\ HandlerSound(r)
      /\ preq \in [Requests -> PayRequest] /\ preq[r] \in PayRequest
      /\ payment \in [Payments -> PaymentRow]
  BY DEF AgreeInv, PayHandlers
<1> DEFINE Settling == {"findPayment", "writePaid", "writeFailed"}
<1>1. CASE preq'[r] = preq[r]
  <2>1. CASE preq[r].pc \notin Settling
    BY <1>0, <1>1, <2>1 DEF HandlerAgrees
  <2>2. CASE preq[r].pc \in Settling
    <3>1. preq[r].payment \in Payments /\ payment[preq[r].payment].status # "NONE"
      BY <1>0, <2>2 DEF HandlerSound, PayPoints, Creating
    <3>2. payment'[preq[r].payment].mode = payment[preq[r].payment].mode
      BY <3>1, RowsStay
    <3>3. txn[preq[r].payment] \in Settled => txn'[preq[r].payment] = txn[preq[r].payment]
      BY <3>1, TxnRests
    <3> QED
      BY <1>0, <1>1, <3>2, <3>3 DEF HandlerAgrees, Settled, Refused
  <2> QED
    BY <2>1, <2>2
<1>2. ASSUME preq'[r].pc \notin Settling \union {"pollPosted"} PROVE HandlerAgrees(r)'
  BY <1>2 DEF HandlerAgrees
<1>3. ASSUME NEW p \in Payments, NEW pc \in {"poll", "findPayment", "writeFailed"}, NEW a,
             PayBegin(r, pc, p, a), UNCHANGED payment, pc = "poll" \/ payment[p].mode # "live"
      PROVE  HandlerAgrees(r)'
  BY <1>0, <1>3 DEF PayBegin, HandlerAgrees
<1>4. ASSUME NEW p \in Payments, CallbackLoad(r, p) PROVE HandlerAgrees(r)'
  <2>1. PICK url \in PostedUrls :
           \/ PayBegin(r, "poll", p, "live")
           \/ PollsPosted(p, url)
           \/ /\ ~PollsOwn(p, url)
              /\ \E posted \in Settled :
                    PayBegin(r, IF posted = "paid" THEN "findPayment" ELSE "writeFailed", p, posted)
    BY <1>4 DEF CallbackLoad
  <2>2. url \in {"absent", "own"} /\ UNCHANGED payment
    BY <1>4 DEF OwnUrls, CallbackLoad, payRows
  <2>3. ~PollsPosted(p, url) /\ (~PollsOwn(p, url) => payment[p].mode # "live")
    BY <2>2 DEF PollsPosted, PollsOwn
  <2> QED
    BY <1>3, <2>1, <2>2, <2>3
<1>5. CASE PayArrive(r)
  <2> PICK p \in Payments : \/ \E s \in Stages : InitiateLoad(r, s, p)
                            \/ GetStatusLoad(r, p) \/ ConfirmLoad(r, p) \/ CallbackLoad(r, p)
    BY <1>5 DEF PayArrive
  <2>1. ASSUME NEW s \in Stages, InitiateLoad(r, s, p) PROVE HandlerAgrees(r)'
    BY <1>0, <1>2, <2>1 DEF InitiateLoad
  <2>2. CASE GetStatusLoad(r, p)
    BY <1>3, <2>2 DEF GetStatusLoad, payRows
  <2>3. CASE ConfirmLoad(r, p)
    BY <1>3, <2>3 DEF ConfirmLoad, payRows
  <2> QED
    BY <1>4, <2>1, <2>2, <2>3
<1>6. CASE PaynowAccepts(r) \/ PaynowSimulates(r) \/ PaynowAnswerLost(r)
  BY <1>0, <1>2, <1>6 DEF PaynowAccepts, PaynowSimulates, PaynowAnswerLost, PayAnswered,
     PayRequest
<1>7. CASE CreatePayment(r) \/ WritePaid(r) \/ WriteFailed(r)
  BY <1>0, <1>2, <1>7 DEF CreatePayment, WritePaid, WriteFailed, PayGoto, PayRequest
<1>8. CASE preq'[r] = PayIdle
  BY <1>2, <1>8 DEF PayIdle
<1>9. CASE PayAuditRecord(r) \/ PayAuditSwallow(r) \/ AdvanceGate(r)
  BY <1>0, <1>2, <1>8, <1>9
     DEF PayAuditRecord, PayAuditSwallow, AdvanceGate, AfterPayAudit, PayGoto, PayReturn,
     PayRequest
<1>10. CASE Poll(r)
  <2>1. UNCHANGED <<payment, txn>>
    BY <1>10 DEF Poll, payRows
  <2>2. CASE txn[preq[r].payment] = "paid" /\ PayGoto(r, "findPayment")
    BY <1>0, <2>1, <2>2 DEF PayGoto, PayRequest, HandlerAgrees
  <2>3. CASE txn[preq[r].payment] \in Refused
             /\ PayAnswered(r, "writeFailed", txn[preq[r].payment])
    BY <1>0, <2>1, <2>3 DEF PayAnswered, PayRequest, HandlerAgrees
  <2> QED
    BY <1>0, <1>8, <1>10, <2>2, <2>3 DEF Poll, Polled, PayReturn, Refused
<1>11. ~PollPosted(r)
  BY <1>0 DEF PollPosted, HandlerAgrees
<1>12. CASE FindPayment(r)
  <2>1. UNCHANGED <<payment, txn>>
    BY <1>12 DEF FindPayment, payRows
  <2>2. CASE PayGoto(r, "writePaid")
    BY <1>0, <1>12, <2>1, <2>2 DEF FindPayment, PayGoto, PayRequest, HandlerAgrees
  <2> QED
    BY <1>0, <1>8, <1>12, <2>2 DEF FindPayment, PayReturn
<1>13. CASE r \in Payments /\ TimerFires(r)
  BY <1>3, <1>13 DEF TimerFires, TimerInv
<1> QED
  BY <1>1, <1>5, <1>6, <1>7, <1>8, <1>9, <1>10, <1>11, <1>12, <1>13,
     PayHandlerFaults DEF PayResume

\* Every write of a row agrees with Paynow.
LEMMA RowAgreesStep ==
    ASSUME PayShape, PayHandlers, AgreeInv, [PayNext]_allVars, RowsWait', NEW p \in Payments
    PROVE  RowAgrees(p)'
<1>0. /\ RowAgrees(p) /\ payment \in [Payments -> PaymentRow]
      /\ payment' \in [Payments -> PaymentRow]
  BY PayRowsTyped DEF AgreeInv, PayShape
<1>1. CASE payment'[p].status = "NONE"
  BY <1>1 DEF RowAgrees, RowsWait
<1>2. CASE payment'[p] = payment[p] /\ payment[p].status # "NONE"
  <2>1. txn[p] \in Settled => txn'[p] = txn[p]
    BY <1>2, TxnRests
  <2> QED
    BY <1>0, <1>2, <2>1 DEF RowAgrees, Settled
<1>3. ASSUME NEW r \in Requests, CreatePayment(r), payment'[p] # payment[p]
      PROVE  RowAgrees(p)'
  BY <1>0, <1>3 DEF CreatePayment, RowAgrees
<1>4. ASSUME NEW r \in Requests, WritePaid(r), payment'[p] # payment[p]
      PROVE  RowAgrees(p)'
  <2>1. p = preq[r].payment /\ UNCHANGED txn /\ preq[r].pc = "writePaid"
    BY <1>0, <1>4 DEF WritePaid
  <2>2. payment[p].mode = "live" => txn[p] = "paid"
    BY <2>1 DEF AgreeInv, HandlerAgrees
  <2>3. payment'[p].mode = payment[p].mode /\ payment'[p].status = "PAID"
    BY <1>0, <1>4, <2>1 DEF WritePaid, PaymentRow
  <2> QED
    BY <2>1, <2>2, <2>3 DEF RowAgrees
<1>5. ASSUME NEW r \in Requests, WriteFailed(r), payment'[p] # payment[p]
      PROVE  RowAgrees(p)'
  <2>1. p = preq[r].payment /\ UNCHANGED txn /\ preq[r].pc = "writeFailed"
    BY <1>0, <1>5 DEF WriteFailed
  <2>2. payment[p].mode = "live" => preq[r].answer \in Refused /\ txn[p] = preq[r].answer
    BY <2>1 DEF AgreeInv, HandlerAgrees
  <2>3. /\ payment'[p].mode = payment[p].mode /\ payment'[p].paidAt = payment[p].paidAt
        /\ payment'[p].status = IF preq[r].answer = "cancelled" THEN "CANCELLED" ELSE "FAILED"
    BY <1>0, <1>5, <2>1 DEF WriteFailed, PaymentRow
  <2> QED
    BY <1>0, <2>1, <2>2, <2>3 DEF RowAgrees, Refused
<1> QED
  BY <1>1, <1>2, <1>3, <1>4, <1>5, RowWriters

LEMMA AgreeStep ==
    ASSUME OwnUrls, PayFacts, TimerInv, AgreeInv, [PayNext]_allVars
    PROVE  AgreeInv'
<1>1. RowsWait'
  BY PayFactsStep DEF PayFacts
<1>2. \A p \in Payments : RowAgrees(p)'
  BY <1>1, RowAgreesStep DEF PayFacts
<1>3. \A r \in Requests : HandlerAgrees(r)'
  BY HandlerAgreesStep DEF PayFacts
<1> QED
  BY <1>2, <1>3 DEF AgreeInv

\* Two handlers that settle a payment write the same: Paynow's word does not change.
LEMMA SettledStays ==
    ASSUME PayShape, PayHandlers, AgreeInv, [PayNext]_allVars, NEW p \in Payments,
           payment[p].mode = "live", payment[p].status \in {"PAID", "CANCELLED", "FAILED"}
    PROVE  payment'[p].status = payment[p].status
<1>0. RowAgrees(p) /\ payment \in [Payments -> PaymentRow]
  BY DEF AgreeInv, PayShape
<1>1. ASSUME NEW r \in Requests, CreatePayment(r) PROVE payment'[p] = payment[p]
  BY <1>0, <1>1 DEF CreatePayment, PayHandlers, HandlerSound, Creating
<1>2. ASSUME NEW r \in Requests, WritePaid(r) PROVE payment'[p].status = payment[p].status
  <2>1. p = preq[r].payment => txn[p] = "paid"
    BY <1>2 DEF WritePaid, AgreeInv, HandlerAgrees
  <2> QED
    BY <1>0, <1>2, <2>1 DEF WritePaid, RowAgrees
<1>3. ASSUME NEW r \in Requests, WriteFailed(r) PROVE payment'[p].status = payment[p].status
  <2>1. p = preq[r].payment => preq[r].answer \in Refused /\ txn[p] = preq[r].answer
    BY <1>3 DEF WriteFailed, AgreeInv, HandlerAgrees
  <2> QED
    BY <1>0, <1>3, <2>1 DEF WriteFailed, RowAgrees, Refused
<1> QED
  BY <1>1, <1>2, <1>3, RowWriters

LEMMA AgreeInvariant == ASSUME OwnUrls PROVE PaySpec => [](PayFacts /\ AgreeInv)
<1>1. PayFacts /\ GateInv /\ TimerInv /\ [PayNext]_allVars => TimerInv'
  BY TimerStep DEF PayFacts, GateInv
<1>2. PayFacts /\ TimerInv /\ AgreeInv /\ [PayNext]_allVars => AgreeInv'
  BY AgreeStep
<1>3. PaySpec => []GateInv
  BY PaymentsKeepGate, GateInvariant, PTL
<1> QED
  BY <1>1, <1>2, <1>3, TimerInit, AgreeInit, PayGateInvariant, PTL DEF PaySpec

\* Whatever status callbacks post and wherever handlers die, a payment with a poll
\* URL is marked paid only if Paynow holds the money, as long as no callback
\* carries an empty poll URL or another transaction's.
THEOREM LiveFeesArePaid == ASSUME OwnUrls PROVE PaySpec => []LivePaidIsMoney
<1>1. AgreeInv => LivePaidIsMoney
  BY DEF AgreeInv, RowAgrees, LivePaidIsMoney
<1> QED
  BY <1>1, AgreeInvariant, PTL

\* Under the same callbacks a settled payment with a poll URL keeps its status,
\* for any number of handlers that settle it again.
THEOREM SettlementIsFinal == ASSUME OwnUrls PROVE PaySpec => SettledIsFinal
<1> DEFINE Final == \A p \in Payments :
              payment[p].mode = "live" /\ payment[p].status \in {"PAID", "CANCELLED", "FAILED"}
                  => payment'[p].status = payment[p].status
<1>1. PayFacts /\ AgreeInv /\ [PayNext]_allVars => [Final]_allVars
  BY SettledStays DEF PayFacts
<1>2. PaySpec => [][Final]_allVars
  BY <1>1, AgreeInvariant, PTL DEF PaySpec
<1> QED
  BY <1>2 DEF SettledIsFinal

=============================================================================
