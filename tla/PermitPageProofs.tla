--------------------------- MODULE PermitPageProofs ---------------------------
(***************************************************************************)
(* The applicant's page is one more client of the payments, it reports     *)
(* success only for a paid payment of the stage it names, and never shows  *)
(* a stage ahead of the server: for every number of stages, payments and   *)
(* handlers.                                                                *)
(***************************************************************************)
EXTENDS PermitPage, PaymentsProofs

-----------------------------------------------------------------------------
(* What the dialog and the handlers that serve it know of each other. *)

ScreenType == [kind : Kinds, stage : Stages, step : Steps, payment : Payments \union {NoPayment}]

\* Where a handler of initiate stands, and one of getStatus.
Initiates == {"askPaynow", "createPayment", "auditInitiated"}
Asks == {"poll", "findPayment", "writePaid", "auditPaymentPaid", "advanceGate", "writeFailed",
         "auditFailed"}

\* The payment the dialog waits for, or reports, is one of its own stage.
OwnPayment ==
    /\ screen.payment \in Payments
    /\ payment[screen.payment].status # "NONE"
    /\ payment[screen.payment].stage = screen.stage

\* A handler that serves the poll works on the dialog's payment, or has paid it
\* and moves the gate.
ServesPoll(r) ==
    \/ preq[r].pc \in Asks /\ preq[r].payment = screen.payment /\ IsIdle(r)
    \/ preq[r].pc = "idle" /\ ~IsIdle(r) /\ payment[screen.payment].paidAt

Serves(r) ==
    /\ calls[r] \in {"initiate", "abandoned"} => preq[r].pc \in Initiates /\ IsIdle(r)
    /\ calls[r] = "initiate" => Paying("choose-method") /\ preq[r].stage = screen.stage
    /\ calls[r] = "poll" => poll = "serving" /\ ServesPoll(r)

DialogInv ==
    /\ screen \in ScreenType
    /\ calls \in [HttpRequests -> Calls]
    /\ poll # "off" <=> Paying("pending")
    /\ Paying("pending") \/ Paying("success") => OwnPayment
    /\ poll = "PAID" \/ Paying("success") => payment[screen.payment].paidAt
    /\ \A r \in HttpRequests : Serves(r)
    /\ \A r, t \in HttpRequests : calls[r] = calls[t] /\ calls[r] \in {"initiate", "poll"} => r = t

\* markPaid writes the status and the date in one update.
PaidIsDated == \A p \in Payments : payment[p].status = "PAID" => payment[p].paidAt

LEMMA PageInitFacts == PageInit => DialogInv /\ PaidIsDated
<1> SUFFICES ASSUME PageInit PROVE DialogInv /\ PaidIsDated
  OBVIOUS
<1>1. DialogInv
  BY StagesFacts DEF PageInit, DialogInv, PermitScreen, Screen, ScreenType, Kinds, Steps, NoCalls,
     Calls, Paying, Serves
<1>2. PaidIsDated
  BY DEF PageInit, PayInit, PaidIsDated, NoRow, SeededPayment
<1> QED
  BY <1>1, <1>2

LEMMA PaidIsDatedStep ==
    ASSUME PayFacts, PaidIsDated, [PayNext]_allVars
    PROVE  PaidIsDated'
<1>1. ASSUME NEW r \in Requests, CreatePayment(r) PROVE PaidIsDated'
  BY <1>1 DEF CreatePayment, PaidIsDated, PayFacts, PayShape
<1>2. ASSUME NEW r \in Requests, WritePaid(r) \/ WriteFailed(r) PROVE PaidIsDated'
  BY <1>2 DEF WritePaid, WriteFailed, PaidIsDated, PayFacts, PayShape, PaymentRow
<1> QED
  BY <1>1, <1>2, RowWriters DEF PaidIsDated

-----------------------------------------------------------------------------
(* Every step of the page is a step of the payments, or leaves them alone. *)

LEMMA PaymentsOfStep == DialogInv /\ [PageNext]_pagedVars => [PayWork]_allVars /\ [PayNext]_allVars
<1> SUFFICES ASSUME DialogInv, [PageNext]_pagedVars PROVE [PayWork]_allVars
  BY WorkIsNext
<1> USE DEF PayWork
<1>1. /\ screen.stage \in Stages
      /\ Paying("pending") => screen.payment \in Payments
      /\ poll = "asked" => Paying("pending")
      /\ \A r \in HttpRequests : r \in Requests
  BY DEF DialogInv, ScreenType, OwnPayment, HttpRequests
<1>2. ASSUME NEW r \in HttpRequests, NEW p \in Payments, Initiate(r, p) PROVE [PayWork]_allVars
  BY <1>1, <1>2 DEF Initiate, PayArrive
<1>3. ASSUME NEW r \in HttpRequests, Confirm(r) \/ PollServed(r) PROVE [PayWork]_allVars
  BY <1>1, <1>3 DEF Confirm, PollServed, PayArrive
<1>4. ASSUME NEW r \in HttpRequests, Book(r) PROVE [PayWork]_allVars
  BY <1>1, <1>4 DEF Book, GateStep, UserRequest
<1>5. ASSUME NEW r \in Requests, Serve(r) PROVE [PayWork]_allVars
  BY <1>5 DEF Serve, GateStep
<1>6. ASSUME NEW r \in Requests, Elsewhere(r) PROVE [PayWork]_allVars
  BY <1>6 DEF Elsewhere, PayArrive
<1>7. ASSUME NEW p \in Payments, TimerFires(p) \/ PaynowSettles(p) PROVE [PayWork]_allVars
  BY <1>7
<1>8. CASE UNCHANGED allVars
  BY <1>8
<1> QED
  BY <1>2, <1>3, <1>4, <1>5, <1>6, <1>7, <1>8 DEF PageNext, PageActs, PageRuns, OpenPage,
     LeavePage, OpenPayDialog, OpenBookDialog, InitiateRefused, TryAgain, CloseDialog, LoadServed,
     LoadShown, PollRead, PollHears, PollWaits, PollAgain, PollLost, InitiateLost, pagedVars

-----------------------------------------------------------------------------
(* The dialog's own steps: the server does not move. *)

LEMMA DialogAloneStep ==
    ASSUME PayFacts, DialogInv, PaidIsDated, UNCHANGED allVars,
           \/ OpenPage \/ LeavePage \/ LoadServed \/ LoadShown
           \/ \E s \in Stages : OpenPayDialog(s) \/ OpenBookDialog(s)
           \/ InitiateRefused \/ TryAgain \/ CloseDialog
           \/ PollRead \/ PollHears \/ PollWaits \/ PollAgain \/ PollLost
           \/ \E r \in HttpRequests : InitiateLost(r)
    PROVE  DialogInv'
<1> USE StagesFacts DEF DialogInv, ScreenType, Kinds, Steps, Calls, Paying, OwnPayment, Serves,
        ServesPoll, IsIdle, allVars, gateVars, payRows
<1>1. CASE OpenPage \/ LoadServed \/ LoadShown
  BY <1>1 DEF OpenPage, LoadServed, LoadShown, PermitScreen, Screen
<1>2. CASE LeavePage
  BY <1>2 DEF LeavePage, Unload, Away, Screen, NoCalls
<1>3. ASSUME NEW s \in Stages, OpenPayDialog(s) \/ OpenBookDialog(s) PROVE DialogInv'
  BY <1>3 DEF OpenPayDialog, OpenBookDialog, Screen
<1>4. CASE InitiateRefused \/ TryAgain
  BY <1>4 DEF InitiateRefused, TryAgain, DialogFails
<1>5. CASE CloseDialog
  BY <1>5 DEF CloseDialog, PermitScreen, Screen
<1>6. CASE PollRead
  <2>1. payment[screen.payment].status \in {"NONE", "PENDING", "PAID", "FAILED", "CANCELLED"}
    BY <1>6 DEF PollRead, PayFacts, PayShape, PaymentRow
  <2>2. \A r \in HttpRequests : calls[r] # "poll"
    BY <1>6 DEF PollRead
  <2> QED
    BY <1>6, <2>1, <2>2 DEF PollRead, PaidIsDated
<1>7. CASE PollHears
  BY <1>7 DEF PollHears, DialogFails
<1>8. CASE PollWaits \/ PollAgain \/ PollLost
  BY <1>8 DEF PollWaits, PollAgain, PollLost
<1>9. ASSUME NEW r \in HttpRequests, InitiateLost(r) PROVE DialogInv'
  BY <1>9 DEF InitiateLost, DialogFails
<1> QED
  BY <1>1, <1>2, <1>3, <1>4, <1>5, <1>6, <1>7, <1>8, <1>9

-----------------------------------------------------------------------------
(* Steps of the server. *)

\* What the page may rely on of the server.
ServerInv == TypeOK /\ Rested /\ PayFacts /\ PaidIsDated

\* The dialog's payment keeps its stage, and stays paid.
LEMMA OwnPaymentStays ==
    ASSUME PayFacts, [PayNext]_allVars, OwnPayment
    PROVE  /\ payment'[screen.payment].status # "NONE"
           /\ payment'[screen.payment].stage = screen.stage
           /\ payment[screen.payment].paidAt => payment'[screen.payment].paidAt
BY RowsStay DEF PayFacts, OwnPayment

\* A handler that is not disturbed serves on.
LEMMA StaysServing ==
    ASSUME PayFacts, DialogInv, [PayNext]_allVars, UNCHANGED <<screen, poll>>,
           NEW r \in HttpRequests,
           preq'[r] = preq[r], req'[r] = req[r], calls'[r] = calls[r]
    PROVE  Serves(r)'
<1>1. calls[r] = "poll" => OwnPayment
  BY DEF DialogInv, Serves
<1> QED
  BY <1>1, OwnPaymentStays DEF DialogInv, Serves, ServesPoll, Paying, IsIdle

\* The page stands still: only its handlers must be looked at.
LEMMA PageStands ==
    ASSUME PayFacts, DialogInv, [PayNext]_allVars, UNCHANGED pageVars,
           \A r \in HttpRequests : Serves(r)'
    PROVE  DialogInv'
<1>1. Paying("pending") \/ Paying("success") => OwnPayment
  BY DEF DialogInv
<1>2. poll = "PAID" => Paying("pending")
  BY DEF DialogInv
<1> QED
  BY <1>1, <1>2, OwnPaymentStays DEF DialogInv, OwnPayment, Paying, pageVars

\* A handler that is free serves no call of the dialog.
LEMMA FreeServesNone ==
    ASSUME DialogInv, NEW r \in HttpRequests, Free(r)
    PROVE  calls[r] \notin {"initiate", "abandoned", "poll"}
BY DEF DialogInv, Serves, ServesPoll, Free, Initiates, Asks

\* A step of handler r leaves the other handlers where they are.
LEMMA OthersWait ==
    ASSUME TypeOK, PayShape, NEW r \in Requests,
           \/ Resume(r) /\ UNCHANGED preq
           \/ PayResume(r)
           \/ PayArrive(r)
           \/ (\E s \in Stages : UserRequest(r, s)) /\ UNCHANGED preq,
           NEW t \in Requests \ {r}
    PROVE  preq'[t] = preq[t] /\ req'[t] = req[t]
<1>1. CASE Resume(r) /\ UNCHANGED preq
  BY <1>1 DEF TypeOK, Resume, MarkPaidWrite, BookWrite, ReRequestWrite, SignOffFindInspection,
     SignOffCommit, UnlockFind, UnlockWrite, CertificateCreate, CompletePermit, AuditRecord,
     AfterAudit, Goto, Return
<1>2. CASE PayResume(r)
  BY <1>2 DEF TypeOK, PayShape, PayResume, PaynowAccepts, PaynowSimulates, CreatePayment, Poll,
     PollPosted, Polled, FindPayment, WritePaid, WriteFailed, PayAuditRecord, AfterPayAudit, AdvanceGate, MarkPaidLoad,
     Begin, PayGoto, PayAnswered, PayReturn, gateVars
<1>3. CASE PayArrive(r)
  BY <1>3 DEF PayShape, PayArrive, InitiateLoad, GetStatusLoad, ConfirmLoad, CallbackLoad,
     PayBegin, gateVars
<1>4. CASE (\E s \in Stages : UserRequest(r, s)) /\ UNCHANGED preq
  BY <1>4 DEF TypeOK, UserRequest, BookLoad, SignOffLoad, ReRequestLoad, Begin
<1> QED
  BY <1>1, <1>2, <1>3, <1>4

\* Calls that are not the dialog's, timers and payers.
LEMMA ElsewhereStep ==
    ASSUME ServerInv, DialogInv, [PayNext]_allVars, UNCHANGED pageVars,
           \/ \E r \in Requests : Elsewhere(r)
           \/ \E r \in HttpRequests : Confirm(r)
           \/ \E p \in Payments : TimerFires(p) \/ PaynowSettles(p)
    PROVE  DialogInv'
<1> SUFFICES ASSUME NEW t \in HttpRequests PROVE Serves(t)'
  BY PageStands DEF ServerInv
<1>1. t \in Requests \ Payments
  BY DEF HttpRequests
<1>2. ASSUME NEW r \in Requests, Free(r), r \in HttpRequests,
             \/ PayArrive(r)
             \/ (\E s \in Stages : UserRequest(r, s)) /\ UNCHANGED preq
      PROVE  Serves(t)'
  <2>1. CASE t = r
    BY <1>2, <2>1, FreeServesNone DEF Serves, pageVars
  <2>2. CASE t # r
    <3>1. preq'[t] = preq[t] /\ req'[t] = req[t]
      BY <1>1, <1>2, <2>2, OthersWait DEF ServerInv, PayFacts
    <3> QED
      BY <3>1, StaysServing DEF ServerInv, pageVars
  <2> QED
    BY <2>1, <2>2
<1>3. ASSUME NEW r \in Requests, Elsewhere(r) PROVE Serves(t)'
  <2>1. ~Resume(r)
    BY <1>3 DEF Elsewhere, IsIdle, Resume, MarkPaidWrite, BookWrite, ReRequestWrite,
       SignOffFindInspection, SignOffCommit, UnlockFind, UnlockWrite, CertificateCreate,
       CompletePermit, AuditRecord, AuditPoints
  <2> QED
    BY <1>2, <1>3, <2>1 DEF Elsewhere, GateStep, PayArrive, CallbackLoad
<1>4. ASSUME NEW r \in HttpRequests, Confirm(r) PROVE Serves(t)'
  <2>1. screen.payment \in Payments /\ r \in Requests
    BY <1>4 DEF Confirm, DialogInv, OwnPayment, HttpRequests
  <2> QED
    BY <1>2, <1>4, <2>1 DEF Confirm, ConfirmLoad, PayArrive
<1>5. ASSUME NEW p \in Payments, TimerFires(p) \/ PaynowSettles(p) PROVE Serves(t)'
  <2>1. preq'[t] = preq[t] /\ req'[t] = req[t]
    BY <1>1, <1>5 DEF TimerFires, PaynowSettles, PayBegin, gateVars, ServerInv, PayFacts, PayShape
  <2> QED
    BY <2>1, StaysServing DEF ServerInv, pageVars
<1> QED
  BY <1>3, <1>4, <1>5

\* The page calls: a free handler takes the call up.
LEMMA CallStep ==
    ASSUME ServerInv, DialogInv, [PayNext]_allVars, NEW r \in HttpRequests,
           (\E p \in Payments : Initiate(r, p)) \/ PollServed(r) \/ Book(r)
    PROVE  DialogInv'
<1> USE DEF ServerInv, PayFacts
<1>1. r \in Requests /\ screen.stage \in Stages /\ Free(r)
  BY DEF HttpRequests, DialogInv, ScreenType, Initiate, InitiateLoad, PollServed, GetStatusLoad, Book
<1>2. ASSUME NEW t \in HttpRequests, t # r PROVE preq'[t] = preq[t] /\ req'[t] = req[t]
  BY <1>1, <1>2 DEF HttpRequests, Initiate, InitiateLoad, PollServed, GetStatusLoad, PayBegin,
     Book, BookLoad, Begin, PayShape, TypeOK, gateVars
<1>3. ASSUME NEW t \in HttpRequests, t # r, calls'[t] = calls[t], UNCHANGED <<screen, poll>>
      PROVE  Serves(t)'
  BY <1>2, <1>3, StaysServing
<1>4. Paying("pending") \/ Paying("success") => OwnPayment
  BY DEF DialogInv
<1>5. ASSUME NEW p \in Payments, Initiate(r, p) PROVE DialogInv'
  <2>1. Serves(r)'
    BY <1>1, <1>5 DEF Initiate, InitiateLoad, Serves, Initiates, DialogInv, Paying, PayShape, Free,
       IsIdle, gateVars
  <2>2. \A t \in HttpRequests : t # r => Serves(t)'
    BY <1>3, <1>5 DEF Initiate, DialogInv
  <2> QED
    BY <1>4, <1>5, <2>1, <2>2, OwnPaymentStays DEF Initiate, DialogInv, OwnPayment, Paying, Calls
<1>6. CASE PollServed(r)
  <2>1. Paying("pending") /\ \A t \in HttpRequests : calls[t] \notin {"poll", "initiate"}
    BY <1>6 DEF PollServed, DialogInv, Serves, Paying
  <2>2. Serves(r)'
    BY <1>1, <1>6 DEF PollServed, GetStatusLoad, PayBegin, Serves, ServesPoll, Asks, DialogInv,
       PayShape, Free, IsIdle, gateVars
  <2>3. ASSUME NEW t \in HttpRequests, t # r PROVE Serves(t)'
    BY <1>2, <1>6, <2>1, <2>3 DEF PollServed, DialogInv, Serves, IsIdle
  <2> QED
    BY <1>4, <1>6, <2>1, <2>2, <2>3, OwnPaymentStays DEF PollServed, DialogInv, OwnPayment,
       Paying, Calls
<1>7. CASE Book(r)
  <2>1. Serves(r)'
    BY <1>7 DEF Book, DialogInv, Serves
  <2>2. \A t \in HttpRequests : t # r => Serves(t)'
    BY <1>3, <1>7 DEF Book, DialogInv
  <2> QED
    BY <1>4, <1>7, <2>1, <2>2, OwnPaymentStays DEF Book, DialogInv, OwnPayment, Paying, Calls
<1> QED
  BY <1>5, <1>6, <1>7

\* What a step of a handler that serves the dialog leads to: it serves on, or is
\* done, and what it answers is true.
LEMMA ServingMoves ==
    ASSUME ServerInv, DialogInv, [PayNext]_allVars, NEW r \in HttpRequests,
           (Resume(r) /\ UNCHANGED <<payRows, preq>>) \/ PayResume(r)
    PROVE  /\ calls[r] \in {"initiate", "abandoned"} =>
                 \/ preq'[r].pc \in Initiates /\ IsIdle(r)' /\ preq'[r].stage = preq[r].stage
                 \/ Free(r)' /\ preq[r].pc = "auditInitiated" /\ payment' = payment
           /\ calls[r] = "poll" /\ screen' = screen =>
                 \/ ServesPoll(r)'
                 \/ Free(r)' /\ (StatusAnswer(r) = "PAID" => payment'[screen.payment].paidAt)
<1> USE DEF ServerInv, PayFacts, PayShape, PayRequest
<1>1. r \in Requests
  BY DEF HttpRequests
<1>2. ASSUME calls[r] \in {"initiate", "abandoned"}
      PROVE  \/ preq'[r].pc \in Initiates /\ IsIdle(r)' /\ preq'[r].stage = preq[r].stage
             \/ Free(r)' /\ preq[r].pc = "auditInitiated" /\ payment' = payment
  <2>1. preq[r].pc \in Initiates /\ IsIdle(r)
    BY <1>2 DEF DialogInv, Serves
  <2>2. ~Resume(r)
    BY <2>1 DEF IsIdle, Resume, MarkPaidWrite, BookWrite, ReRequestWrite, SignOffFindInspection,
       SignOffCommit, UnlockFind, UnlockWrite, CertificateCreate, CompletePermit, AuditRecord,
       AuditPoints
  <2>3. CASE PaynowAccepts(r) \/ PaynowSimulates(r) \/ CreatePayment(r)
    BY <1>1, <2>1, <2>3 DEF PaynowAccepts, PaynowSimulates, CreatePayment, PayAnswered, PayGoto,
       Initiates, IsIdle, gateVars
  <2>4. CASE PayAuditRecord(r)
    BY <1>1, <2>1, <2>4 DEF PayAuditRecord, PayAuditPoints, AfterPayAudit, PayReturn, PayIdle,
       Initiates, IsIdle, Free, gateVars
  <2> QED
    BY <2>1, <2>2, <2>3, <2>4 DEF PayResume, Poll, PollPosted, FindPayment, WritePaid,
       WriteFailed, AdvanceGate, Initiates
<1>3. ASSUME calls[r] = "poll", screen' = screen
      PROVE  \/ ServesPoll(r)'
             \/ Free(r)' /\ (StatusAnswer(r) = "PAID" => payment'[screen.payment].paidAt)
  <2>1. OwnPayment /\ ServesPoll(r)
    BY <1>3 DEF DialogInv, Serves
  <2>2. payment[screen.payment].paidAt => payment'[screen.payment].paidAt
    BY <2>1, OwnPaymentStays
  <2>3. CASE preq[r].pc = "idle" /\ ~IsIdle(r) /\ payment[screen.payment].paidAt
    <3>1. preq'[r] = preq[r]
      BY <2>3 DEF PayResume, PaynowAccepts, PaynowSimulates, CreatePayment, Poll, PollPosted,
         FindPayment, WritePaid, WriteFailed, PayAuditRecord, AdvanceGate, PayAuditPoints
    <3> QED
      BY <1>3, <2>2, <2>3, <3>1 DEF ServesPoll, Free, IsIdle
  <2>4. CASE preq[r].pc \in Asks /\ preq[r].payment = screen.payment /\ IsIdle(r)
    <3>1. ~Resume(r)
      BY <2>4 DEF IsIdle, Resume, MarkPaidWrite, BookWrite, ReRequestWrite, SignOffFindInspection,
         SignOffCommit, UnlockFind, UnlockWrite, CertificateCreate, CompletePermit, AuditRecord,
         AuditPoints
    <3>2. CASE Poll(r)
      BY <1>1, <1>3, <2>4, <3>2 DEF Poll, Polled, PayGoto, PayAnswered, PayReturn, PayIdle, ServesPoll,
         Asks, IsIdle, Free, StatusAnswer, gateVars
    <3>3. CASE FindPayment(r)
      <4>1. CASE payment[preq[r].payment].status = "PAID"
        BY <1>1, <2>1, <2>2, <2>4, <3>3, <4>1 DEF FindPayment, PayReturn, PayIdle, OwnPayment,
           PaidIsDated, IsIdle, Free, gateVars
      <4>2. CASE payment[preq[r].payment].status # "PAID"
        BY <1>1, <1>3, <2>4, <3>3, <4>2 DEF FindPayment, PayGoto, ServesPoll, Asks, IsIdle, gateVars
      <4> QED
        BY <4>1, <4>2
    <3>4. CASE WritePaid(r) \/ WriteFailed(r)
      BY <1>1, <1>3, <2>4, <3>4 DEF WritePaid, WriteFailed, PayGoto, ServesPoll, Asks, IsIdle,
         gateVars
    <3>5. CASE PayAuditRecord(r)
      BY <1>1, <1>3, <2>4, <3>5 DEF PayAuditRecord, PayAuditPoints, AfterPayAudit, PayGoto, PayReturn,
         PayIdle, ServesPoll, Asks, IsIdle, Free, StatusAnswer, gateVars
    <3>6. CASE AdvanceGate(r)
      <4>1. payment[screen.payment].paidAt
        BY <1>1, <2>4, <3>6 DEF AdvanceGate, PayHandlers, HandlerSound
      <4>2. CASE MarkPaidLoad(r, preq[r].stage)
        BY <1>1, <1>3, <2>2, <3>6, <4>1, <4>2 DEF AdvanceGate, MarkPaidLoad, Begin, PayReturn,
           PayIdle, ServesPoll, IsIdle, TypeOK
      <4>3. CASE UNCHANGED gateVars
        BY <1>1, <2>2, <2>4, <3>6, <4>1, <4>3 DEF AdvanceGate, PayReturn, PayIdle, Free, IsIdle,
           gateVars
      <4> QED
        BY <3>6, <4>2, <4>3 DEF AdvanceGate
    <3> QED
      BY <2>4, <3>1, <3>2, <3>3, <3>4, <3>5, <3>6 DEF PayResume, PaynowAccepts, PaynowSimulates,
         CreatePayment, PollPosted, Asks
  <2> QED
    BY <2>1, <2>3, <2>4 DEF ServesPoll
<1> QED
  BY <1>2, <1>3

\* A handler runs on, and the page hears the answer of one that ends.
LEMMA ServeStep ==
    ASSUME ServerInv, DialogInv, [PayNext]_allVars, NEW r \in Requests, Serve(r)
    PROVE  DialogInv'
<1> USE DEF ServerInv, PayFacts
<1>1. ASSUME NEW t \in HttpRequests, t # r PROVE preq'[t] = preq[t] /\ req'[t] = req[t]
  BY <1>1, OthersWait DEF Serve, HttpRequests
<1>2. ASSUME NEW t \in HttpRequests, t # r, calls'[t] = calls[t], UNCHANGED <<screen, poll>>
      PROVE  Serves(t)'
  BY <1>1, <1>2, StaysServing
<1>3. (Resume(r) /\ UNCHANGED <<payRows, preq>>) \/ PayResume(r)
  BY DEF Serve
<1>4. CASE ~(r \in HttpRequests /\ Free(r)')
  <2>1. UNCHANGED pageVars
    BY <1>4 DEF Serve
  <2>2. r \in HttpRequests => Serves(r)'
    BY <1>3, <1>4, <2>1, ServingMoves DEF DialogInv, Serves, Paying, pageVars
  <2> QED
    BY <1>2, <2>1, <2>2, PageStands DEF pageVars
<1>5. ASSUME r \in HttpRequests, Free(r)', calls[r] = "none", UNCHANGED pageVars PROVE DialogInv'
  <2>1. Serves(r)'
    BY <1>5 DEF Serves, pageVars
  <2> QED
    BY <1>2, <1>5, <2>1, PageStands DEF pageVars
<1>6. ASSUME r \in HttpRequests, Free(r)', calls[r] \in {"initiate", "abandoned"}, HearInitiate(r)
      PROVE  DialogInv'
  <2>1. preq[r].pc = "auditInitiated" /\ payment' = payment
    BY <1>3, <1>6, ServingMoves DEF Free, Initiates, PayIdle
  <2>2. /\ preq[r].payment \in Payments
        /\ payment[preq[r].payment].status # "NONE"
        /\ payment[preq[r].payment].stage = preq[r].stage
    BY <2>1 DEF PayHandlers, HandlerSound, PayPoints, PayAuditPoints, Creating
  <2>3. CASE Unload
    BY <2>3, StagesFacts DEF Unload, Away, Screen, NoCalls, DialogInv, ScreenType, Kinds, Steps,
       Calls, Paying, Serves
  <2>4. ASSUME calls[r] = "initiate", poll' = "asked",
               screen' = [screen EXCEPT !.step = "pending", !.payment = preq[r].payment],
               calls' = [calls EXCEPT ![r] = "none"]
        PROVE  DialogInv'
    <3>1. Paying("choose-method") /\ preq[r].stage = screen.stage
      BY <1>6, <2>4 DEF DialogInv, Serves
    <3>2. \A t \in HttpRequests : t # r => calls[t] \notin {"initiate", "poll"}
      BY <1>6, <2>4, <3>1 DEF DialogInv, Serves, Paying
    <3>3. \A t \in HttpRequests : Serves(t)'
      BY <1>1, <1>6, <2>4, <3>2 DEF DialogInv, Serves, IsIdle
    <3> QED
      BY <1>6, <2>1, <2>2, <2>4, <3>1, <3>2, <3>3 DEF DialogInv, ScreenType, Steps, Paying,
         OwnPayment, Calls
  <2>5. ASSUME calls' = [calls EXCEPT ![r] = "none"], UNCHANGED <<view, load, screen, poll, closing>>
        PROVE  DialogInv'
    <3>1. Serves(r)'
      BY <1>6, <2>5 DEF DialogInv, Serves
    <3>2. \A t \in HttpRequests : t # r => Serves(t)'
      BY <1>2, <1>6, <2>5 DEF DialogInv
    <3> QED
      BY <1>6, <2>1, <2>5, <3>1, <3>2 DEF DialogInv, Paying, OwnPayment, Calls
  <2> QED
    BY <1>6, <2>3, <2>4, <2>5 DEF HearInitiate
<1>7. ASSUME r \in HttpRequests, Free(r)', calls[r] = "poll", HearPoll(r) PROVE DialogInv'
  <2>1. poll = "serving" /\ Paying("pending") /\ OwnPayment
    BY <1>7 DEF DialogInv, Serves
  <2>2. StatusAnswer(r) = "PAID" => payment'[screen.payment].paidAt
    BY <1>3, <1>7, ServingMoves DEF HearPoll, Free, ServesPoll, Asks, IsIdle
  <2>3. StatusAnswer(r) \notin {"off"}
    BY DEF StatusAnswer
  <2>4. ASSUME NEW t \in HttpRequests PROVE Serves(t)'
    <3>1. t # r => calls[t] \notin {"poll", "initiate"}
      BY <1>7, <2>1, <2>4 DEF DialogInv, Serves, Paying
    <3> QED
      BY <1>1, <1>7, <3>1 DEF HearPoll, DialogInv, Serves, IsIdle
  <2>5. OwnPayment'
    BY <1>7, <2>1, OwnPaymentStays DEF HearPoll, OwnPayment
  <2> QED
    BY <1>7, <2>1, <2>2, <2>3, <2>4, <2>5 DEF HearPoll, DialogInv, Paying, Calls
<1>8. ASSUME r \in HttpRequests, Free(r)', calls[r] \in {"book", "bookClosed"}, HearBooking(r)
      PROVE  DialogInv'
  <2>1. Serves(r)'
    BY <1>8 DEF HearBooking, DialogInv, Serves
  <2>2. \A t \in HttpRequests : t # r => Serves(t)'
    BY <1>2, <1>8 DEF HearBooking, DialogInv
  <2>3. Paying("pending") \/ Paying("success") => OwnPayment
    BY DEF DialogInv
  <2> QED
    BY <1>8, <2>1, <2>2, <2>3, OwnPaymentStays DEF HearBooking, DialogInv, Paying, OwnPayment, Calls
<1> QED
  BY <1>4, <1>5, <1>6, <1>7, <1>8 DEF Serve, Hear

LEMMA DialogStep == ServerInv /\ DialogInv /\ [PageNext]_pagedVars => DialogInv'
<1> SUFFICES ASSUME ServerInv, DialogInv, [PageNext]_pagedVars PROVE DialogInv'
  OBVIOUS
<1>1. [PayNext]_allVars
  BY PaymentsOfStep
<1>2. CASE UNCHANGED pagedVars
  <2>1. UNCHANGED <<pageVars, preq, req>>
    BY <1>2 DEF pagedVars, allVars, gateVars
  <2> QED
    BY <1>1, <2>1, PageStands, StaysServing DEF ServerInv, pageVars
<1>3. CASE /\ UNCHANGED allVars
           /\ \/ OpenPage \/ LeavePage \/ LoadServed \/ LoadShown
              \/ \E s \in Stages : OpenPayDialog(s) \/ OpenBookDialog(s)
              \/ InitiateRefused \/ TryAgain \/ CloseDialog
              \/ PollRead \/ PollHears \/ PollWaits \/ PollAgain \/ PollLost
              \/ \E r \in HttpRequests : InitiateLost(r)
  BY <1>3, DialogAloneStep DEF ServerInv
<1>4. ASSUME NEW r \in HttpRequests,
             (\E p \in Payments : Initiate(r, p)) \/ PollServed(r) \/ Book(r)
      PROVE  DialogInv'
  BY <1>1, <1>4, CallStep
<1>5. ASSUME NEW r \in Requests, Serve(r) PROVE DialogInv'
  BY <1>1, <1>5, ServeStep
<1>6. CASE /\ UNCHANGED pageVars
           /\ \/ \E r \in Requests : Elsewhere(r)
              \/ \E r \in HttpRequests : Confirm(r)
              \/ \E p \in Payments : TimerFires(p) \/ PaynowSettles(p)
  BY <1>1, <1>6, ElsewhereStep
<1> QED
  BY <1>2, <1>3, <1>4, <1>5, <1>6 DEF PageNext, PageActs, PageRuns, OpenPage,
     LeavePage, OpenPayDialog, OpenBookDialog, InitiateRefused, TryAgain, CloseDialog, LoadServed,
     LoadShown, PollRead, PollHears, PollWaits, PollAgain, PollLost, InitiateLost, Elsewhere, Confirm

-----------------------------------------------------------------------------
(* Theorems about the payments and the dialog. *)

LEMMA PageInvariant ==
    PageSpec => [](ServerInv /\ HandlersConsistent /\ DialogInv)
<1>1. PageInit => ServerInv /\ HandlersConsistent /\ DialogInv
  <2> SUFFICES ASSUME PageInit PROVE ServerInv /\ HandlersConsistent /\ DialogInv
    OBVIOUS
  <2>1. PayInit /\ Init
    BY DEF PageInit, PayInit
  <2>2. Rested
    BY <2>1 DEF Init, Rested
  <2> QED
    BY <2>1, <2>2, TypeInit, HandlersInit, PayInitFacts, PageInitFacts DEF ServerInv, PayFacts
<1>2. ServerInv /\ HandlersConsistent /\ DialogInv /\ [PageNext]_pagedVars
         => (ServerInv /\ HandlersConsistent /\ DialogInv)'
  <2> SUFFICES ASSUME ServerInv, HandlersConsistent, DialogInv, [PageNext]_pagedVars
               PROVE  (ServerInv /\ HandlersConsistent /\ DialogInv)'
    OBVIOUS
  <2>1. [PayNext]_allVars
    BY PaymentsOfStep
  <2>2. [Next]_vars
    BY <2>1, GateOfStep DEF ServerInv, PayFacts
  <2> QED
    BY <2>1, <2>2, TypeStep, HandlersStep, RestedStep, PayFactsStep, PaidIsDatedStep, DialogStep
       DEF ServerInv
<1> QED
  BY <1>1, <1>2, PTL DEF PageSpec

\* The applicant's page is one more client of the payments: whatever it does, and
\* whenever it is closed, the server takes only steps of its own, so all that is
\* proved of the payments and of the gate holds under the page.
THEOREM PageKeepsPayments == PageSpec => PaySpec
<1>1. PageInit => PayInit
  BY DEF PageInit
<1>2. DialogInv /\ [PageNext]_pagedVars => [PayNext]_allVars
  BY PaymentsOfStep
<1> QED
  BY <1>1, <1>2, PageInvariant, PTL DEF PageSpec, PaySpec

\* The dialog reports success only for a payment that is paid, of the very stage
\* it was opened for, however late the poll's answer comes.
THEOREM SuccessIsTrue == PageSpec => []SuccessIsPaid
<1>1. DialogInv => SuccessIsPaid
  BY DEF DialogInv, SuccessIsPaid, OwnPayment, Paying
<1> QED
  BY <1>1, PageInvariant, PTL

-----------------------------------------------------------------------------
(* What the page shows may be old, never ahead. *)

\* A stage is INSPECTED_PASS only with its PASS on record.
PassRecorded == \A s \in Stages : status[s] = "INSPECTED_PASS" => inspection[s] = "PASS"

\* Statuses loaded at some time: the server has gone on from them, or stands there.
Reached(loaded) ==
    \A s \in Stages : loaded[s] # "LOADING" =>
        /\ loaded[s] # "LOCKED" => status[s] # "LOCKED"
        /\ loaded[s] \notin {"LOCKED", "AWAITING_PAYMENT"} => PastFee(s)
        /\ loaded[s] = "INSPECTED_PASS" => inspection[s] = "PASS"

\* The answer of a load under way will be shown, so it counts already.
ViewInv == Reached(view) /\ (load.at = "served" => Reached(load.rows))

LEMMA ViewInit == PageInit => PassRecorded /\ ViewInv
<1> SUFFICES ASSUME PageInit PROVE PassRecorded /\ ViewInv
  OBVIOUS
<1>1. Init
  BY DEF PageInit, PayInit
<1>2. PassRecorded
  <2>1. CASE CreatedPermit
    BY <2>1 DEF CreatedPermit, InitialStatus, PassRecorded
  <2>2. ASSUME NEW passed \in 0 .. NumStages, NEW current \in SeedStatuses,
               SeededPermit(passed, current)
        PROVE  PassRecorded
    <3> SUFFICES ASSUME NEW s \in Stages, status[s] = "INSPECTED_PASS" PROVE inspection[s] = "PASS"
      BY DEF PassRecorded
    <3>1. s < passed
      BY <2>2, StagesFacts DEF SeededPermit, SeedStatuses
    <3> QED
      BY <2>2, <3>1 DEF SeededPermit
  <2> QED
    BY <1>1, <2>1, <2>2 DEF Init, InitRows
<1>3. ViewInv
  BY DEF PageInit, Unloaded, Asking, ViewInv, Reached
<1> QED
  BY <1>2, <1>3

LEMMA PassRecordedStep ==
    ASSUME GateInv, PassRecorded, [Next]_vars
    PROVE  PassRecorded'
<1> USE DEF GateInv, TypeOK, Request, PassRecorded
<1>1. ASSUME NEW r \in Requests,
             MarkPaidWrite(r) \/ BookWrite(r) \/ ReRequestWrite(r) \/ UnlockWrite(r)
      PROVE  PassRecorded'
  BY <1>1, StagesFacts DEF MarkPaidWrite, BookWrite, ReRequestWrite, UnlockWrite, SetStatus
<1>2. ASSUME NEW r \in Requests, SignOffCommit(r) PROVE PassRecorded'
  BY <1>2 DEF SignOffCommit, SetStatus, Results
<1>3. CASE UNCHANGED <<status, inspection>>
  BY <1>3
<1> QED
  BY <1>1, <1>2, <1>3 DEF Next, Work, Fault, Arrive, UserRequest, Resume, MarkPaidLoad, BookLoad,
     SignOffLoad, ReRequestLoad, SignOffFindInspection, UnlockFind, CertificateCreate,
     CompletePermit, AuditRecord, AuditSwallow, CallFails, Crash, rows, vars

\* The gate takes nothing back, so what was loaded stays reached.
LEMMA GateGoesOn ==
    ASSUME GateInv, [Next]_vars, NEW s \in Stages
    PROVE  /\ status[s] # "LOCKED" => status'[s] # "LOCKED"
           /\ PastFee(s) => PastFee(s)'
           /\ inspection[s] = "PASS" => inspection'[s] = "PASS"
BY StepKeeps, PastFeeStays

\* The view changes only to what a load brought, and a load brings the statuses
\* of one query.
LEMMA ViewMoves ==
    ASSUME [PageNext]_pagedVars
    PROVE  /\ \/ view' \in {view, Unloaded}
              \/ load.at = "served" /\ view' = load.rows
           /\ \/ load'.at # "served"
              \/ load' = load
              \/ load'.rows = status /\ UNCHANGED allVars
<1> USE DEF Asking, NoLoad
<1>1. CASE UNCHANGED <<view, load>>
  BY <1>1
<1>2. CASE LeavePage \/ OpenPage \/ LoadServed \/ LoadShown \/ PollHears
  BY <1>2 DEF LeavePage, Unload, OpenPage, LoadServed, LoadShown, PollHears
<1>3. ASSUME NEW r \in Requests, Serve(r)
      PROVE  view' \in {view, Unloaded} /\ (load'.at # "served" \/ load' = load)
  BY <1>3 DEF Serve, Hear, HearInitiate, HearPoll, HearBooking, Unload, pageVars
<1>4. CASE UNCHANGED pageVars
  BY <1>4 DEF pageVars
<1>5. ASSUME NEW s \in Stages, OpenPayDialog(s) \/ OpenBookDialog(s) PROVE UNCHANGED <<view, load>>
  BY <1>5 DEF OpenPayDialog, OpenBookDialog
<1>6. ASSUME NEW r \in HttpRequests,
             \/ \E p \in Payments : Initiate(r, p)
             \/ Confirm(r) \/ Book(r) \/ PollServed(r) \/ InitiateLost(r)
      PROVE  UNCHANGED <<view, load>>
  BY <1>6 DEF Initiate, Confirm, Book, PollServed, InitiateLost, pageVars
<1>7. CASE InitiateRefused \/ TryAgain \/ CloseDialog \/ PollRead \/ PollWaits \/ PollAgain \/ PollLost
  BY <1>7 DEF InitiateRefused, TryAgain, CloseDialog, PollRead, PollWaits, PollAgain, PollLost
<1>8. CASE UNCHANGED pagedVars
  BY <1>4, <1>8 DEF pagedVars
<1> QED
  BY <1>1, <1>2, <1>3, <1>4, <1>5, <1>6, <1>7, <1>8 DEF PageNext, PageActs, PageRuns, Elsewhere

LEMMA ViewStep ==
    ASSUME GateInv, PassRecorded, ViewInv, [Next]_vars, [PageNext]_pagedVars
    PROVE  ViewInv'
<1> USE DEF ViewInv, Reached
<1>1. Reached(view)'
  <2> SUFFICES ASSUME NEW s \in Stages, view'[s] # "LOADING"
               PROVE  /\ view'[s] # "LOCKED" => status'[s] # "LOCKED"
                      /\ view'[s] \notin {"LOCKED", "AWAITING_PAYMENT"} => PastFee(s)'
                      /\ view'[s] = "INSPECTED_PASS" => inspection'[s] = "PASS"
    OBVIOUS
  <2>1. CASE view' = Unloaded
    BY <2>1 DEF Unloaded
  <2>2. CASE view' = view
    BY <2>2, GateGoesOn
  <2>3. CASE load.at = "served" /\ view' = load.rows
    BY <2>3, GateGoesOn
  <2> QED
    BY <2>1, <2>2, <2>3, ViewMoves
<1>2. load'.at = "served" => Reached(load.rows)'
  <2> SUFFICES ASSUME load'.at = "served", NEW s \in Stages, load'.rows[s] # "LOADING"
               PROVE  /\ load'.rows[s] # "LOCKED" => status'[s] # "LOCKED"
                      /\ load'.rows[s] \notin {"LOCKED", "AWAITING_PAYMENT"} => PastFee(s)'
                      /\ load'.rows[s] = "INSPECTED_PASS" => inspection'[s] = "PASS"
    OBVIOUS
  <2>1. CASE load' = load
    BY <2>1, GateGoesOn
  <2>2. CASE load'.rows = status /\ UNCHANGED allVars
    BY <2>2, GateGoesOn DEF PassRecorded, PastFee, allVars, gateVars
  <2> QED
    BY <2>1, <2>2, ViewMoves
<1> QED
  BY <1>1, <1>2

\* What the page shows may be old but is never ahead of the server, whoever acts
\* on the permit meanwhile.
THEOREM PageIsNeverAhead == PageSpec => []ViewNeverAhead
<1>1. ViewInv => ViewNeverAhead
  BY DEF ViewInv, Reached, ViewNeverAhead
<1>2. GateInv /\ PassRecorded /\ ViewInv /\ [Next]_vars /\ [PageNext]_pagedVars
         => (PassRecorded /\ ViewInv)'
  BY PassRecordedStep, ViewStep
<1>3. PageSpec => []GateInv /\ [][Next]_vars
  BY PageKeepsPayments, PaymentsKeepGate, GateInvariant, PTL DEF Spec
<1>4. PageSpec => PageInit /\ [][PageNext]_pagedVars
  BY PTL DEF PageSpec
<1> QED
  BY <1>1, <1>2, <1>3, <1>4, ViewInit, PTL

-----------------------------------------------------------------------------
(* Under the page the server lives. *)

\* The page, its network and its closing are no failure of the server: under them
\* too the money taken moves its stage, whatever callbacks are posted.
THEOREM PageKeepsMoneyMoving == PageSpec => []PaidAdvancesStage
<1>1. PageInit => PayInit
  BY DEF PageInit
<1>2. DialogInv /\ [PageNext]_pagedVars => [PayWork]_allVars
  BY PaymentsOfStep
<1>3. PageSpec => PayInit /\ [][PayWork]_allVars
  BY <1>1, <1>2, PageInvariant, PTL DEF PageSpec
<1> QED
  BY <1>3, PaidAdvances, PTL

-----------------------------------------------------------------------------
(* Types: what the page keeps, and the handlers its calls wait for. *)

Shown == [Stages -> StageStatuses \union {"LOADING"}]

PageShape ==
    /\ view \in Shown
    /\ load \in [at : {"none", "asked", "served"}, rows : Shown]
    /\ poll \in PollStates
    /\ closing \in BOOLEAN

\* A call of the page waits for a handler at work.
CallsServed == \A r \in HttpRequests : calls[r] # "none" => ~Free(r)

LEMMA PageShapeInit == PageInit => PageShape /\ CallsServed
<1> SUFFICES ASSUME PageInit PROVE PageShape /\ CallsServed
  OBVIOUS
<1>1. Unloaded \in Shown /\ Asking \in [at : {"none", "asked", "served"}, rows : Shown]
  BY DEF Unloaded, Asking, Shown
<1>2. view = Unloaded /\ load = Asking /\ poll = "off" /\ calls = NoCalls /\ closing = FALSE
  BY DEF PageInit
<1>3. PageShape
  BY <1>1, <1>2 DEF PageShape, PollStates
<1>4. CallsServed
  BY <1>2 DEF CallsServed, NoCalls
<1> QED
  BY <1>3, <1>4

LEMMA PageShapeStep ==
    ASSUME TypeOK, PayFacts, DialogInv, PageShape, [PageNext]_pagedVars
    PROVE  PageShape'
<1> DEFINE Served == [at |-> "served", rows |-> status]
<1>1. /\ Unloaded \in Shown /\ status \in Shown
      /\ \A l \in {load, NoLoad, Asking, Served} :
            l \in [at : {"none", "asked", "served"}, rows : Shown]
      /\ load.rows \in Shown
  BY DEF PageShape, Unloaded, NoLoad, Asking, Shown, TypeOK
<1>2. SUFFICES /\ view' \in {view, Unloaded, load.rows}
               /\ load' \in {load, NoLoad, Asking, Served}
               /\ poll' \in PollStates
               /\ closing' \in {closing, TRUE, FALSE}
  BY <1>1 DEF PageShape
<1> DEFINE Kept == /\ view' \in {view, Unloaded, load.rows}
                   /\ load' \in {load, NoLoad, Asking, Served}
                   /\ poll' \in PollStates
                   /\ closing' \in {closing, TRUE, FALSE}
<1>3. poll \in PollStates
  BY DEF PageShape
<1>4. CASE UNCHANGED pageVars
  BY <1>3, <1>4 DEF pageVars
<1>5. CASE OpenPage \/ LeavePage \/ LoadServed \/ LoadShown
  BY <1>3, <1>5 DEF OpenPage, LeavePage, Unload, LoadServed, LoadShown, PollStates
<1>6. ASSUME NEW s \in Stages, OpenPayDialog(s) \/ OpenBookDialog(s) PROVE Kept
  BY <1>3, <1>6 DEF OpenPayDialog, OpenBookDialog
<1>7. ASSUME NEW r \in HttpRequests,
             \/ \E p \in Payments : Initiate(r, p)
             \/ Confirm(r) \/ Book(r) \/ PollServed(r) \/ InitiateLost(r)
      PROVE  Kept
  BY <1>3, <1>7 DEF Initiate, Confirm, Book, PollServed, InitiateLost, pageVars, PollStates
<1>8. CASE InitiateRefused \/ TryAgain \/ CloseDialog \/ PollHears \/ PollWaits \/ PollAgain \/ PollLost
  BY <1>3, <1>8 DEF InitiateRefused, TryAgain, CloseDialog, PollHears, PollWaits, PollAgain,
     PollLost, PollStates, PollAnswers
<1>9. CASE PollRead
  <2>1. screen.payment \in Payments /\ payment[screen.payment].status # "NONE"
    BY <1>9 DEF PollRead, DialogInv, OwnPayment
  <2>2. payment[screen.payment].status \in PollAnswers
    BY <2>1 DEF PayFacts, PayShape, PaymentRow, PollAnswers
  <2> QED
    BY <1>9, <2>2 DEF PollRead, PollStates
<1>10. ASSUME NEW r \in Requests, Serve(r) PROVE Kept
  <2>1. StatusAnswer(r) \in PollStates
    BY DEF StatusAnswer, PollStates, PollAnswers
  <2>2. CASE UNCHANGED pageVars
    BY <1>4, <2>2
  <2>3. CASE HearInitiate(r)
    BY <1>3, <2>3 DEF HearInitiate, Unload, PollStates
  <2>4. CASE HearPoll(r) \/ HearBooking(r)
    BY <1>3, <2>1, <2>4 DEF HearPoll, HearBooking
  <2> QED
    BY <1>10, <2>2, <2>3, <2>4 DEF Serve, Hear
<1>11. CASE UNCHANGED pagedVars
  BY <1>4, <1>11 DEF pagedVars
<1> QED
  BY <1>4, <1>5, <1>6, <1>7, <1>8, <1>9, <1>10, <1>11 DEF PageNext, PageActs, PageRuns, Elsewhere

\* Every call of the page is answered, given up, or still has its handler.
LEMMA CallsServedStep ==
    ASSUME ServerInv, DialogInv, CallsServed, [PageNext]_pagedVars
    PROVE  CallsServed'
<1> USE DEF ServerInv, PayFacts, HttpRequests
<1> SUFFICES ASSUME NEW t \in HttpRequests, calls'[t] # "none" PROVE ~Free(t)'
  BY DEF CallsServed
<1>0. /\ calls \in [HttpRequests -> Calls]
      /\ preq \in [Requests -> PayRequest] /\ req \in [Requests -> Request]
      /\ t \in Requests /\ t \notin Payments
      /\ screen.stage \in Stages
  BY DEF DialogInv, ScreenType, PayShape, TypeOK
<1>1. ASSUME preq'[t] = preq[t], req'[t] = req[t], calls[t] # "none" PROVE ~Free(t)'
  BY <1>1 DEF CallsServed, Free, IsIdle
<1>2. ASSUME UNCHANGED <<preq, req>>, calls'[t] # "none" => calls[t] # "none" PROVE ~Free(t)'
  BY <1>1, <1>2
<1>3. CASE UNCHANGED pagedVars
  BY <1>2, <1>3 DEF pagedVars, pageVars, allVars, gateVars
<1>4. CASE /\ UNCHANGED allVars
           /\ \/ OpenPage \/ LeavePage \/ LoadServed \/ LoadShown
              \/ \E s \in Stages : OpenPayDialog(s) \/ OpenBookDialog(s)
              \/ InitiateRefused \/ TryAgain \/ CloseDialog
              \/ PollRead \/ PollHears \/ PollWaits \/ PollAgain \/ PollLost
              \/ \E r \in HttpRequests : InitiateLost(r)
  <2>1. calls'[t] # "none" => calls[t] # "none"
    BY <1>0, <1>4 DEF OpenPage, LeavePage, Unload, NoCalls, LoadServed, LoadShown, OpenPayDialog,
       OpenBookDialog, InitiateRefused, TryAgain, CloseDialog, PollRead, PollHears, PollWaits,
       PollAgain, PollLost, InitiateLost
  <2> QED
    BY <1>2, <1>4, <2>1 DEF allVars, gateVars
<1>5. ASSUME NEW r \in HttpRequests, t # r,
             \/ \E p \in Payments : Initiate(r, p)
             \/ PollServed(r) \/ Book(r)
      PROVE  ~Free(t)'
  <2>1. preq'[t] = preq[t] /\ req'[t] = req[t] /\ calls'[t] = calls[t]
    BY <1>0, <1>5 DEF Initiate, InitiateLoad, PollServed, GetStatusLoad, PayBegin, Book, BookLoad,
       Begin, gateVars
  <2> QED
    BY <1>1, <2>1
<1>6. ASSUME (\E p \in Payments : Initiate(t, p)) \/ PollServed(t) \/ Book(t) PROVE ~Free(t)'
  BY <1>0, <1>6 DEF Initiate, InitiateLoad, PollServed, GetStatusLoad, PayBegin, Book, BookLoad,
     Begin, Free, IsIdle
<1>7. ASSUME NEW r \in Requests, Serve(r) PROVE ~Free(t)'
  <2>1. CASE t = r
    <3>1. CASE ~Free(r)'
      BY <2>1, <3>1
    <3>2. CASE Free(r)'
      <4>1. Hear(t)
        BY <1>7, <2>1, <3>2 DEF Serve
      <4>2. calls'[t] = "none"
        BY <1>0, <4>1 DEF Hear, HearInitiate, HearPoll, HearBooking, Unload, NoCalls, pageVars
      <4> QED
        BY <4>2
    <3> QED
      BY <3>1, <3>2
  <2>2. CASE t # r
    <3>1. preq'[t] = preq[t] /\ req'[t] = req[t]
      BY <1>0, <1>7, <2>2, OthersWait DEF Serve
    <3>2. calls'[t] \in {calls[t], "none"}
      BY <1>0, <1>7, <2>2 DEF Serve, Hear, HearInitiate, HearPoll, HearBooking, Unload, NoCalls,
         pageVars
    <3> QED
      BY <1>1, <3>1, <3>2
  <2> QED
    BY <2>1, <2>2
<1>8. ASSUME NEW r \in Requests, Elsewhere(r) \/ (r \in HttpRequests /\ Confirm(r)) PROVE ~Free(t)'
  <2>1. calls' = calls
    BY <1>8 DEF Elsewhere, Confirm, pageVars
  <2>2. ~Resume(r) \/ ~Elsewhere(r)
    BY DEF Elsewhere, IsIdle, Resume, MarkPaidWrite, BookWrite, ReRequestWrite,
       SignOffFindInspection, SignOffCommit, UnlockFind, UnlockWrite, CertificateCreate,
       CompletePermit, AuditRecord, AuditPoints
  <2>3. Free(r)
    BY <1>8, <2>2 DEF Elsewhere, GateStep, CallbackLoad, Confirm, ConfirmLoad
  <2>4. t # r
    BY <2>1, <2>3 DEF CallsServed
  <2>5. screen.payment \in Payments \/ ~Confirm(r)
    BY DEF Confirm, DialogInv, OwnPayment
  <2>6. \/ PayArrive(r)
        \/ (\E s \in Stages : UserRequest(r, s)) /\ UNCHANGED preq
    BY <1>8, <2>2, <2>5 DEF Elsewhere, GateStep, Confirm, PayArrive
  <2>7. preq'[t] = preq[t] /\ req'[t] = req[t]
    BY <1>0, <2>4, <2>6, OthersWait
  <2> QED
    BY <1>1, <2>1, <2>7
<1>9. ASSUME NEW p \in Payments, TimerFires(p) \/ PaynowSettles(p), UNCHANGED pageVars
      PROVE  ~Free(t)'
  <2>1. preq'[t] = preq[t] /\ req'[t] = req[t] /\ calls' = calls
    BY <1>0, <1>9 DEF TimerFires, PaynowSettles, PayBegin, gateVars, pageVars
  <2> QED
    BY <1>1, <2>1
<1> QED
  BY <1>3, <1>4, <1>5, <1>6, <1>7, <1>8, <1>9 DEF PageNext, PageActs, PageRuns, OpenPage,
     LeavePage, OpenPayDialog, OpenBookDialog, InitiateRefused, TryAgain, CloseDialog, LoadServed,
     LoadShown, PollRead, PollHears, PollWaits, PollAgain, PollLost, InitiateLost

\* The page is well-formed: a poll belongs to a dialog that waits for a payment, and
\* every call of the page is served by a handler at work, for any number of them.
THEOREM PageTyped == PageSpec => []PageTypeOK
<1>1. ServerInv /\ DialogInv /\ PageShape /\ CallsServed /\ [PageNext]_pagedVars
         => (PageShape /\ CallsServed)'
  BY PageShapeStep, CallsServedStep DEF ServerInv
<1>2. PayTypeOK /\ DialogInv /\ PageShape /\ CallsServed => PageTypeOK
  BY DEF DialogInv, PageShape, CallsServed, ScreenType, Shown, PageTypeOK
<1>3. PageSpec => []PayTypeOK
  BY PageKeepsPayments, PaymentsTyped, PTL
<1> QED
  BY <1>1, <1>2, <1>3, PageInvariant, PageShapeInit, PTL DEF PageSpec

=============================================================================
