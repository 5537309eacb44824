------------------------------- MODULE Payments -------------------------------
(***************************************************************************)
(* payments.service.ts and paynow.service.ts over the stage gate they move: *)
(* a fee is initiated with Paynow (or simulated), and settled by a timer,  *)
(* a forced confirmation, a status poll or Paynow's callback, all of which *)
(* end in markPaid or markFailed.                                           *)
(*                                                                         *)
(* As in StageGate an action is one awaited call with the code around it.   *)
(* A payment's auto-pay timer runs its callback as a handler of its own,    *)
(* named after the payment; the other handlers serve HTTP requests.         *)
(***************************************************************************)
EXTENDS StageGate

CONSTANTS Payments,   \* rows the Payment table may come to hold
          NoPayment,  \* what an idle handler works on
          PostedUrls  \* what callbacks may carry as their poll URL

ASSUME TimersAreHandlers == Payments \subseteq Requests
ASSUME NoPaymentAssumption == NoPayment \notin Payments
\* None, an empty one, the payment's own, or the URL of another transaction.
ASSUME PostedUrlsAssumption == PostedUrls \subseteq {"absent", "empty", "own", "other"}

VARIABLES payment,   \* the Payment rows
          timers,    \* payments whose simulated auto-pay is scheduled
          live,      \* Paynow credentials are configured
          txn,       \* Paynow's own transaction for the payment's reference
          payAudit,  \* the AuditLog entries about payments
          preq       \* the suspended payment handlers

payRows == <<payment, timers, live, txn, payAudit>>
gateVars == <<status, bookedFor, inspection, certificate, permitStatus, audit, req>>
allVars == <<gateVars, payRows, preq>>

HttpRequests == Requests \ Payments

Settled == {"paid", "cancelled", "failed"}

\* simulated; live with a poll URL; live without one (Paynow sent none, '').
Modes == {"simulated", "live", "unpollable"}

PaymentRow == [status : {"NONE", "PENDING", "PAID", "CANCELLED", "FAILED"},
               stage  : Stages,
               mode   : Modes,
               paidAt : BOOLEAN]

NoRow == [status |-> "NONE", stage |-> 0, mode |-> "simulated", paidAt |-> FALSE]

PayAuditPoints == {"auditInitiated", "auditPaymentPaid", "auditFailed"}

\* `answer` is Paynow's answer the handler resumes with: the mode of a new
\* payment, or why an old one failed.
PayRequest == [pc      : {"idle", "askPaynow", "createPayment", "poll", "pollPosted",
                          "findPayment", "writePaid", "advanceGate", "writeFailed"}
                            \union PayAuditPoints,
               payment : Payments \union {NoPayment},
               stage   : Stages,
               answer  : Modes \union Settled]

PayIdle == [pc |-> "idle", payment |-> NoPayment, stage |-> 0, answer |-> "simulated"]

\* No handler runs under r, neither here nor inside the gate.
Free(r) == IsIdle(r) /\ preq[r].pc = "idle"

PayGoto(r, pc) == preq' = [preq EXCEPT ![r].pc = pc]
PayAnswered(r, pc, a) == preq' = [preq EXCEPT ![r].pc = pc, ![r].answer = a]
PayReturn(r) == preq' = [preq EXCEPT ![r] = PayIdle]
PayBegin(r, pc, p, a) ==
    preq' = [preq EXCEPT ![r] = [pc |-> pc, payment |-> p, stage |-> payment[p].stage,
                                 answer |-> a]]

-----------------------------------------------------------------------------
(* seed.ts createPaidPayment: one simulated PAID row for each stage past its fee. *)

PastFee(s) == status[s] \notin {"LOCKED", "AWAITING_PAYMENT"}

SeededPayment(s) == [status |-> "PAID", stage |-> s, mode |-> "simulated", paidAt |-> TRUE]

PayInit ==
    /\ Init
    /\ payment \in [Payments -> {NoRow} \union {SeededPayment(s) : s \in Stages}]
    /\ \A s \in Stages : LET paying == {p \in Payments : payment[p] = SeededPayment(s)}
                         IN IF PastFee(s) THEN \E p \in Payments : paying = {p}
                                          ELSE paying = {}
    /\ timers = {}
    /\ live \in BOOLEAN
    /\ txn = [p \in Payments |-> "none"]
    /\ payAudit = {}
    /\ preq = [r \in Requests |-> PayIdle]

-----------------------------------------------------------------------------
(* initiate *)

\* A row that does not exist yet, and whose reference nobody has taken to Paynow.
Unused(p) == /\ payment[p].status = "NONE"
             /\ txn[p] = "none"
             /\ \A r \in Requests : preq[r].payment # p

InitiateLoad(r, s, p) ==
    /\ Free(r) /\ r \in HttpRequests
    /\ Unused(p)
    /\ status[s] = "AWAITING_PAYMENT"
    /\ preq' = [preq EXCEPT ![r] =
                  [pc |-> "askPaynow", payment |-> p, stage |-> s, answer |-> "simulated"]]
    /\ UNCHANGED <<gateVars, payRows>>

\* paynow.initiate, accepted: Paynow holds an open transaction.
PaynowAccepts(r) ==
    /\ preq[r].pc = "askPaynow"
    /\ live
    /\ txn' = [txn EXCEPT ![preq[r].payment] = "open"]
    /\ \E mode \in Modes \ {"simulated"} : PayAnswered(r, "createPayment", mode)
    /\ UNCHANGED <<gateVars, payment, timers, live, payAudit>>

\* paynow.initiate without credentials, or refused by Paynow (!response.success),
\* or never reaching it (the SDK throws): the payment is simulated.
PaynowSimulates(r) ==
    /\ preq[r].pc = "askPaynow"
    /\ PayAnswered(r, "createPayment", "simulated")
    /\ UNCHANGED <<gateVars, payRows>>

CreatePayment(r) ==
    /\ preq[r].pc = "createPayment"
    /\ payment' = [payment EXCEPT ![preq[r].payment] =
                     [status |-> "PENDING", stage |-> preq[r].stage, mode |-> preq[r].answer,
                      paidAt |-> FALSE]]
    /\ PayGoto(r, "auditInitiated")
    /\ UNCHANGED <<gateVars, timers, live, txn, payAudit>>

-----------------------------------------------------------------------------
(* The ways a payment is settled. *)

\* getStatus: a pending live payment is polled; any other is only read.
GetStatusLoad(r, p) ==
    /\ Free(r) /\ r \in HttpRequests
    /\ payment[p].status = "PENDING" /\ payment[p].mode = "live"
    /\ PayBegin(r, "poll", p, "live")
    /\ UNCHANGED <<gateVars, payRows>>

\* confirm: the demo accelerator, refused on live and on settled payments.
ConfirmLoadAnyMode(r, p) ==
    /\ Free(r) /\ r \in HttpRequests
    /\ payment[p].status = "PENDING"
    /\ PayBegin(r, "findPayment", p, "simulated")
    /\ UNCHANGED <<gateVars, payRows>>

ConfirmLoad(r, p) ==
    /\ Free(r) /\ r \in HttpRequests
    /\ payment[p].status = "PENDING" /\ payment[p].mode = "simulated"
    /\ PayBegin(r, "findPayment", p, "simulated")
    /\ UNCHANGED <<gateVars, payRows>>

\* handlePaynowCallback takes any post that names a pending payment, at any time.
\* A payment that is not simulated is polled at the posted URL or, without one, at
\* its own; if there is none (`??` lets an empty one stand) the posted status
\* counts. A status that settles nothing ends the handler at once.
CallbackLoadTrusting(r, p) ==
    /\ Free(r) /\ r \in HttpRequests
    /\ payment[p].status = "PENDING"
    /\ \E posted \in Settled :
          PayBegin(r, IF posted = "paid" THEN "findPayment" ELSE "writeFailed", p, posted)
    /\ UNCHANGED <<gateVars, payRows>>

PollsOwn(p, url) == \/ payment[p].mode = "live" /\ url \in {"absent", "own"}
                    \/ payment[p].mode = "unpollable" /\ url = "own"

PollsPosted(p, url) == payment[p].mode # "simulated" /\ url = "other"

CallbackLoad(r, p) ==
    /\ Free(r) /\ r \in HttpRequests
    /\ payment[p].status = "PENDING"
    /\ \E url \in PostedUrls :
          \/ PollsOwn(p, url) /\ PayBegin(r, "poll", p, "live")
          \/ PollsPosted(p, url) /\ PayBegin(r, "pollPosted", p, "live")
          \/ /\ ~PollsOwn(p, url) /\ ~PollsPosted(p, url)
             /\ \E posted \in Settled :
                   PayBegin(r, IF posted = "paid" THEN "findPayment" ELSE "writeFailed", p, posted)
    /\ UNCHANGED <<gateVars, payRows>>

\* pollStatus's answer: markPaid, markFailed, or nothing to settle yet.
Polled(r, answer) ==
    \/ answer = "paid" /\ PayGoto(r, "findPayment")
    \/ answer \in {"cancelled", "failed"} /\ PayAnswered(r, "writeFailed", answer)
    \/ answer = "open" /\ PayReturn(r)

Poll(r) ==
    /\ preq[r].pc = "poll"
    /\ Polled(r, txn[preq[r].payment])
    /\ UNCHANGED <<gateVars, payRows>>

\* What another transaction has come to says nothing of this payment's.
PollPosted(r) ==
    /\ preq[r].pc = "pollPosted"
    /\ \E answer \in {"open"} \union Settled : Polled(r, answer)
    /\ UNCHANGED <<gateVars, payRows>>

\* scheduleSimulatedAutoPay: five seconds after initiate, unless the process died.
TimerFires(p) ==
    /\ p \in timers
    /\ timers' = timers \ {p}
    /\ PayBegin(p, "findPayment", p, "simulated")
    /\ UNCHANGED <<gateVars, payment, live, txn, payAudit>>

-----------------------------------------------------------------------------
(* markPaid and markFailed *)

\* Only PAID ends markPaid early: a cancelled or failed payment goes on.
FindPaymentGateFirst(r) ==
    /\ preq[r].pc = "findPayment"
    /\ IF payment[preq[r].payment].status = "PAID" THEN PayReturn(r) ELSE PayGoto(r, "advanceGate")
    /\ UNCHANGED <<gateVars, payRows>>

FindPayment(r) ==
    /\ preq[r].pc = "findPayment"
    /\ IF payment[preq[r].payment].status = "PAID" THEN PayReturn(r) ELSE PayGoto(r, "writePaid")
    /\ UNCHANGED <<gateVars, payRows>>

WritePaid(r) ==
    /\ preq[r].pc = "writePaid"
    /\ payment' = [payment EXCEPT ![preq[r].payment].status = "PAID",
                                  ![preq[r].payment].paidAt = TRUE]
    /\ PayGoto(r, "auditPaymentPaid")
    /\ UNCHANGED <<gateVars, timers, live, txn, payAudit>>

\* markFailed reads nothing first: it overwrites whatever status the row has.
WriteFailed(r) ==
    /\ preq[r].pc = "writeFailed"
    /\ payment' = [payment EXCEPT ![preq[r].payment].status =
                     IF preq[r].answer = "cancelled" THEN "CANCELLED" ELSE "FAILED"]
    /\ PayGoto(r, "auditFailed")
    /\ UNCHANGED <<gateVars, timers, live, txn, payAudit>>

PayAuditEntry(q) ==
    [action  |-> CASE q.pc = "auditInitiated"   -> "PAYMENT_INITIATED"
                   [] q.pc = "auditPaymentPaid" -> "PAYMENT_PAID"
                   [] q.pc = "auditFailed"      -> "PAYMENT_FAILED",
     payment |-> q.payment]

\* initiate ends by scheduling the auto-pay of a simulated payment; markPaid goes
\* on to the gate.
AfterPayAuditUntimed(r) ==
    /\ IF preq[r].pc = "auditPaymentPaid" THEN PayGoto(r, "advanceGate") ELSE PayReturn(r)
    /\ UNCHANGED timers

AfterPayAuditAlwaysTimed(r) ==
    /\ IF preq[r].pc = "auditPaymentPaid" THEN PayGoto(r, "advanceGate") ELSE PayReturn(r)
    /\ timers' = IF preq[r].pc = "auditInitiated" THEN timers \union {preq[r].payment} ELSE timers

AfterPayAuditNoGate(r) ==
    /\ PayReturn(r)
    /\ timers' = IF preq[r].pc = "auditInitiated" /\ preq[r].answer = "simulated"
                 THEN timers \union {preq[r].payment} ELSE timers

AfterPayAudit(r) ==
    /\ IF preq[r].pc = "auditPaymentPaid" THEN PayGoto(r, "advanceGate") ELSE PayReturn(r)
    /\ timers' = IF preq[r].pc = "auditInitiated" /\ preq[r].answer = "simulated"
                 THEN timers \union {preq[r].payment} ELSE timers

PayAuditRecord(r) ==
    /\ preq[r].pc \in PayAuditPoints
    /\ payAudit' = payAudit \union Watch({PayAuditEntry(preq[r])})
    /\ AfterPayAudit(r)
    /\ UNCHANGED <<gateVars, payment, live, txn>>

PayAuditSwallow(r) ==
    /\ preq[r].pc \in PayAuditPoints
    /\ AfterPayAudit(r)
    /\ UNCHANGED <<gateVars, payment, live, txn, payAudit>>

\* markPaid's call of markPaidAwaitingInspection: refused unless the stage still
\* awaits its payment.
AdvanceGate(r) ==
    /\ preq[r].pc = "advanceGate"
    /\ PayReturn(r)
    /\ IF status[preq[r].stage] = "AWAITING_PAYMENT" THEN MarkPaidLoad(r, preq[r].stage)
                                                     ELSE UNCHANGED gateVars
    /\ UNCHANGED payRows

-----------------------------------------------------------------------------
(* Paynow and the payer (external), failures. *)

PaynowSettles(p) ==
    /\ txn[p] = "open"
    /\ \E result \in Settled : txn' = [txn EXCEPT ![p] = result]
    /\ UNCHANGED <<gateVars, payment, timers, live, payAudit, preq>>

\* Paynow opened the transaction but its answer is lost: simulated all the same.
PaynowAnswerLost(r) ==
    /\ preq[r].pc = "askPaynow"
    /\ live
    /\ txn' = [txn EXCEPT ![preq[r].payment] = "open"]
    /\ PayAnswered(r, "createPayment", "simulated")
    /\ UNCHANGED <<gateVars, payment, timers, live, payAudit>>

PayCallFails(r) ==
    /\ preq[r].pc # "idle"
    /\ PayReturn(r)
    /\ UNCHANGED <<gateVars, payRows>>

\* The process dies: handlers and timers are lost, the rows stay.
PayCrash ==
    /\ timers # {} \/ \E r \in Requests : ~Free(r)
    /\ req' = [r \in Requests |-> Idle]
    /\ preq' = [r \in Requests |-> PayIdle]
    /\ timers' = {}
    /\ UNCHANGED <<rows, audit, payment, live, txn, payAudit>>

-----------------------------------------------------------------------------

GateStep(r) ==
    /\ \/ Resume(r)
       \/ /\ Free(r) /\ r \in HttpRequests
          /\ \E s \in Stages : UserRequest(r, s)
    /\ UNCHANGED <<payRows, preq>>

GateFault(r) ==
    /\ AuditSwallow(r) \/ CallFails(r)
    /\ UNCHANGED <<payRows, preq>>

PayArrive(r) ==
    \E p \in Payments :
        \/ \E s \in Stages : InitiateLoad(r, s, p)
        \/ GetStatusLoad(r, p)
        \/ ConfirmLoad(r, p)
        \/ CallbackLoad(r, p)

PayResume(r) ==
    \/ PaynowAccepts(r)
    \/ PaynowSimulates(r)
    \/ CreatePayment(r)
    \/ Poll(r)
    \/ PollPosted(r)
    \/ FindPayment(r)
    \/ WritePaid(r)
    \/ WriteFailed(r)
    \/ PayAuditRecord(r)
    \/ AdvanceGate(r)

PayWork ==
    \/ \E r \in Requests : GateStep(r) \/ PayArrive(r) \/ PayResume(r)
    \/ \E p \in Payments : TimerFires(p) \/ PaynowSettles(p)

PayFault ==
    \/ \E r \in Requests : \/ GateFault(r)
                           \/ PayAuditSwallow(r)
                           \/ PaynowAnswerLost(r)
                           \/ PayCallFails(r)
    \/ PayCrash

PayNext == PayWork \/ PayFault

PaySpec == PayInit /\ [][PayNext]_allVars

\* A process that lives: every settled call resumes its handler, every timer fires.
PayHealthySpec ==
    /\ PayInit
    /\ [][PayWork]_allVars
    /\ \A r \in Requests : WF_allVars(GateStep(r) /\ Resume(r)) /\ WF_allVars(PayResume(r))
    /\ \A p \in Payments : WF_allVars(TimerFires(p))

-----------------------------------------------------------------------------
(* Properties. *)

\* Every row, timer and handler is well-formed; a timer belongs to a simulated
\* payment, and its handler waits for it.
PayTypeOK ==
    /\ TypeOK
    /\ payment \in [Payments -> PaymentRow]
    /\ timers \subseteq {p \in Payments : payment[p].mode = "simulated"}
    /\ \A p \in timers : Free(p)
    /\ live \in BOOLEAN
    /\ txn \in [Payments -> {"none", "open"} \union Settled]
    /\ preq \in [Requests -> PayRequest]

\* No stage is inspected for free: behind every stage past its fee there is a
\* payment that was marked paid (README: unlocked only after it is paid), however
\* many payments race for it and wherever the handlers die.
PaidStageHasPayment ==
    \A s \in Stages : PastFee(s) => \E p \in Payments : payment[p].stage = s /\ payment[p].paidAt

\* If callbacks carry their payment's own poll URL, or none, then whatever status
\* they post a payment with a poll URL is marked paid only if Paynow holds the money.
LivePaidIsMoney ==
    \A p \in Payments : payment[p].paidAt /\ payment[p].mode = "live" => txn[p] = "paid"

\* The handlers that owe the gate the news of a payment of stage s.
Advancing(s) ==
    \E r \in Requests : \/ /\ preq[r].pc \in {"auditPaymentPaid", "advanceGate"}
                           /\ preq[r].stage = s
                        \/ /\ req[r].pc = "markPaid" /\ req[r].stage = s

\* Money taken is never left behind: while the process lives, a stage with a paid
\* payment has moved on, or a handler is about to move it.
PaidAdvancesStage ==
    \A p \in Payments : payment[p].paidAt =>
        status[payment[p].stage] # "AWAITING_PAYMENT" \/ Advancing(payment[p].stage)

\* Under the same callbacks a settled payment with a poll URL keeps its status:
\* two handlers that settle it agree, although neither reads the row again before
\* it writes (markFailed) or stops only at PAID (markPaid).
SettledIsFinal ==
    [][\A p \in Payments :
          payment[p].mode = "live" /\ payment[p].status \in {"PAID", "CANCELLED", "FAILED"}
              => payment'[p].status = payment[p].status]_allVars

\* Every simulated payment is marked paid in the end, even one a callback failed
\* meanwhile, and moves its stage.
SimulatedSettles ==
    \A p \in Payments :
        payment[p].status = "PENDING" /\ payment[p].mode = "simulated" ~>
            payment[p].paidAt /\ PastFee(payment[p].stage)

-----------------------------------------------------------------------------
(* What comments say, and the code does not keep. *)

\* payments.service.ts:134, "Never trust the POSTed status alone", and line 123,
\* "No-op-safe in simulation mode": a payment comes to what Paynow says of it, and
\* a simulated one, of which Paynow says nothing, does not fail.
PostIsNotTrusted ==
    \A p \in Payments :
        /\ payment[p].paidAt /\ payment[p].mode # "simulated" => txn[p] = "paid"
        /\ payment[p].status = "CANCELLED" => txn[p] = "cancelled"
        /\ payment[p].status = "FAILED" => txn[p] = "failed"

=============================================================================
