------------------------------ MODULE PermitPage ------------------------------
(***************************************************************************)
(* The applicant's permit page (PermitDetailPage, StageTimeline,           *)
(* PayStageModal, BookInspectionModal) over the payments and the gate: one *)
(* browser tab whose calls are served by handlers of Payments, while other *)
(* people act on the permit.                                               *)
(*                                                                         *)
(* The page decides on the permit as it last loaded it (`view`); it loads  *)
(* again only when one of its own calls succeeded.                          *)
(***************************************************************************)
EXTENDS Payments

VARIABLES view,     \* the stages' statuses as last loaded, "LOADING" before
          load,     \* the query GET /permits/:ref
          screen,   \* what the applicant sees: a page, a dialog and its step
          poll,     \* PayStageModal's polling of GET /payments/:id
          calls,    \* the calls of the page that a handler is serving
          closing   \* a booking that succeeded waits for the reload to close its dialog

pageVars == <<view, load, screen, poll, calls, closing>>
pagedVars == <<allVars, pageVars>>

Unloaded == [s \in Stages |-> "LOADING"]
NoLoad == [at |-> "none", rows |-> Unloaded]
Asking == [at |-> "asked", rows |-> Unloaded]

Kinds == {"away", "permit", "pay", "book"}
Steps == {"none", "choose-method", "pending", "success", "error"}

Screen(kind, s, step, p) == [kind |-> kind, stage |-> s, step |-> step, payment |-> p]
Away == Screen("away", 0, "none", NoPayment)
PermitScreen == Screen("permit", 0, "none", NoPayment)

\* An answer on its way to the poll: the payment's status, or "lost".
PollAnswers == {"PENDING", "PAID", "CANCELLED", "FAILED", "lost"}
PollStates == {"off", "asked", "serving", "waiting"} \union PollAnswers

\* "abandoned" and "bookClosed": the dialog that made the call was closed.
Calls == {"none", "initiate", "abandoned", "poll", "book", "bookClosed"}
NoCalls == [r \in HttpRequests |-> "none"]

PageInit ==
    /\ PayInit
    /\ view = Unloaded
    /\ load = Asking
    /\ screen = PermitScreen
    /\ poll = "off"
    /\ calls = NoCalls
    /\ closing = FALSE

-----------------------------------------------------------------------------
(* The timeline and the one action it offers. *)

Inspected == {"INSPECTED_PASS", "INSPECTED_FAIL"}

\* StageTimeline: the first stage that is not inspected.
IsCurrent(s) == view[s] \notin Inspected /\ \A t \in Stages : t < s => view[t] \in Inspected

\* renderAction (its third case, "reRequest", is offered to a failed stage, which
\* is never current).
Offered(s) ==
    IF ~IsCurrent(s) THEN "none"
    ELSE CASE view[s] = "AWAITING_PAYMENT"         -> "pay"
           [] view[s] = "PAID_AWAITING_INSPECTION" -> "book"
           [] view[s] = "INSPECTED_FAIL"           -> "reRequest"
           [] OTHER                                -> "none"

\* The stages in the inspector's queue (inspections.service queue).
InQueue(s) == status[s] \in AwaitingInspection

-----------------------------------------------------------------------------
(* Loading. *)

\* The tab is opened or loaded anew.
OpenPage ==
    /\ screen.kind = "away"
    /\ screen' = PermitScreen
    /\ load' = Asking
    /\ UNCHANGED <<allVars, view, poll, calls, closing>>

\* Everything the tab knew is gone; the handlers that serve it carry on.
Unload ==
    /\ screen' = Away
    /\ view' = Unloaded
    /\ load' = NoLoad
    /\ poll' = "off"
    /\ calls' = NoCalls
    /\ closing' = FALSE

LeavePage ==
    /\ screen.kind # "away"
    /\ Unload
    /\ UNCHANGED allVars

\* findByRef, toPermitDto: the statuses are those of one query.
LoadServed ==
    /\ load.at = "asked"
    /\ load' = [at |-> "served", rows |-> status]
    /\ UNCHANGED <<allVars, view, screen, poll, calls, closing>>

\* A booking that succeeded closes whichever booking dialog is open by now.
LoadShown ==
    /\ load.at = "served"
    /\ view' = load.rows
    /\ load' = NoLoad
    /\ screen' = IF closing /\ screen.kind = "book" THEN PermitScreen ELSE screen
    /\ closing' = FALSE
    /\ UNCHANGED <<allVars, poll, calls>>

-----------------------------------------------------------------------------
(* The payment dialog. *)

Paying(step) == screen.kind = "pay" /\ screen.step = step

OpenPayDialog(s) ==
    /\ screen.kind = "permit"
    /\ Offered(s) = "pay"
    /\ screen' = Screen("pay", s, "choose-method", NoPayment)
    /\ UNCHANGED <<allVars, view, load, poll, calls, closing>>

\* The button is disabled while its call is pending.
Initiate(r, p) ==
    /\ Paying("choose-method")
    /\ \A t \in HttpRequests : calls[t] # "initiate"
    /\ InitiateLoad(r, screen.stage, p)
    /\ calls' = [calls EXCEPT ![r] = "initiate"]
    /\ UNCHANGED <<view, load, screen, poll, closing>>

DialogFails == screen' = [screen EXCEPT !.step = "error"]

\* The stage has moved since the page loaded it.
InitiateRefused ==
    /\ Paying("choose-method")
    /\ \A t \in HttpRequests : calls[t] # "initiate"
    /\ status[screen.stage] # "AWAITING_PAYMENT"
    /\ DialogFails
    /\ UNCHANGED <<allVars, view, load, poll, calls, closing>>

TryAgain ==
    /\ Paying("error")
    /\ screen' = [screen EXCEPT !.step = "choose-method"]
    /\ UNCHANGED <<allVars, view, load, poll, calls, closing>>

\* isDismissable: not while the payment is pending. A call to initiate goes on.
CloseDialog ==
    /\ screen.kind \in {"pay", "book"} /\ screen.step # "pending"
    /\ screen' = PermitScreen
    /\ calls' = [r \in HttpRequests |-> CASE calls[r] = "initiate" -> "abandoned"
                                         [] calls[r] = "book"     -> "bookClosed"
                                         [] OTHER                 -> calls[r]]
    /\ UNCHANGED <<allVars, view, load, poll, closing>>

\* "Simulate confirmation": nobody waits for its answer.
Confirm(r) ==
    /\ Paying("pending")
    /\ ConfirmLoad(r, screen.payment)
    /\ UNCHANGED pageVars

\* The poll asks: a payment that is not a pending live one is only read ...
PollRead ==
    /\ poll = "asked"
    /\ LET row == payment[screen.payment] IN
          /\ ~(row.status = "PENDING" /\ row.mode = "live")
          /\ poll' = row.status
    /\ UNCHANGED <<allVars, view, load, screen, calls, closing>>

\* ... a pending live one keeps a handler busy with Paynow.
PollServed(r) ==
    /\ poll = "asked"
    /\ GetStatusLoad(r, screen.payment)
    /\ poll' = "serving"
    /\ calls' = [calls EXCEPT ![r] = "poll"]
    /\ UNCHANGED <<view, load, screen, closing>>

PollHearsAnyEnd ==
    /\ poll \in {"PAID", "FAILED", "CANCELLED"}
    /\ poll' = "off"
    /\ screen' = [screen EXCEPT !.step = "success"]
    /\ load' = Asking
    /\ UNCHANGED <<allVars, view, calls, closing>>

PollHearsGuessing ==
    /\ poll \in {"PAID", "FAILED", "CANCELLED"}
    /\ poll' = "off"
    /\ IF poll = "PAID"
       THEN /\ screen' = [screen EXCEPT !.step = "success"]
            /\ view' = [view EXCEPT ![screen.stage] = "PAID_AWAITING_INSPECTION"]
       ELSE DialogFails /\ UNCHANGED view
    /\ UNCHANGED <<allVars, load, calls, closing>>

PollHearsAndGoesOn ==
    /\ poll \in {"PAID", "FAILED", "CANCELLED"}
    /\ poll' = "waiting"
    /\ IF poll = "PAID"
       THEN screen' = [screen EXCEPT !.step = "success"] /\ load' = Asking
       ELSE DialogFails /\ UNCHANGED load
    /\ UNCHANGED <<allVars, view, calls, closing>>

\* PAID: success, and the permit is loaded again; FAILED or CANCELLED: an error.
PollHears ==
    /\ poll \in {"PAID", "FAILED", "CANCELLED"}
    /\ poll' = "off"
    /\ IF poll = "PAID"
       THEN screen' = [screen EXCEPT !.step = "success"] /\ load' = Asking
       ELSE DialogFails /\ UNCHANGED load
    /\ UNCHANGED <<allVars, view, calls, closing>>

\* Still pending, or no answer (catch): once more after POLL_INTERVAL_MS ...
PollWaitsOnlyIfPending ==
    /\ poll \in {"PENDING", "lost"}
    /\ poll' = IF poll = "PENDING" THEN "waiting" ELSE "off"
    /\ UNCHANGED <<allVars, view, load, screen, calls, closing>>

PollWaits ==
    /\ poll \in {"PENDING", "lost"}
    /\ poll' = "waiting"
    /\ UNCHANGED <<allVars, view, load, screen, calls, closing>>

PollAgain ==
    /\ poll = "waiting"
    /\ poll' = "asked"
    /\ UNCHANGED <<allVars, view, load, screen, calls, closing>>

-----------------------------------------------------------------------------
(* The booking dialog. *)

OpenBookDialog(s) ==
    /\ screen.kind = "permit"
    /\ Offered(s) = "book"
    /\ screen' = Screen("book", s, "none", NoPayment)
    /\ UNCHANGED <<allVars, view, load, poll, calls, closing>>

\* A refused booking only shows why.
Book(r) ==
    /\ screen.kind = "book"
    /\ \A t \in HttpRequests : calls[t] # "book"
    /\ Free(r) /\ r \in HttpRequests
    /\ BookLoad(r, screen.stage)
    /\ calls' = [calls EXCEPT ![r] = "book"]
    /\ UNCHANGED <<payRows, preq, view, load, screen, poll, closing>>

-----------------------------------------------------------------------------
(* Answers: the handler r that served a call of the page comes to its end. *)

\* A live payment may send the browser to Paynow's page, which ends this one
\* even if the dialog was closed; any other starts to be polled.
HearInitiate(r) ==
    LET p == preq[r].payment IN
    \/ payment[p].mode # "simulated" /\ Unload
    \/ /\ calls[r] = "initiate"
       /\ screen' = [screen EXCEPT !.step = "pending", !.payment = p]
       /\ poll' = "asked"
       /\ calls' = [calls EXCEPT ![r] = "none"]
       /\ UNCHANGED <<view, load, closing>>
    \/ /\ calls[r] = "abandoned"
       /\ calls' = [calls EXCEPT ![r] = "none"]
       /\ UNCHANGED <<view, load, screen, poll, closing>>

\* getStatus: still pending, the row markFailed wrote, the row of markPaid, or the
\* error of a markPaid that the gate refused.
StatusAnswer(r) ==
    CASE preq[r].pc = "poll"        -> "PENDING"
      [] preq[r].pc = "auditFailed" -> IF preq[r].answer = "cancelled" THEN "CANCELLED" ELSE "FAILED"
      [] preq[r].pc = "advanceGate" -> "lost"
      [] OTHER                      -> "PAID"

HearPoll(r) ==
    /\ poll' = StatusAnswer(r)
    /\ calls' = [calls EXCEPT ![r] = "none"]
    /\ UNCHANGED <<view, load, screen, closing>>

HearBooking(r) ==
    /\ load' = Asking
    /\ closing' = TRUE
    /\ calls' = [calls EXCEPT ![r] = "none"]
    /\ UNCHANGED <<view, screen, poll>>

Hear(r) ==
    \/ calls[r] = "none" /\ UNCHANGED pageVars
    \/ calls[r] \in {"initiate", "abandoned"} /\ HearInitiate(r)
    \/ calls[r] = "poll" /\ HearPoll(r)
    \/ calls[r] \in {"book", "bookClosed"} /\ HearBooking(r)

\* A handler runs on; at its end the page hears of it.
Serve(r) ==
    /\ (Resume(r) /\ UNCHANGED <<payRows, preq>>) \/ PayResume(r)
    /\ IF r \in HttpRequests /\ Free(r)' THEN Hear(r) ELSE UNCHANGED pageVars

-----------------------------------------------------------------------------
(* The network between the page and the server, and everybody else. *)

\* The poll's answer is lost, or the server refused it.
PollLost ==
    /\ poll = "asked"
    /\ poll' = "lost"
    /\ UNCHANGED <<allVars, view, load, screen, calls, closing>>

\* The answer of initiate is lost: the dialog fails, the payment exists all the same.
InitiateLost(r) ==
    /\ calls[r] \in {"initiate", "abandoned"}
    /\ IF calls[r] = "initiate" THEN DialogFails ELSE UNCHANGED screen
    /\ calls' = [calls EXCEPT ![r] = "none"]
    /\ UNCHANGED <<allVars, view, load, poll, closing>>

\* The inspector, Paynow's callbacks, other clients of the API.
Elsewhere(r) ==
    /\ IsIdle(r)
    /\ GateStep(r) \/ \E p \in Payments : CallbackLoad(r, p)
    /\ UNCHANGED pageVars

PageActs ==
    \/ OpenPage \/ LeavePage
    \/ \E s \in Stages : OpenPayDialog(s) \/ OpenBookDialog(s)
    \/ \E r \in HttpRequests : \/ \E p \in Payments : Initiate(r, p)
                               \/ Confirm(r)
                               \/ Book(r)
    \/ InitiateRefused \/ TryAgain \/ CloseDialog

PageRuns ==
    \/ LoadServed \/ LoadShown
    \/ PollRead \/ PollHears \/ PollWaits \/ PollAgain
    \/ \E r \in HttpRequests : PollServed(r)

PageNext ==
    \/ PageActs
    \/ PageRuns
    \/ PollLost
    \/ \E r \in HttpRequests : InitiateLost(r)
    \/ \E r \in Requests : Serve(r) \/ Elsewhere(r)
    \/ \E p \in Payments : (TimerFires(p) \/ PaynowSettles(p)) /\ UNCHANGED pageVars

\* A server that lives, and a network that does not lose the poll for ever.
\* Nothing makes the applicant, Paynow or its callback act.
PageSpec ==
    /\ PageInit
    /\ [][PageNext]_pagedVars
    /\ \A r \in Requests : WF_pagedVars(Serve(r))
    /\ \A p \in Payments : WF_pagedVars(TimerFires(p) /\ UNCHANGED pageVars)
    /\ WF_pagedVars(LoadServed) /\ WF_pagedVars(LoadShown)
    /\ WF_pagedVars(PollHears) /\ WF_pagedVars(PollWaits) /\ WF_pagedVars(PollAgain)
    /\ SF_pagedVars(PollRead) /\ SF_pagedVars(\E r \in HttpRequests : PollServed(r))

-----------------------------------------------------------------------------
(* Properties. *)

\* The page is well-formed: a poll belongs to a dialog that waits for a payment,
\* and at most one handler serves each kind of call.
PageTypeOK ==
    /\ PayTypeOK
    /\ view \in [Stages -> StageStatuses \union {"LOADING"}]
    /\ load \in [at : {"none", "asked", "served"}, rows : [Stages -> StageStatuses \union {"LOADING"}]]
    /\ screen \in [kind : Kinds, stage : Stages, step : Steps, payment : Payments \union {NoPayment}]
    /\ poll \in PollStates
    /\ poll # "off" <=> Paying("pending")
    /\ calls \in [HttpRequests -> Calls]
    /\ \A r \in HttpRequests : calls[r] # "none" => ~Free(r)
    /\ closing \in BOOLEAN

\* The dialog reports success only for a paid payment of the very stage it was
\* opened for, although its answers are old when they arrive.
SuccessIsPaid ==
    Paying("success") => /\ screen.payment \in Payments
                         /\ payment[screen.payment].paidAt
                         /\ payment[screen.payment].stage = screen.stage

\* What the page shows may be old but is never ahead of the server: no stage is
\* shown open, paid or passed that is not.
ViewNeverAhead ==
    \A s \in Stages : view[s] # "LOADING" =>
        /\ view[s] # "LOCKED" => status[s] # "LOCKED"
        /\ view[s] \notin {"LOCKED", "AWAITING_PAYMENT"} => PastFee(s)
        /\ view[s] = "INSPECTED_PASS" => inspection[s] = "PASS"

\* A dialog that waits for a simulated payment comes to an end although polls get
\* lost (unless the applicant closes the tab).
DialogSettles ==
    Paying("pending") /\ payment[screen.payment].mode = "simulated" ~> ~Paying("pending")

-----------------------------------------------------------------------------
(* What the page and its comments say, and the code does not keep. *)

AtRest == load.at = "none" /\ \A r \in Requests : Free(r)

\* "No dead ends - every state shows its next step" (CONTRACT): while the permit is
\* not complete an up-to-date page offers an action, or the inspector has the stage.
NoDeadEnd ==
    screen.kind = "permit" /\ view = status /\ AtRest =>
        \/ \E s \in Stages : Offered(s) # "none" \/ InQueue(s)
        \/ \A s \in Stages : status[s] = "INSPECTED_PASS"

=============================================================================
