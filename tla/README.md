# Vaka in TLA+

Vaka is a digital building-inspection gate: a permit has five stages, a stage is
paid for, inspected and signed off, and a PASS opens the next one; the last PASS
issues the Certificate of Occupation. The system is a NestJS API over a SQLite
database (`apps/api`) and a React client (`apps/web`). This directory models the
parts where its promises are made and can be lost: the stage gate, the payments
that drive it, the pages the applicant and the inspector act on, the application
for a permit, and the session everybody works under. They are checked with TLC on
small instances, and their main invariants are proved with TLAPS for every number
of stages, handlers, payments, people and tabs.

## 1. The system

| Part | State it keeps | Operations | What makes it correct |
| --- | --- | --- | --- |
| Stage gate (`permits/stage-gate.service.ts`, `common/domain.ts`) | `Stage`, `Inspection`, `Certificate`, `Permit` rows | mark paid, book, sign off (unlock next / certify), re-request | stages open in order behind a PASS; one certificate, for all stages; nothing undone; a PASS carries on |
| Inspections API (`inspections/*`) | none | queue, book, sign-off, re-request | refuses what the gate refuses |
| Audit trail (`common/audit/*`) | append-only `AuditLog` | record, best-effort | true, and complete unless an insert fails |
| Payments API (`payments/payments.service.ts`) | `Payment` rows, in-memory timers | initiate, status poll, confirm, Paynow callback, auto-pay timer | no stage passes its fee unpaid; money taken moves its stage; Paynow's word decides a live payment and is final |
| Paynow adapter (`payments/paynow.service.ts`) | mode, fixed at start | initiate, poll, simulate | live payments follow Paynow |
| Permits API (`permits/permits.service.ts`, `permits.mapper.ts`) | `Permit` rows | list, find, create | unique reference, stages created with their permit |
| Builder registry, certificates | registry rows, certificate rows | lookups | a lookup reports the row |
| Dashboard (`dashboard/*`) | none | overview, reconciliation, audit page | figures agree with the rows |
| Authentication (`auth/*`, `common/security/*`) | `User` rows, stateless tokens | register, login, refresh, logout, guards | one account per email; tokens only for whoever gave the password; a token's role decides |
| Web session (`web/lib/api.ts`, `AuthContext.tsx`) | per tab: access token, user, one refresh in flight; the cookie is shared | request, refresh, retry, login, register, logout, redirects | calls and redirects end; a user has a token; routes agree with the guards; a logout signs the tab out |
| Applicant pages | dialog and form state | apply, pay, poll, confirm, book | one next action; nothing shown before it is true; the applicant is sent to their own permit |
| Inspector pages | cached job queue, sign-offs under way | open a job, PASS, FAIL | done means recorded; a passed job stays gone |
| Seed, schema | the initial rows, the unique constraints | | |

How they interact. A request enters a controller, runs as one async function in a
single-threaded process and awaits the database at every step; between two awaits
any other request may run. The payments service calls the gate when a fee is paid,
the inspections service calls it for everything else; both leave audit entries. A
simulated payment is settled by an in-memory timer (5 s), by the confirm endpoint,
or by a callback; a live one by polling Paynow or by its callback. Nothing but the
sign-off (inspection row and stage status) is a database transaction, and no write
is conditional: every update is by id. So the hard behaviours are

  - a decision taken on a row that another handler changes before the write;
  - two settlers of one payment, two payments of one stage, two sign-offs;
  - a crash or a failed call between two writes that belong together;
  - Paynow's answer or callback lost, late or repeated, a callback that says anything;
  - legal sequences of calls that reach a state nobody can leave.

`PROJECT.json` lists them one by one at their lines (`hazards`), with the
properties that cover them.

## 2. Modules

| Module | Models | Uses |
| --- | --- | --- |
| `StageGate` | the stage gate of one permit with any number of handlers in flight | |
| `InspectionLedger` | abstract: results, openings and the certificate only grow | |
| `GateContract` | abstract: the gate as its docs tell it, one step per operation | |
| `StageGateRefinement` | the two refinement mappings | `StageGate`, INSTANCEs of both |
| `Payments` | payments, timers and Paynow over the gate | `StageGate` |
| `PermitPage` | the applicant's browser tab over the payments and the gate | `Payments` |
| `InspectorPage` | the inspector's browser tab over the gate | `StageGate` |
| `PermitRegistry` | applying for a permit: concurrent creates, references, the look-up that follows | |
| `Session` | sign-in, refresh, retry and sign-out of a browser with several tabs, and the guards | |
| `StageGateProofs` | theorems about the gate | `StageGateRefinement`, TLAPS |
| `PaymentsProofs` | theorems about the payments | `Payments`, `StageGateProofs` |
| `PermitPageProofs` | theorems about the page | `PermitPage`, `PaymentsProofs` |
| `InspectorPageProofs` | theorems about the inspector's page | `InspectorPage`, `StageGateProofs` |
| `GateContractProofs` | theorem about the contract | `GateContract`, TLAPS |
| `StageGateContractProofs` | theorems: the gate implements the contract | `StageGateProofs`, INSTANCEs `GateContractProofs` |
| `PermitRegistryProofs` | theorems about applications | `PermitRegistry`, TLAPS |
| `SessionProofs` | theorems about the session | `Session`, TLAPS |
| `MCStageGate`, `MCPayments`, `MCPermitRegistry`, `MCSession` | values for TLC: symmetry sets, audit actions, seeded references, roles | |

### StageGate

One permit, since no operation touches two. The variables are the columns that
matter: `status` and `bookedFor` (Stage), `inspection` (the result in the stage's
one Inspection row, or "NONE"), `certificate`, `permitStatus`, `audit`, and `req`,
the handlers suspended at an await. JavaScript runs a handler undisturbed up to
its next await, so **an action is one database call together with the code that
runs around it**: `BookLoad` is `getStageOrThrow` and `assertStatus`, `BookWrite`
the update, `AuditRecord` the audit insert and the branch after it. `req[r].pc`
names the call that runs when the handler resumes. The snapshot a handler carries
is used only for its id and key once the status was asserted, so `stage` and
`result` are all it keeps.

| Code | Actions |
| --- | --- |
| `markPaidAwaitingInspection` | `MarkPaidLoad`, `MarkPaidWrite`, audit |
| `book` | `BookLoad`, `BookWrite`, audit |
| `signOff` | `SignOffLoad`, `SignOffFindInspection`, `SignOffCommit` (the `$transaction`), audit, then `AfterAudit` chooses |
| `unlockNextStage` | `UnlockFind`, `UnlockWrite`, audit |
| `issueCertificate` | `CertificateCreate`, `CompletePermit`, audit |
| `reRequest` | `ReRequestLoad`, `ReRequestWrite`, audit |
| `AuditService.record` | `AuditRecord`, or `AuditSwallow` when the insert fails |
| a rejected database call | `CallFails` (the write may or may not have happened: it may fail before its action or after) |
| the process dies | `Crash`: `req` is lost, the rows stay |

`assertActorMayAct` reads the permit's owner between the load and the check; the
owner never changes and the check uses the row already read, so it gives no
further interleaving. The lookup of the permit in `issueCertificate` likewise.
`Inspection.stageId` and `Certificate.permitId` are unique in the schema: the
second create fails, which is modelled in `SignOffCommit` and `CertificateCreate`.
Initial states are the permit `PermitsService.create` makes and the shapes the
seed makes, with any number of passed stages.

### Payments

Extends the gate with the Payment rows, the scheduled auto-pay timers, the mode
(`live`, fixed at start by the credentials) and Paynow's own transactions (`txn`,
external). The second handler table `preq` holds the payment handlers, and
`AdvanceGate` is the call from `markPaid` into the gate: the same handler then
runs the gate's actions. A timer's callback runs as a handler named after its
payment, HTTP handlers are the rest of `Requests`.

| Code | Actions |
| --- | --- |
| `initiate` | `InitiateLoad`, `PaynowAccepts` / `PaynowSimulates` / `PaynowAnswerLost`, `CreatePayment`, audit (which schedules the timer) |
| `getStatus` | `GetStatusLoad`, `Poll` |
| `confirm` | `ConfirmLoad` |
| `handlePaynowCallback` | `CallbackLoad`, then `Poll`, `PollPosted`, or the posted status at once |
| `scheduleSimulatedAutoPay` | `TimerFires` |
| `markPaid` | `FindPayment`, `WritePaid`, audit, `AdvanceGate`, then the gate's `MarkPaidWrite` and audit |
| `markFailed` | `WriteFailed`, audit |
| the payer and Paynow | `PaynowSettles` |
| failures | `PayCallFails`, `PayAuditSwallow`, `GateFault`, `PayCrash` (timers are lost too) |

Both timer paths and HTTP paths reach `markPaid`, whose first line returns early
only on PAID. A live payment without a poll URL (`pollUrl` is `''`) is the mode
"unpollable".

The callback route is public and checks no hash, so `CallbackLoad` takes any post, with
any status, at any time, for any pending payment. What the handler then does hangs on
the posted `pollurl`, which `dto.pollurl ?? payment.pollUrl` prefers to the stored one:

| Payment | posted URL | the handler |
| --- | --- | --- |
| live | none, or its own | polls its transaction (`Poll`) |
| live, unpollable | another transaction's | polls that one, whose state is arbitrary (`PollPosted`) |
| live | empty | believes the posted status |
| unpollable | its own | polls its transaction |
| unpollable | none, or empty | believes the posted status |
| simulated | any | believes the posted status |

`PostedUrls` says which URLs callbacks carry. `PayFaults`, `PageHealthy`, and every theorem
but two, have all of them. `PayHealthy`, `LiveFeesArePaid` and `SettlementIsFinal` assume
`PostedUrls \subseteq {"absent", "own"}` (what Paynow itself would post), which leaves every
status, every moment, and every post for a simulated or unpollable payment. `LivePaidIsMoney`
and `SettledIsFinal` speak of payments with a poll URL only: that much is left of the
comment "Never trust the POSTed status alone", and of "no-op-safe in simulation mode"
nothing is (`FindPostTrusted`). A simulated payment's status is not final either: a callback
may fail a payment its timer has just paid, and the timer, a confirmation or another
callback may pay one that has failed, because `markFailed` reads nothing and `markPaid`
stops only at PAID although its comment speaks of "a PENDING payment". What all callbacks
leave true is `PaidStageHasPayment`, `PaidAdvancesStage` and `SimulatedSettles`, all stated
with `paidAt`, which no later write removes.

### PermitPage

Extends the payments with one tab that shows `/permits/:ref`. `view` is what the
last load of the permit brought, `load` the load under way (`invalidateQueries`
replaces one in flight), `screen` the dialog and its step, `poll` where the polling
effect stands, `calls` which suspended handlers answer a call of this tab, and
`closing` the promise of a booking that waits for the reload before it closes its
dialog. The server side is untouched: a call of the page is an arrival of
`Payments` or `StageGate`, `Serve` runs the handler on, and at its end `Hear` gives
its answer to the page.

| Code | Actions |
| --- | --- |
| `PermitDetailPage`, its query | `OpenPage`, `LeavePage`, `LoadServed` (`findByRef`), `LoadShown` |
| `StageTimeline`, `renderAction` | `IsCurrent`, `Offered`; `OpenPayDialog`, `OpenBookDialog` |
| `PayStageModal.initiate` | `Initiate`, `InitiateRefused`, `InitiateLost`, `HearInitiate` (with the redirect to Paynow) |
| the polling effect | `PollRead` / `PollServed` (a handler of `getStatus` that asks Paynow), `PollLost`, `HearPoll`, `PollHears`, `PollWaits`, `PollAgain` |
| simulate confirmation, try again, close | `Confirm`, `TryAgain`, `CloseDialog` |
| `BookInspectionModal` | `Book`, `HearBooking` |
| the inspector, Paynow's callbacks, other clients of the API | `Elsewhere` |

React Query's mutation callbacks run even after their dialog was closed: an
abandoned initiate still redirects, an abandoned booking still reloads and closes
the booking dialog that is open by then. The window's focus does not reload
(`refetchOnWindowFocus: false`). The "request re-inspection" button has no action
because no reachable page shows it (`FindDeadEnd`). A load that fails, navigation
inside the application (which keeps the query cache) and a second applicant who
pays the same permit are not modelled.

### InspectorPage

Extends the gate with one tab of the inspector. Queue and job page show one cached
query (`['inspection-queue']`): `jobs` is what was last loaded and whether the last
load failed, `fetch` the load under way. `click` holds the sign-offs of the tab from
the button to the end of `onSuccess`, each served by a handler of the gate (`by`),
`page.latest` the one the buttons tell of (a mutation observer follows the last
`mutate`). The job on the page is looked up in the cache, be it old, so a sign-off of
a stage that no longer awaits one can be clicked; the gate refuses it.

| Code | Actions |
| --- | --- |
| the routes, links and cards | `Open`, `TapJob`, `GoBack`, `Close` |
| the buttons, `signOff.mutate` | `SignOff` (each button waits for its own result only: `Enabled`) |
| `POST /inspections/sign-off` | `Arrives`, `Refused`, `Serve`, `Lost` |
| the query, every 30 s or when stale | `Refetch`, `FetchServed` (`queue`), `FetchShown`, `FetchFails` |
| `onSuccess`: `invalidateQueries`, `navigate` | `HearOk` (a load under way is cancelled, a new one started), `GoOn` |
| `onError` | `HearRefused` |
| everybody else at the gate | `Elsewhere` |

`onSuccess` awaits the reload and navigates whatever page the tab shows by then: an
inspector who has opened another job meanwhile is taken from it. The model does that
(`GoOn`); no document says otherwise.

### PermitRegistry

All permits of the register and the handlers of `PermitsService.create`. A reference
is `[year, number]`; the number is the count of permits plus one or, if that reference
exists, the last five digits of the clock (`Clock`), which nobody looks up. Count,
look-up and create are three database calls (`CountPermits`, `LookForClash`,
`Create`), so handlers race between them; `Permit.ref @unique` decides. The council
and the builder's registration are read before and change nothing. `page` is
`NewPermitPage` of each person: `Submit`, `HearCreated` (to `/permits/:ref`, where
`FoundBy` is `findByRef`), `HearRefused`, `Leave`; `Fails`, `Crash` and `AnswerLost`
are the faults. A handler whose create was refused, or whose answer was lost after it
left no row, may be called again.

### Session

One browser. `cookie` is the refresh cookie its tabs share; each tab has `token`
(`accessToken` of `api.ts`), `user` and `loading` (`AuthContext`), `path` (the
router) and `refresh` (`refreshPromise`). `call` holds the calls under way: a call is
sent with what it carries at that moment, served, answered, and heard, and between
these steps everything else may happen. A token, a cookie and a password are named by
their account; whether one has expired is a choice of the guard. `proved` is history:
the accounts whose password this browser gave or set.

| Code | Actions |
| --- | --- |
| `AuthProvider`'s effect | `Open`, `HearBoot` |
| `LoginPage`, quick logins | `SubmitLogin`, `SubmitRegister`, `HearLogin` |
| `AppShell` | `ClickLogout`, `HearLogout`, `ClickBrand` |
| `ProtectedRoute`, `RoleRedirect` | `Destination`, `Route` |
| what pages ask | `PageCall`, `Asks` |
| `request`, `refreshAccessToken` | `Arrive` (a first 401 starts or joins the refresh), `RefreshServed`, `RefreshHeard` (every waiting call is sent again, or ends) |
| `AuthService`, `AuthController` | `Login`, `RegisterFind`, `RegisterCreate`, `Refresh`, `Logout` |
| `JwtAuthGuard`, `RolesGuard`; the handlers' own `ForbiddenException` | `Guarded`, `Admits`; `UnlinkedInspector` (queue and sign-off without an `inspectorId`), `PermitMayBeOthers` (`assertActorMayAct`) |
| other browsers; failures, throttling, lost answers | `RegisteredElsewhere`; `Fails` |

Three things the model shows and no document rules out: a refresh answered after a
logout brings cookie and token back (the tab shows nobody, the next tab is signed in
again); a boot check that fails late signs out the user who logged in meanwhile; and a
refresh keeps the token but not the user it came with, so after a login in another tab
a page may act for somebody else than it shows. A 403 therefore has three causes
(`ForbiddenIsExplained`): that mix-up, an inspector account without an inspector record
(`User.inspectorId` is nullable; the constant `Unlinked`), and an applicant who acts on a
permit that may be somebody else's. A disagreement between the routes and `@Roles` would
be a fourth.

### The abstract specifications

`InspectionLedger` says what survives everything: a result is recorded once, in an
open stage, and stays; a stage opens only behind recorded PASSes; the certificate
comes after all of them. The gate implements it under every interleaving, failure
and crash (`KeepsLedger`; run `GateFaults`; theorem `GateKeepsLedger`).

`GateContract` is the state machine the docs describe, in which a PASS opens the
next stage in the step that records it. The gate implements it when one request
runs at a time and none is cut off (`KeepsContract`, run `GateSequential`). The
mapping credits a handler that has committed a PASS with the unlock it is about to
write (theorem `GateKeepsContract`); `FindLostPass` shows why it cannot hold with two
requests. A crash between the sign-off's transaction and the unlock is the other reason:
the PASS is then on record, the next stage LOCKED, and the sign-off refused when retried.

## 3. Runs

| Run | Instance | Shows |
| --- | --- | --- |
| `GateFaults` | 3 stages, 2 handlers, faults | type correctness, order, certificate, unlocks never refused, handlers' assumptions, no false entry about an inspection, nothing undone, the ledger |
| `GateSequential` | 5 stages, 1 handler, no faults, fair | rows agree; exactly one next action; the audit trail misses nothing; the contract; every PASS carries on |
| `PayFaults` | 1 stage, 2 payments, 1 HTTP handler and 2 timers, faults, every callback | no stage past its fee without a payment marked paid |
| `PayHealthy` | 1 stage, 1 payment, 2 HTTP handlers and its timer, callbacks with the payment's own poll URL or none, no faults, fair | money moves its stage; simulated payments get paid; a payment with a poll URL is paid only on Paynow's word, and settled once |
| `PageHealthy` | 1 stage, 1 payment, 1 HTTP handler and its timer, lost answers, fair | success only for a paid payment of the stage; nothing shown before it is true; a waiting dialog ends |
| `Inspector` | 1 stage, 1 handler, 2 sign-offs at once, lost requests and failed loads, fair | done is recorded; a passed job stays gone; a sign-off ends |
| `Session` | 1 tab, 2 calls at once and a shared refresh, an applicant and an inspector without an inspector record, lost answers, fair | sessions are earned; a user has a token; a 403 is explained; calls and redirects end; a logout signs out |
| `Registry` | 3 people, 2 seeded permits, 2 creates, 2 clock values, faults, fair | references are unique; the applicant is sent to their own permit; permits stay; applications end |
| `FindReinspection` | 2 stages, 1 handler | *violated*: a stage re-requested after FAIL can never be signed off |
| `FindLostPass` | 2 handlers, no faults | *violated*: a late booking overwrites INSPECTED_PASS |
| `FindPostTrusted` | 1 payment, 1 HTTP handler and its timer, faults, every callback | *violated*: a posted status settles a payment without Paynow's word |
| `FindDeadEnd` | as `PageHealthy` | *violated*: a failed stage is never current, so the page offers nothing |

**Bounds.** Three stages have a first, an inner and a final stage, so every
distinction `isFinalStage` and `nextStageKey` make occurs, and a stage with two
predecessors; the sequential run uses the code's five. Two handlers are enough for
every read-check-write race of the code, which pairs one stale handler with one
that overtakes it; crashes and failed calls may happen any number of times. Two
payments make the double payment of one stage possible. One stage is enough for
the payments, since a payment is tied to one stage and the gate decides what
happens to the others; in `PayHealthy` one payment is settled by up to
three handlers (two HTTP, one timer). `Watched` selects which audit actions are
recorded in `audit`: no action reads the trail, so leaving entries out changes
nothing else. One payment and one HTTP handler let `PageHealthy` leave a payment to its timer,
close the dialog, reopen it on a stale page and be refused; the handler is shared by
the page and everybody else, so the page's calls and the inspector's alternate
while the timer runs beside both.
Two clicks let PASS and FAIL of the inspector's page race, one handler lets any other
request come between them; one stage suffices, because nothing on that page depends
on a second one except which job is shown. `PassedStaysGone` is a promise for requests
that come one at a time: with two handlers the lost pass of `FindLostPass` would bring
the job back to the queue. In `Registry` the seeded references are
sparse like those of `seed.ts`, so the count runs into one, the clock's number may be
taken by a seed or by the other handler, and two handlers may choose the same number
with or without a clash before them; the council's clerk owns nothing. In `Session`
two calls and the refresh overtake one another, a browser may start with a cookie of
either account, and either may log in, register or be registered elsewhere; one tab is
enough for two accounts to be mixed up (a logout, a second login, a late refresh). Two
tabs multiply the states beyond what the run may take: what they add to the safety
properties is covered by the theorems, and so are the roles the instance leaves out
(`RoutesMatchGuards`, `HomeIsReached`); with a third account the run takes longer than
is practical, and finds nothing. The
trail of logins is left out of the run (`Watched = {}`) and covered by `SessionsEarned`.
The theorems remove the bounds on stages, handlers, payments, people, permits, tabs,
calls and accounts.

**Fairness.** The event loop resumes every handler whose awaited call has settled,
and a live database settles every call: weak fairness of each handler's `Resume`.
`PayHealthySpec` adds weak fairness of each timer, which `setTimeout` gives while
the process lives. `PageSpec` is fair to the page's own code (React runs an effect,
a browser fires its timers, a load is answered) and strongly fair to the poll
being served: a network that loses some answers does not lose all of them for ever.
`TabSpec` is fair to the handlers, to loads and to answers, and strongly fair to a
sign-off reaching the server (`Reaches`): the handler is shared with other requests, and
a server that keeps answering does not starve one of them for ever. `Session` and
`PermitRegistry` are fair to the steps of calls (`Runs`, `Refreshes`, `Serve`, `HearBack`)
and to the router; a crash, a failure or a lost answer ends a call, so it cannot delay
one for ever. Nothing makes a user, Paynow or its callback act, so no fairness is
assumed of them, and none of the gate's or the payments' handlers where crashes may
happen.

**Deadlock** is checked in `Session`. Elsewhere the system may stop
(`CHECK_DEADLOCK FALSE`): a completed permit accepts no operation, and a permit stuck
after a failed re-inspection neither (the latter is what `FindReinspection` states),
and the permits of an instance of `PermitRegistry` are used up.

## 4. Proofs

`StageGateProofs` proves, from `NumStages \in Nat \ {0}` and `NoDate \notin Dates`
and for arbitrary sets of handlers, the theorems listed in `PROJECT.json`. The
argument:

  - `TypeCorrect` and `HandlersCorrect` are proved together: the type of an audit
    entry "STAGE_UNLOCKED" needs to know that a handler that unlocks is not at the
    final stage, and that fact is preserved only in typed states.
  - `GateInv` is `TypeOK /\ HandlersConsistent /\ GateOrder /\ CertificateSound /\
    UnlockNeverRefused`. `GateOrder` alone is not inductive: `UnlockWrite` opens a
    stage without reading an inspection. What makes it safe is that the handler
    committed a PASS (`Unlocking`), that inspections never change once recorded,
    and that the stage it passed was itself open, so all earlier ones are passed.
    `CertificateSound` rests on the same facts at the final stage.
    `UnlockNeverRefused` needs the unique inspection row: a second handler cannot
    commit the same stage, so one handler at a time is between the commit and the
    unlock.
  - `NothingIsUndone` and `GateKeepsLedger` follow from one lemma about steps
    (`StepKeeps`: inspections stay, openings stay, the certificate stays) and, per
    action, the ledger step it implements or the stutter.
  - `AuditIsTruthful` adds that evidence for an entry never goes away, and
    `AuditIsComplete`, for a process that lives and a trail that keeps every kind of
    entry (`Telling \subseteq Watched`), that each missing entry has a handler about to
    write it.
  - `RowsAgreeAlone`, for one request at a time (`Requests = {r}`): a lone handler about
    to write a status without an inspection found a stage that has no PASS
    (`LoneHandler`), and nobody else can add one. With two handlers it is false
    (`FindLostPass`).

`PaymentsProofs` proves about the payments, for any set of them:

  - `PaymentsKeepGate`: every step of the composition is a step of the gate or
    leaves it alone, so all theorems about the gate hold under the payments. The
    one step that needs an argument is `AdvanceGate`: a payment handler must not
    have a suspended gate handler of its own (`Rested`), which holds because a
    payment handler enters the gate only as its last act.
  - `NoStageInspectedUnpaid`: `PayFacts` says that a handler that creates a payment
    is alone with it, that every other handler's payment exists for the stage it
    knows, and that one past `WritePaid` has a paid payment; `FeeInv` adds that a
    gate handler about to write PAID_AWAITING_INSPECTION has a paid payment of its
    stage, and one about to write a later status found the fee passed.
  - `PaymentsTyped` needs that a timer is set once, by the only handler that ever
    initiates its payment (`TimerInv`).
  - `MoneyMovesStage`, while the process lives (`PayHealthySpec`; a crash or a failed
    call between `markPaid` and the gate does leave money behind). `PaidAdvancesStage`
    is not inductive: the gate handler that `AdvanceGate` starts reads the stage again,
    and gives up unless the stage awaits payment. A stage past its fee is harmless, a
    locked one would lose the money, so `AdvanceInv` adds that a stage with a payment,
    or with a handler about to create one, is not locked (`FeeOpen`).
  - `LiveFeesArePaid` and `SettlementIsFinal`, under every failure modelled, with the
    assumption `OwnUrls` on callbacks (`PostedUrls \subseteq {"absent", "own"}`). Two
    handlers may settle one payment, and neither reads the row again before it writes.
    `AgreeInv` says that a row with a poll URL tells nothing Paynow has not said, and
    that a handler on its way to `markPaid` or `markFailed` carries Paynow's own word on
    its payment; that word is final once given (`TxnRests`), so every later write repeats
    the first. Without the assumption both are false: see `FindPostTrusted`.

They assume `Payments \subseteq Requests` (a timer runs as a handler) and
`NoPayment \notin Payments`.

`PermitPageProofs` proves about the page, for any number of stages, payments and
handlers:

  - `PageKeepsPayments`: every step of the page is a step of the payments or leaves
    them alone, so everything proved of payments and gate holds under the page. It
    rests on `DialogInv`: a dialog that waits has a payment, and a handler that
    serves a call of the dialog stands where that call has brought it.
  - `SuccessIsTrue`: `DialogInv` says of each handler that serves the poll either
    that it works on the dialog's payment, or that it has paid it and moves the gate
    (`ServesPoll`); so an answer "PAID" is true when it is given, and a payment row
    keeps its stage and its date of payment (`RowsStay`).
  - `PageIsNeverAhead`: a load brings the statuses of one query, and what they say
    stays true because the gate takes nothing back (`GateGoesOn`). A load that is
    still on its way counts as well (`ViewInv`).
  - `PageKeepsMoneyMoving`: neither the network nor the closing of the tab is a failure
    of the server, so every step of the page is a step of the payments that live
    (`PaymentsOfStep`), and `PaidAdvancesStage` holds under it too, with every callback.
  - `PageTyped` needs that what a poll reads is the status of a created payment
    (`DialogInv`), and that a call under way has a handler at work (`CallsServed`): a
    handler that comes to rest has answered the page.

`InspectorPageProofs` proves about the inspector's tab, for any number of stages and
sign-offs under way:

  - `TabKeepsGate`: every step of the tab is a step of the gate or leaves it alone.
  - `DoneIsTrue`: `SignOffInv` says of each sign-off that is being served that its handler
    carries its stage and result and, once past the transaction, that they are on record;
    a handler that ends elsewhere than at an audit entry answers an error.
  - `PassedAreGone`, for one request at a time: a load served since the PASS cannot list
    the stage, because the rows agree (`RowsAgreeAlone`); `HearOk` cancels any older load;
    and a list that still shows it stays marked as failed (`QueueInv`).

`GateContractProofs` proves that the contract keeps exactly one stage open.

`StageGateContractProofs` proves, for one request at a time (`Requests = {r}`) under
`HealthySpec` and for any number of stages, what `GateSequential` checks on five:

  - `GateKeepsContract`. `AloneInv` is `GateInv /\ RowsAgree /\ LoneHandler /\
    SnapshotFresh`. The last says that what the lone handler read of its stage still
    holds when it writes: the contract's guards are about the present, the code's about
    a row read one call earlier. The writes then implement the contract's operations,
    with `SignOffCommit` as the step that opens the next stage or completes the permit;
    `UnlockWrite`, `CompletePermit` and all reads and audit entries are stutters, the first
    two because the mapping has credited them.
  - `OneNextActionHolds` carries the contract's theorem over through the mapping.

`PermitRegistryProofs` proves the safety properties of `PermitRegistry` for any finite
sets of seeds and creates and any people. The count is not what makes references
unique, the database is: `RefsAreUnique` is inductive with the types. `AnswerIsOwnPermit`
needs `Inv`: a handler past `Create` has made its row, with the reference it chose and
with its caller as the owner if the caller is an applicant; a page that waits belongs to
exactly the handler that works for it; and rows stay.

`SessionProofs` proves about `Session`, for any tabs, calls and accounts:

  - `SessionTyped`: an email has at most one account although registrations race, and
    a call that waits has a refresh to wait for: `Arrive` starts one or finds one, and
    only `RefreshHeard`, which wakes all of them, ends it.
  - `SessionsEarned`: whatever the browser holds, or is about to hear, is of an account
    in `proved`; a token is only ever copied from an answer, an answer's account from a
    password given, an account created or a cookie held.
  - `UsersHaveTokens`: user and token are set together and a failed refresh keeps both.
  - `RoutesMatchGuards` (`ForbiddenIsExplained`): a page is rendered, and calls, only
    under a role its route admits, and every endpoint it asks admits that role, by cases
    over the tables; so a call that carries its own page's user can be forbidden only by
    a handler, and `CallInv` keeps with each answer why.
  - `HomeIsReached`: each role's home page admits that role, so the router comes to rest.

Only model-checked: liveness (`PassCarriesOn`, `SimulatedSettles`, `DialogSettles`,
`SignOffEnds`, `CallsEnd`, `RedirectsEnd`, `LogoutSignsOut`, `ApplicationsEnd`), which is
out of the prover's reach. Every safety and action property of the passing runs is the
statement of a theorem, `LivePaidIsMoney` and `SettledIsFinal` under the assumption their
run makes too.

## 5. Not modelled

Amounts, names, formatting, GPS and photos; the owner check of the gate (it is made on
a row already read and changes no state; that it may answer 403 is in `Session`);
the components marked `not_modelled` or `partly` in `PROJECT.json`, each with its reason
there: the builder registry, the certificate look-up and the dashboard only read. The
badge of the application form looks up the trimmed registration number and `create` the
number as typed; both read a table nothing writes.

Two behaviours that come out of the models of payments and page are decided by comments
of the code or beyond its reach, and are no findings: a configured Paynow that refuses or
fails gets the payment simulated and paid (`paynow.service.ts:84-101`, which logs
"falling back to simulation"), and a live payment sends the browser away from the page that would poll, so that only Paynow's
callback can settle it (`PayStageModal.tsx:46`).

## 6. Plan

 1. Done: gate, ledger, contract, payments, both pages, applications, session; the
    proofs of their safety under every failure modelled.
 2. Done: the safety proofs of the server in a process that lives, of the contract, and
    of the page's types. Liveness stays with TLC.
 3. Left to model: the figures of the dashboard, once a document says what they promise.
