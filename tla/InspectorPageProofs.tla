-------------------------- MODULE InspectorPageProofs --------------------------
(***************************************************************************)
(* The inspector's tab is one more client of the gate; it reports a         *)
(* sign-off done only when its result is on record, and, as long as one     *)
(* request runs at a time, a job it has passed does not come back: for any  *)
(* number of stages and sign-offs.                                          *)
(***************************************************************************)
EXTENDS InspectorPage, StageGateProofs

-----------------------------------------------------------------------------
(* The tab's own state. *)

LEMMA TabTypeInit == TabInit => InspectorTypeOK
BY StagesFacts, NoneAssumption
   DEF TabInit, InspectorTypeOK, Unknown, Jobs, NoFetch, Fetch, Away, Page, Unclicked, Click,
       Phases, Results

\* Where a load ends, whether it brought the jobs or not.
LEMMA GoOnTyped ==
    ASSUME InspectorTypeOK, GoOn, fetch' = NoFetch, jobs' \in Jobs
    PROVE  InspectorTypeOK'
<1> DEFINE done == {c \in Clicks : click[c].phase = "reloading"}
<1>1. QueuePage \in Page /\ QueuePage.at = "queue" /\ QueuePage.latest = None /\ Unclicked \in Click
  BY StagesFacts DEF QueuePage, Away, Page, Unclicked, Click, Phases, Results
<1>2. /\ click' \in [Clicks -> Click]
      /\ \A c \in Clicks : click'[c].phase # "reloading"
      /\ \A c \in Clicks : c \notin done => click'[c] = click[c]
  BY <1>1 DEF GoOn, InspectorTypeOK, Unclicked
<1>3. passed' \subseteq Stages
  BY DEF GoOn, InspectorTypeOK, Click
<1>4. fetch' \in Fetch
  BY DEF NoFetch, Fetch
<1>5. CASE done # {}
  <2>1. page' = QueuePage
    BY <1>5 DEF GoOn
  <2> QED
    BY <1>1, <1>2, <1>3, <1>4, <2>1 DEF InspectorTypeOK
<1>6. CASE done = {}
  <2>1. page' = page /\ \A c \in Clicks : click'[c] = click[c]
    BY <1>2, <1>6 DEF GoOn
  <2>2. page.latest \in Clicks \union {None}
    BY DEF InspectorTypeOK, Page
  <2> QED
    BY <1>2, <1>3, <1>4, <2>1, <2>2 DEF InspectorTypeOK
<1> QED
  BY <1>5, <1>6

\* A change of one sign-off that keeps the stage it is for.
LEMMA PhaseTyped ==
    ASSUME InspectorTypeOK, NEW c \in Clicks, NEW new \in Click,
           click' = [click EXCEPT ![c] = new], new.stage = click[c].stage,
           fetch' \in Fetch, fetch.at # "none" => fetch'.at # "none",
           new.phase = "reloading" => fetch'.at # "none",
           UNCHANGED <<jobs, page, passed>>
    PROVE  InspectorTypeOK'
<1>1. /\ click' \in [Clicks -> Click]
      /\ \A d \in Clicks : click'[d].stage = click[d].stage
      /\ \A d \in Clicks : d # c => click'[d] = click[d]
      /\ click'[c] = new
  BY DEF InspectorTypeOK
<1>2. page.latest \in Clicks \union {None}
  BY DEF InspectorTypeOK, Page
<1> QED
  BY <1>1, <1>2 DEF InspectorTypeOK

LEMMA TabTypeStep == InspectorTypeOK /\ [TabNext]_allVars => InspectorTypeOK'
<1> SUFFICES ASSUME InspectorTypeOK, [TabNext]_allVars PROVE InspectorTypeOK'
  OBVIOUS
<1> USE StagesFacts, NoneAssumption
<1>1. CASE Open \/ Close \/ GoBack \/ \E s \in Stages : TapJob(s)
  <2>1. /\ QueuePage \in Page /\ Away \in Page /\ \A s \in Stages : JobPage(s) \in Page
        /\ QueuePage.latest = None /\ Away.latest = None
        /\ \A s \in Stages : JobPage(s).latest = None
    BY DEF QueuePage, JobPage, Away, Page
  <2>2. Asking \in Fetch /\ Asking.at = "asked" /\ NoFetch \in Fetch /\ Unknown \in Jobs
    BY DEF Asking, NoFetch, Fetch, Unknown, Jobs
  <2>3. Unclicked \in Click /\ Unclicked.phase = "none"
    BY DEF Unclicked, Click, Phases, Results
  <2>4. CASE Open
    <3>1. page' \in Page /\ page'.latest = None
      BY <2>1, <2>4 DEF Open
    <3>2. UNCHANGED <<jobs, click, passed>> /\ fetch' = Asking
      BY <2>4 DEF Open
    <3> QED
      BY <2>2, <3>1, <3>2 DEF InspectorTypeOK
  <2>5. CASE Close
    <3>1. page' = Away /\ jobs' = Unknown /\ fetch' = NoFetch /\ passed' = {}
      BY <2>5 DEF Close
    <3>2. click' \in [Clicks -> Click] /\ \A c \in Clicks : click'[c].phase # "reloading"
      BY <2>3, <2>5 DEF Close
    <3> QED
      BY <2>1, <2>2, <3>1, <3>2 DEF InspectorTypeOK
  <2>6. CASE GoBack \/ \E s \in Stages : TapJob(s)
    <3>1. page' \in Page /\ page'.latest = None
      BY <2>1, <2>6 DEF GoBack, TapJob
    <3>2. UNCHANGED <<jobs, fetch, click, passed>>
      BY <2>6 DEF GoBack, TapJob
    <3> QED
      BY <3>1, <3>2 DEF InspectorTypeOK
  <2> QED
    BY <1>1, <2>4, <2>5, <2>6
<1>2. ASSUME NEW c \in Clicks, NEW v \in Results, SignOff(c, v) PROVE InspectorTypeOK'
  <2>1. [phase |-> "sent", stage |-> page.stage, result |-> v, by |-> None] \in Click
    BY DEF InspectorTypeOK, Page, Click, Phases
  <2>2. /\ click' \in [Clicks -> Click]
        /\ click'[c].phase = "sent" /\ click'[c].stage = page.stage
        /\ \A d \in Clicks : d # c => click'[d] = click[d]
    BY <1>2, <2>1 DEF SignOff, InspectorTypeOK
  <2>3. /\ page' \in Page /\ page'.at = "job" /\ page'.latest = c /\ page'.stage = page.stage
        /\ UNCHANGED <<jobs, fetch, passed>>
    BY <1>2 DEF SignOff, FindsJob, InspectorTypeOK, Page
  <2> QED
    BY <2>2, <2>3 DEF InspectorTypeOK
<1>3. ASSUME NEW c \in Clicks, NEW r \in Requests, Arrives(c, r) PROVE InspectorTypeOK'
  <2> DEFINE new == [click[c] EXCEPT !.phase = "serving", !.by = r]
  <2>1. new \in Click /\ new.stage = click[c].stage /\ new.phase = "serving"
    BY DEF InspectorTypeOK, Click, Phases
  <2>2. click' = [click EXCEPT ![c] = new] /\ UNCHANGED <<jobs, fetch, page, passed>>
    BY <1>3 DEF Arrives, InspectorTypeOK
  <2>3. fetch' \in Fetch
    BY <2>2 DEF InspectorTypeOK
  <2> HIDE DEF new
  <2> QED
    BY <2>1, <2>2, <2>3, PhaseTyped
<1>4. ASSUME NEW c \in Clicks, Refused(c) \/ Lost(c) PROVE InspectorTypeOK'
  <2> DEFINE new == [click[c] EXCEPT !.phase = "refused"]
  <2>1. new \in Click /\ new.stage = click[c].stage /\ new.phase = "refused"
    BY DEF InspectorTypeOK, Click, Phases
  <2>2. click' = [click EXCEPT ![c] = new] /\ UNCHANGED <<jobs, fetch, page, passed>>
    BY <1>4 DEF Refused, Lost, SetPhase, InspectorTypeOK
  <2>3. fetch' \in Fetch
    BY <2>2 DEF InspectorTypeOK
  <2> HIDE DEF new
  <2> QED
    BY <2>1, <2>2, <2>3, PhaseTyped
<1>5. ASSUME NEW c \in Clicks, HearOk(c) PROVE InspectorTypeOK'
  <2> DEFINE new == [click[c] EXCEPT !.phase = "reloading"]
  <2>1. new \in Click /\ new.stage = click[c].stage
    BY DEF InspectorTypeOK, Click, Phases
  <2>2. /\ click' = [click EXCEPT ![c] = new] /\ UNCHANGED <<jobs, page, passed>>
        /\ fetch' \in Fetch /\ fetch'.at # "none"
    BY <1>5 DEF HearOk, SetPhase, InspectorTypeOK, Asking, Fetch
  <2> HIDE DEF new
  <2> QED
    BY <2>1, <2>2, PhaseTyped
<1>6. ASSUME NEW c \in Clicks, HearRefused(c) PROVE InspectorTypeOK'
  <2>1. /\ click' \in [Clicks -> Click]
        /\ click'[c].phase = "none"
        /\ \A d \in Clicks : d # c => click'[d] = click[d]
    BY <1>6 DEF HearRefused, InspectorTypeOK, Unclicked, Click, Phases, Results
  <2>2. /\ page' \in Page /\ page'.at = page.at /\ page'.stage = page.stage
        /\ UNCHANGED <<jobs, fetch, passed>>
    BY <1>6 DEF HearRefused, InspectorTypeOK, Page
  <2>3. \/ page'.latest = None
        \/ page'.latest = page.latest /\ page'.latest \in Clicks /\ page'.latest # c
    BY <1>6 DEF HearRefused, InspectorTypeOK, Page
  <2>4. page'.at # "job" => page'.latest = None
    BY <2>2, <2>3 DEF InspectorTypeOK
  <2>5. page'.latest # None => click'[page'.latest].stage = page'.stage
    BY <2>1, <2>2, <2>3 DEF InspectorTypeOK
  <2>6. \A d \in Clicks : click'[d].phase = "reloading" => fetch'.at # "none"
    BY <2>1, <2>2 DEF InspectorTypeOK
  <2> QED
    BY <2>1, <2>2, <2>4, <2>5, <2>6 DEF InspectorTypeOK
<1>7. CASE Refetch \/ FetchServed
  <2>1. fetch' \in Fetch /\ fetch'.at # "none"
    BY <1>7 DEF Refetch, FetchServed, Asking, Fetch
  <2>2. UNCHANGED <<jobs, page, click, passed>>
    BY <1>7 DEF Refetch, FetchServed
  <2> QED
    BY <2>1, <2>2 DEF InspectorTypeOK
<1>8. CASE FetchShown \/ FetchFails
  <2>1. jobs' \in Jobs
    <3>1. CASE FetchShown
      BY <3>1 DEF FetchShown, InspectorTypeOK, Jobs, Fetch
    <3>2. CASE FetchFails
      BY <3>2 DEF FetchFails, InspectorTypeOK, Jobs
    <3> QED
      BY <1>8, <3>1, <3>2
  <2>2. GoOn /\ fetch' = NoFetch
    BY <1>8 DEF FetchShown, FetchFails
  <2> QED
    BY <2>1, <2>2, GoOnTyped
<1>9. ASSUME NEW r \in Requests, Serve(r) PROVE InspectorTypeOK'
  <2>1. AnswerOf(r) \in {"ok", "refused"}
    BY DEF AnswerOf
  <2>2. /\ click' \in [Clicks -> Click]
        /\ \A c \in Clicks : /\ click'[c].stage = click[c].stage
                             /\ click'[c].phase = "reloading" => click[c].phase = "reloading"
    BY <1>9, <2>1 DEF Serve, InspectorTypeOK, Click, Phases
  <2>3. UNCHANGED <<jobs, fetch, page, passed>>
    BY <1>9 DEF Serve
  <2>4. page.latest \in Clicks \union {None}
    BY DEF InspectorTypeOK, Page
  <2> QED
    BY <2>2, <2>3, <2>4 DEF InspectorTypeOK
<1>10. ASSUME NEW r \in Requests, Elsewhere(r) PROVE InspectorTypeOK'
  BY <1>10 DEF Elsewhere, tabVars, InspectorTypeOK
<1>11. CASE UNCHANGED allVars
  BY <1>11 DEF allVars, tabVars, InspectorTypeOK
<1> QED
  BY <1>1, <1>2, <1>3, <1>4, <1>5, <1>6, <1>7, <1>8, <1>9, <1>10, <1>11
     DEF TabNext, Acts, Loads, Reaches, Hears

\* Whatever the inspector clicks, what the buttons tell of and what waits for a
\* reload is well-formed, for any number of sign-offs.
THEOREM InspectorTyped == TabSpec => []InspectorTypeOK
BY TabTypeInit, TabTypeStep, PTL DEF TabSpec

-----------------------------------------------------------------------------
(* Every step of the tab is a step of the gate, or leaves it alone. *)

LEMMA TabStepOfGate == InspectorTypeOK /\ [TabNext]_allVars => [Next]_vars
<1> SUFFICES ASSUME InspectorTypeOK, [TabNext]_allVars PROVE [Next]_vars
  OBVIOUS
<1>1. ASSUME NEW r \in Requests, Serve(r) \/ Elsewhere(r) PROVE [Next]_vars
  BY <1>1 DEF Serve, Elsewhere, Next, Work
<1>2. ASSUME NEW c \in Clicks, NEW r \in Requests, Arrives(c, r) PROVE [Next]_vars
  <2>1. click[c].stage \in Stages /\ click[c].result \in Results
    BY DEF InspectorTypeOK, Click
  <2> QED
    BY <1>2, <2>1 DEF Arrives, Next, Work, Arrive, UserRequest
<1>3. CASE UNCHANGED vars
  BY <1>3
<1> QED
  BY <1>1, <1>2, <1>3 DEF TabNext, Acts, Open, Close, GoBack, TapJob, SignOff, Refetch, Loads,
     FetchServed, FetchShown, FetchFails, Reaches, Refused, Lost, Hears, HearOk, HearRefused,
     allVars

\* The tab implements the gate it extends: everything proved of the gate holds
\* under it, whatever is clicked, lost or answered late.
THEOREM TabKeepsGate == TabSpec => Spec
BY TabTypeInit, TabTypeStep, TabStepOfGate, PTL DEF TabSpec, TabInit, Spec

LEMMA TabGateInvariant == TabSpec => []GateInv
BY TabKeepsGate, GateInvariant, PTL

-----------------------------------------------------------------------------
(* What a sign-off under way and the handler that serves it know of each other. *)

Uncommitted == {"findInspection", "signOff"}
Committed == {"auditInspection", "findNext", "unlock", "auditUnlocked", "createCertificate",
              "completePermit", "auditCertificate"}

OnRecord(c) == inspection[click[c].stage] = click[c].result

ServedBy(c, r) ==
    /\ r \in Requests
    /\ req[r].stage = click[c].stage /\ req[r].result = click[c].result
    /\ req[r].pc \in Uncommitted \union Committed
    /\ req[r].pc \in Committed => OnRecord(c)

Served(c) ==
    /\ click[c].by # None => click[c].phase = "serving"
    /\ click[c].phase = "serving" => ServedBy(c, click[c].by)
    /\ click[c].phase \in {"ok", "reloading"} => OnRecord(c)

SignOffInv == \A c \in Clicks : Served(c)

LEMMA SignOffInit == TabInit => SignOffInv
BY DEF TabInit, SignOffInv, Served, Unclicked

LEMMA RecordStays ==
    ASSUME GateInv, InspectorTypeOK, [Next]_vars, NEW c \in Clicks, OnRecord(c)
    PROVE  inspection'[click[c].stage] = click[c].result
BY StepKeeps DEF OnRecord, InspectorTypeOK, Click, Results

\* A handler at work on a sign-off commits its result, or ends.
LEMMA SignOffGoesOn ==
    ASSUME GateInv, InspectorTypeOK, NEW r \in Requests, Resume(r), NEW c \in Clicks,
           ServedBy(c, r)
    PROVE  /\ ~IsIdle(r)' => /\ req'[r].stage = req[r].stage /\ req'[r].result = req[r].result
                             /\ req'[r].pc \in Uncommitted \union Committed
                             /\ req'[r].pc \in Committed =>
                                   inspection'[click[c].stage] = click[c].result
           /\ IsIdle(r)' /\ req[r].pc \in AuditPoints =>
                 inspection'[click[c].stage] = click[c].result
           /\ \A q \in Requests : q # r => req'[q] = req[q]
<1> USE DEF ServedBy, OnRecord, Uncommitted, Committed, AuditPoints, IsIdle, Goto, Return, Idle,
        GateInv, TypeOK, Request
<1>1. CASE SignOffFindInspection(r)
  BY <1>1 DEF SignOffFindInspection, rows
<1>2. CASE SignOffCommit(r)
  BY <1>2 DEF SignOffCommit
<1>3. CASE UnlockFind(r) \/ UnlockWrite(r)
  BY <1>3 DEF UnlockFind, UnlockWrite, rows
<1>4. CASE CertificateCreate(r) \/ CompletePermit(r)
  BY <1>4 DEF CertificateCreate, CompletePermit
<1>5. CASE AuditRecord(r)
  BY <1>5 DEF AuditRecord, AfterAudit, rows
<1> QED
  BY <1>1, <1>2, <1>3, <1>4, <1>5 DEF Resume, MarkPaidWrite, BookWrite, ReRequestWrite

LEMMA SignOffStep ==
    ASSUME GateInv, InspectorTypeOK, SignOffInv, [TabNext]_allVars
    PROVE  SignOffInv'
<1> USE NoneAssumption DEF SignOffInv
<1>1. [Next]_vars
  BY TabStepOfGate
<1>2. click \in [Clicks -> Click]
  BY DEF InspectorTypeOK
<1>3. \* The gate does not move, and a sign-off becomes what it may become.
      ASSUME UNCHANGED vars,
             \A c \in Clicks : \/ click'[c] = click[c]
                               \/ click'[c].by = None /\ click'[c].phase \in {"none", "sent", "refused"}
                               \/ /\ click[c].phase = "ok" /\ click'[c].phase = "reloading"
                                  /\ click'[c].stage = click[c].stage
                                  /\ click'[c].result = click[c].result
                                  /\ click'[c].by = click[c].by
      PROVE  SignOffInv'
  BY <1>3 DEF Served, ServedBy, OnRecord, vars, rows
<1>4. CASE Acts
  BY <1>2, <1>3, <1>4 DEF Acts, Open, Close, GoBack, TapJob, SignOff, Unclicked
<1>5. CASE Refetch \/ Loads \/ FetchFails
  BY <1>2, <1>3, <1>5 DEF Refetch, Loads, FetchServed, FetchShown, FetchFails, GoOn, Unclicked
<1>6. ASSUME NEW c \in Clicks, Refused(c) \/ Lost(c) \/ HearOk(c) \/ HearRefused(c)
      PROVE  SignOffInv'
  <2>1. click[c].phase # "serving" => click[c].by = None
    BY DEF Served
  <2> QED
    BY <1>2, <1>3, <1>6, <2>1 DEF Refused, Lost, HearOk, HearRefused, SetPhase, Unclicked, Click
<1>7. ASSUME NEW c \in Clicks, NEW r \in Requests, Arrives(c, r) PROVE SignOffInv'
  <2>1. /\ req[r].pc = "idle" /\ UNCHANGED inspection
        /\ \A q \in Requests : q # r => req'[q] = req[q]
        /\ req'[r] = [pc |-> "findInspection", stage |-> click[c].stage, result |-> click[c].result]
    BY <1>7 DEF Arrives, SignOffLoad, IsIdle, Begin, rows, GateInv, TypeOK
  <2>2. /\ \A d \in Clicks : d # c => click'[d] = click[d]
        /\ click'[c] = [click[c] EXCEPT !.phase = "serving", !.by = r]
    BY <1>2, <1>7 DEF Arrives
  <2>3. Served(c)'
    BY <1>2, <2>1, <2>2 DEF Served, ServedBy, OnRecord, Uncommitted, Committed, Click
  <2>4. ASSUME NEW d \in Clicks, d # c PROVE Served(d)'
    <3>1. click[d].phase = "serving" => click[d].by \in Requests /\ click[d].by # r
      BY <2>1 DEF Served, ServedBy, Uncommitted, Committed
    <3> QED
      BY <2>1, <2>2, <2>4, <3>1 DEF Served, ServedBy, OnRecord
  <2> QED
    BY <2>3, <2>4
<1>8. ASSUME NEW r \in Requests, Serve(r) PROVE SignOffInv'
  <2>1. \A q \in Requests : q # r => req'[q] = req[q]
    BY <1>8 DEF Serve, Resume, MarkPaidWrite, BookWrite, ReRequestWrite, SignOffFindInspection,
       SignOffCommit, UnlockFind, UnlockWrite, CertificateCreate, CompletePermit, AuditRecord,
       AfterAudit, Goto, Return, GateInv, TypeOK
  <2>2. ASSUME NEW c \in Clicks, click[c].by = r PROVE Served(c)'
    <3>1. click[c].phase = "serving" /\ ServedBy(c, r)
      BY <2>2 DEF Served
    <3>2. CASE IsIdle(r)'
      <4>1. click'[c] = [click[c] EXCEPT !.phase = AnswerOf(r), !.by = None]
        BY <1>8, <2>2, <3>2 DEF Serve
      <4>2. AnswerOf(r) = "ok" => inspection'[click[c].stage] = click[c].result
        BY <1>8, <3>1, <3>2, SignOffGoesOn DEF AnswerOf, Serve
      <4>3. AnswerOf(r) \in {"ok", "refused"}
        BY DEF AnswerOf
      <4> QED
        BY <1>2, <4>1, <4>2, <4>3 DEF Served, OnRecord, Click
    <3>3. CASE ~IsIdle(r)'
      <4>1. click'[c] = click[c]
        BY <1>8, <3>3 DEF Serve
      <4> QED
        BY <1>8, <2>2, <3>1, <3>3, <4>1, SignOffGoesOn DEF Served, ServedBy, OnRecord, Serve
    <3> QED
      BY <3>2, <3>3
  <2>3. ASSUME NEW c \in Clicks, click[c].by # r PROVE Served(c)'
    <3>1. click'[c] = click[c]
      BY <1>8, <2>3 DEF Serve
    <3>2. OnRecord(c) => OnRecord(c)'
      BY <1>1, <3>1, RecordStays DEF OnRecord
    <3> QED
      BY <2>1, <2>3, <3>1, <3>2 DEF Served, ServedBy
  <2> QED
    BY <2>2, <2>3
<1>9. ASSUME NEW r \in Requests, Elsewhere(r) PROVE SignOffInv'
  <2>1. /\ req[r].pc = "idle" /\ UNCHANGED <<inspection, click>>
        /\ \A q \in Requests : q # r => req'[q] = req[q]
    BY <1>9 DEF Elsewhere, tabVars, Arrive, UserRequest, BookLoad, ReRequestLoad, SignOffLoad,
       MarkPaidLoad, IsIdle, Begin, rows, GateInv, TypeOK
  <2> QED
    BY <2>1 DEF Served, ServedBy, OnRecord, Uncommitted, Committed
<1>10. CASE UNCHANGED allVars
  BY <1>3, <1>10 DEF allVars, tabVars
<1> QED
  BY <1>4, <1>5, <1>6, <1>7, <1>8, <1>9, <1>10 DEF TabNext, Reaches, Hears

LEMMA SignOffInvariant == TabSpec => []SignOffInv
BY SignOffInit, SignOffStep, InspectorTyped, TabGateInvariant, PTL DEF TabSpec

\* What the tab is told is done is on record with its own result, for any number of
\* stages, handlers and sign-offs, although both buttons may be clicked and other
\* inspectors sign off too.
THEOREM DoneIsTrue == TabSpec => []DoneIsRecorded
<1>1. SignOffInv => DoneIsRecorded
  BY DEF SignOffInv, Served, OnRecord, DoneIsRecorded
<1> QED
  BY <1>1, SignOffInvariant, PTL

-----------------------------------------------------------------------------
(* A job passed and returned from is gone, while requests come one at a time. *)

\* The tab has passed s, or is about to return from it.
Gone(s) == \/ s \in passed
           \/ \E c \in Clicks : /\ click[c].phase = "reloading" /\ click[c].result = "PASS"
                               /\ click[c].stage = s

\* No load answered since lists s, and of the older ones none is shown.
QueueInv ==
    /\ \A s \in passed : inspection[s] = "PASS"
    /\ fetch.at = "served" => \A s \in fetch.stages : ~Gone(s)
    /\ \A s \in passed : s \in jobs.stages => jobs.failed

LEMMA QueueInit == TabInit => QueueInv
BY DEF TabInit, QueueInv, NoFetch

LEMMA GoneIsRecorded ==
    ASSUME SignOffInv, QueueInv, NEW s, Gone(s)
    PROVE  inspection[s] = "PASS"
BY DEF SignOffInv, Served, OnRecord, QueueInv, Gone

\* The gate moves and the queue stays: a recorded PASS stays recorded.
LEMMA QueueKeeps ==
    ASSUME GateInv, InspectorTypeOK, QueueInv, [Next]_vars,
           UNCHANGED <<jobs, passed>>,
           fetch' = fetch \/ fetch'.at # "served",
           \A c \in Clicks : click'[c].phase = "reloading" =>
               fetch'.at # "served" \/ click'[c] = click[c]
    PROVE  QueueInv'
<1>1. \A s \in passed' : inspection'[s] = "PASS"
  BY StepKeeps DEF QueueInv, InspectorTypeOK
<1>2. fetch'.at = "served" => \A s \in fetch'.stages : ~Gone(s)'
  BY DEF QueueInv, Gone
<1> QED
  BY <1>1, <1>2 DEF QueueInv

LEMMA QueueStep ==
    ASSUME GateInv, InspectorTypeOK, SignOffInv, RowsAgree, QueueInv, [TabNext]_allVars
    PROVE  QueueInv'
<1>1. [Next]_vars
  BY TabStepOfGate
<1>2. click \in [Clicks -> Click]
  BY DEF InspectorTypeOK
<1>3. CASE Close
  BY <1>3 DEF Close, QueueInv, NoFetch
<1>4. CASE Open \/ GoBack \/ (\E s \in Stages : TapJob(s)) \/ Refetch
  <2>1. UNCHANGED <<jobs, passed, click>> /\ (fetch' = fetch \/ fetch'.at # "served")
    BY <1>4 DEF Open, GoBack, TapJob, Refetch, Asking
  <2> QED
    BY <1>1, <2>1, QueueKeeps
<1>5. ASSUME NEW c \in Clicks,
             Refused(c) \/ Lost(c) \/ HearRefused(c) \/ HearOk(c)
             \/ (\E v \in Results : SignOff(c, v)) \/ (\E r \in Requests : Arrives(c, r))
      PROVE  QueueInv'
  <2>1. UNCHANGED <<jobs, passed>> /\ (fetch' = fetch \/ fetch'.at # "served")
    BY <1>5 DEF Refused, Lost, HearRefused, HearOk, SignOff, Arrives, Asking
  <2>2. \A d \in Clicks : d # c => click'[d] = click[d]
    BY <1>2, <1>5 DEF Refused, Lost, HearRefused, HearOk, SignOff, Arrives, SetPhase
  <2>3. click'[c].phase = "reloading" => fetch'.at # "served"
    BY <1>2, <1>5 DEF Refused, Lost, HearRefused, HearOk, SignOff, Arrives, SetPhase, Asking,
       Unclicked, Click
  <2> QED
    BY <1>1, <2>1, <2>2, <2>3, QueueKeeps
<1>6. CASE FetchServed
  <2>1. UNCHANGED <<jobs, passed, click, inspection>>
        /\ fetch'.stages = {s \in Stages : status[s] \in AwaitingInspection}
    BY <1>6 DEF FetchServed, vars
  <2>2. ASSUME NEW s \in Stages, status[s] \in AwaitingInspection PROVE ~Gone(s)
    <3>1. inspection[s] # "PASS"
      BY <2>2 DEF RowsAgree, AwaitingInspection
    <3> QED
      BY <3>1, GoneIsRecorded
  <2>3. \A s \in fetch'.stages : ~Gone(s)'
    BY <2>1, <2>2 DEF Gone
  <2> QED
    BY <2>1, <2>3 DEF QueueInv
<1>7. CASE FetchShown \/ FetchFails
  <2>1. /\ fetch'.at = "none" /\ UNCHANGED inspection /\ GoOn
    BY <1>7 DEF FetchShown, FetchFails, NoFetch, vars
  <2>2. \A s \in passed' : Gone(s)
    BY <2>1 DEF GoOn, Gone
  <2>3. \A s \in passed' : inspection'[s] = "PASS"
    BY <2>1, <2>2, GoneIsRecorded
  <2>4. \A s \in passed' : s \in jobs'.stages => jobs'.failed
    <3>1. CASE FetchShown
      BY <2>2, <3>1 DEF FetchShown, QueueInv
    <3>2. CASE FetchFails
      BY <3>2 DEF FetchFails, InspectorTypeOK, Jobs
    <3> QED
      BY <1>7, <3>1, <3>2
  <2> QED
    BY <2>1, <2>3, <2>4 DEF QueueInv
<1>8. ASSUME NEW r \in Requests, Serve(r) \/ Elsewhere(r) PROVE QueueInv'
  <2>1. UNCHANGED <<jobs, passed, fetch>>
    BY <1>8 DEF Serve, Elsewhere, tabVars
  <2>2. AnswerOf(r) # "reloading"
    BY DEF AnswerOf
  <2>3. \A c \in Clicks : click'[c].phase = "reloading" => click'[c] = click[c]
    BY <1>2, <1>8, <2>2 DEF Serve, Elsewhere, tabVars, Click
  <2> QED
    BY <1>1, <2>1, <2>3, QueueKeeps
<1>9. CASE UNCHANGED allVars
  BY <1>1, <1>9, QueueKeeps DEF allVars, tabVars
<1> QED
  BY <1>3, <1>4, <1>5, <1>6, <1>7, <1>8, <1>9 DEF TabNext, Acts, Loads, Reaches, Hears

\* While requests come one at a time, a job this inspector has passed and returned
\* from never comes back into the list, however many loads of the queue overlap
\* the sign-off: for any number of stages and of sign-offs under way.
THEOREM PassedAreGone ==
    ASSUME NEW r, Requests = {r}
    PROVE  TabSpec => []PassedStaysGone
<1>1. TabSpec => []RowsAgree
  BY TabKeepsGate, RowsAgreeAlone, PTL
<1>2. TabSpec => []QueueInv
  BY <1>1, QueueInit, QueueStep, InspectorTyped, TabGateInvariant, SignOffInvariant, PTL DEF TabSpec
<1>3. QueueInv => PassedStaysGone
  BY DEF QueueInv, PassedStaysGone, Listed
<1> QED
  BY <1>2, <1>3, PTL

=============================================================================
