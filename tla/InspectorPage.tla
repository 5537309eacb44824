----------------------------- MODULE InspectorPage -----------------------------
(***************************************************************************)
(* The inspector's tab over the stage gate: InspectorQueuePage, the         *)
(* InspectorSignOffPage of one job, and the query of the job queue both      *)
(* show from one cache.                                                     *)
(*                                                                         *)
(* A sign-off is clicked, travels, is served by a handler of the gate and   *)
(* is answered; the answer reloads the queue and then returns to it. Other   *)
(* people's requests go to the gate meanwhile, and the network may fail.     *)
(***************************************************************************)
EXTENDS StageGate

CONSTANTS Clicks,   \* sign-offs of the tab that may be under way at once
          None      \* no sign-off, no handler

ASSUME NoneAssumption == None \notin Clicks \union Requests

VARIABLES jobs,     \* the cached job queue: what was last loaded, whether the last load failed
          fetch,    \* its GET /inspections/queue under way
          page,     \* what the tab shows
          click,    \* the tab's sign-offs under way
          passed    \* history: the stages whose PASS the tab has returned to the queue with

tabVars == <<jobs, fetch, page, click, passed>>
allVars == <<vars, tabVars>>

Jobs == [known : BOOLEAN, stages : SUBSET Stages, failed : BOOLEAN]
Unknown == [known |-> FALSE, stages |-> {}, failed |-> FALSE]

Fetch == [at : {"none", "asked", "served"}, stages : SUBSET Stages]
NoFetch == [at |-> "none", stages |-> {}]
Asking == [at |-> "asked", stages |-> {}]

\* `latest` is the sign-off the page's buttons tell of.
Page == [at : {"away", "queue", "job"}, stage : Stages, latest : Clicks \union {None}]
Away == [at |-> "away", stage |-> 0, latest |-> None]
QueuePage == [Away EXCEPT !.at = "queue"]
JobPage(s) == [Away EXCEPT !.at = "job", !.stage = s]

Phases == {"none", "sent", "serving", "ok", "refused", "reloading"}
\* `by`: the handler that serves it.
Click == [phase : Phases, stage : Stages, result : Results, by : Requests \union {None}]
Unclicked == [phase |-> "none", stage |-> 0, result |-> "FAIL", by |-> None]

TabInit ==
    /\ Init
    /\ jobs = Unknown
    /\ fetch = NoFetch
    /\ page = Away
    /\ click = [c \in Clicks |-> Unclicked]
    /\ passed = {}

-----------------------------------------------------------------------------
(* The inspector. *)

\* The tab is opened, at the queue or at the address of a job.
Open ==
    /\ page.at = "away"
    /\ page' \in {QueuePage} \union {JobPage(s) : s \in Stages}
    /\ fetch' = Asking
    /\ UNCHANGED <<vars, jobs, click, passed>>

\* What the tab knew is gone. A sign-off it sent is served all the same, or arrives
\* like anybody's (Elsewhere).
Close ==
    /\ page.at # "away"
    /\ page' = Away
    /\ jobs' = Unknown
    /\ fetch' = NoFetch
    /\ click' = [c \in Clicks |-> Unclicked]
    /\ passed' = {}
    /\ UNCHANGED vars

\* InspectorQueuePage lists the jobs unless their last load failed.
Listed(s) == page.at = "queue" /\ jobs.known /\ ~jobs.failed /\ s \in jobs.stages

TapJob(s) ==
    /\ Listed(s)
    /\ page' = JobPage(s)
    /\ UNCHANGED <<vars, jobs, fetch, click, passed>>

\* "Job queue", "Back to queue": a sign-off under way goes on.
GoBack ==
    /\ page.at = "job"
    /\ page' = QueuePage
    /\ UNCHANGED <<vars, jobs, fetch, click, passed>>

\* The sign-off page finds its job in the cached queue, be it old.
FindsJob == page.at = "job" /\ jobs.known /\ page.stage \in jobs.stages

Pending(c) == click[c].phase # "none"

\* A button waits for the sign-off it started, unless the other has been clicked since.
Enabled(v) == page.latest # None => ~(Pending(page.latest) /\ click[page.latest].result = v)

SignOff(c, v) ==
    /\ FindsJob /\ Enabled(v)
    /\ ~Pending(c)
    /\ click' = [click EXCEPT ![c] =
                    [phase |-> "sent", stage |-> page.stage, result |-> v, by |-> None]]
    /\ page' = [page EXCEPT !.latest = c]
    /\ UNCHANGED <<vars, jobs, fetch, passed>>

Acts ==
    \/ Open \/ Close \/ GoBack
    \/ \E s \in Stages : TapJob(s)
    \/ \E c \in Clicks, v \in Results : SignOff(c, v)

-----------------------------------------------------------------------------
(* The API: the gate's handlers serve the sign-offs. *)

SetPhase(c, phase) == click' = [click EXCEPT ![c].phase = phase]

\* A sign-off arrives; the stage may no longer await one.
Arrives(c, r) ==
    /\ click[c].phase = "sent"
    /\ SignOffLoad(r, click[c].stage, click[c].result)
    /\ click' = [click EXCEPT ![c].phase = "serving", ![c].by = r]
    /\ UNCHANGED <<jobs, fetch, page, passed>>

Refused(c) ==
    /\ click[c].phase = "sent"
    /\ status[click[c].stage] \notin AwaitingInspection
    /\ SetPhase(c, "refused")
    /\ UNCHANGED <<vars, jobs, fetch, page, passed>>

AnswerAlwaysOk(r) == "ok"

\* signOff answers when its last entry is written; every other end of it threw.
AnswerOf(r) == IF req[r].pc \in AuditPoints THEN "ok" ELSE "refused"

\* A handler runs on to its next await; at its end the tab is answered.
Serve(r) ==
    /\ Resume(r)
    /\ click' = [c \in Clicks |-> IF click[c].by = r /\ IsIdle(r)'
                                  THEN [click[c] EXCEPT !.phase = AnswerOf(r), !.by = None]
                                  ELSE click[c]]
    /\ UNCHANGED <<jobs, fetch, page, passed>>

\* Applicants, payments, and inspectors elsewhere.
Elsewhere(r) == Arrive(r) /\ UNCHANGED tabVars

\* The request or its answer is lost.
Lost(c) ==
    /\ click[c].phase \in {"sent", "ok"}
    /\ SetPhase(c, "refused")
    /\ UNCHANGED <<vars, jobs, fetch, page, passed>>

-----------------------------------------------------------------------------
(* The queue's query, and what follows its end. *)

\* Every 30 seconds while the queue is shown, and whenever a page finds it stale.
Refetch ==
    /\ page.at # "away" /\ fetch.at = "none"
    /\ fetch' = Asking
    /\ UNCHANGED <<vars, jobs, page, click, passed>>

\* InspectionsService.queue, one query of the stages.
FetchServed ==
    /\ fetch.at = "asked"
    /\ fetch' = [at |-> "served", stages |-> {s \in Stages : status[s] \in AwaitingInspection}]
    /\ UNCHANGED <<vars, jobs, page, click, passed>>

\* onSuccess goes on when the reload it started has ended, well or not: the tab
\* returns to the queue, from whatever page it is on by now.
GoOn ==
    LET done == {c \in Clicks : click[c].phase = "reloading"} IN
    /\ page' = IF done # {} THEN QueuePage ELSE page
    /\ passed' = passed \union {click[c].stage : c \in {d \in done : click[d].result = "PASS"}}
    /\ click' = [c \in Clicks |-> IF c \in done THEN Unclicked ELSE click[c]]

FetchShown ==
    /\ fetch.at = "served"
    /\ jobs' = [known |-> TRUE, stages |-> fetch.stages, failed |-> FALSE]
    /\ fetch' = NoFetch
    /\ GoOn
    /\ UNCHANGED vars

FetchFailsSilently ==
    /\ fetch.at # "none"
    /\ jobs' = [jobs EXCEPT !.failed = TRUE]
    /\ fetch' = NoFetch
    /\ UNCHANGED <<vars, page, click, passed>>

\* The jobs loaded before stay in the cache.
FetchFails ==
    /\ fetch.at # "none"
    /\ jobs' = [jobs EXCEPT !.failed = TRUE]
    /\ fetch' = NoFetch
    /\ GoOn
    /\ UNCHANGED vars

HearOkUncancelled(c) ==
    /\ click[c].phase = "ok"
    /\ SetPhase(c, "reloading")
    /\ fetch' = IF fetch.at = "none" THEN Asking ELSE fetch
    /\ UNCHANGED <<vars, jobs, page, passed>>

\* invalidateQueries: a load under way is cancelled and a new one started.
HearOk(c) ==
    /\ click[c].phase = "ok"
    /\ SetPhase(c, "reloading")
    /\ fetch' = Asking
    /\ UNCHANGED <<vars, jobs, page, passed>>

HearRefusedStuck(c) ==
    /\ click[c].phase = "refused"
    /\ page' = [page EXCEPT !.latest = IF @ = c THEN None ELSE @]
    /\ UNCHANGED <<vars, jobs, fetch, click, passed>>

\* The page shows why the sign-off clicked last was refused; its button is free again.
HearRefused(c) ==
    /\ click[c].phase = "refused"
    /\ click' = [click EXCEPT ![c] = Unclicked]
    /\ page' = [page EXCEPT !.latest = IF @ = c THEN None ELSE @]
    /\ UNCHANGED <<vars, jobs, fetch, passed>>

-----------------------------------------------------------------------------

Reaches(c) == Refused(c) \/ \E r \in Requests : Arrives(c, r)
Loads == FetchServed \/ FetchShown
Hears(c) == HearOk(c) \/ HearRefused(c)

TabNext ==
    \/ Acts
    \/ Refetch \/ Loads \/ FetchFails
    \/ \E r \in Requests : Serve(r) \/ Elsewhere(r)
    \/ \E c \in Clicks : Reaches(c) \/ Lost(c) \/ Hears(c)

\* A server that lives and answers; a request is not overtaken for ever. Nobody has to click.
TabSpec ==
    /\ TabInit
    /\ [][TabNext]_allVars
    /\ WF_allVars(FetchServed) /\ WF_allVars(FetchShown)
    /\ \A r \in Requests : WF_allVars(Serve(r))
    /\ \A c \in Clicks : WF_allVars(Hears(c)) /\ SF_allVars(Reaches(c))

-----------------------------------------------------------------------------
(* Properties. *)

\* The tab is well-formed: a sign-off that waits for the reload of the queue has
\* one under way, and a button tells of a sign-off of its own page only.
InspectorTypeOK ==
    /\ jobs \in Jobs
    /\ fetch \in Fetch
    /\ page \in Page
    /\ click \in [Clicks -> Click]
    /\ passed \subseteq Stages
    /\ \A c \in Clicks : click[c].phase = "reloading" => fetch.at # "none"
    /\ page.at # "job" => page.latest = None
    /\ page.latest # None => click[page.latest].stage = page.stage

\* A sign-off is reported done only with its own result on record, although both
\* buttons may be clicked, other inspectors sign off too and answers come late.
DoneIsRecorded ==
    \A c \in Clicks : click[c].phase \in {"ok", "reloading"} =>
        inspection[click[c].stage] = click[c].result

\* A job this inspector has passed and returned from does not come back into the
\* list, however many loads of the queue overlap the sign-off, while requests come
\* one at a time (two handlers may lose a pass, see PassIsKept).
PassedStaysGone == \A s \in passed : ~Listed(s)

\* Every sign-off of an open tab comes to an end: back to the queue, or an error.
SignOffEnds == \A c \in Clicks : Pending(c) ~> ~Pending(c)

=============================================================================
