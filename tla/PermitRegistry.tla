---------------------------- MODULE PermitRegistry ----------------------------
(***************************************************************************)
(* Applying for a permit: NewPermitPage, PermitsService.create with its     *)
(* generateRef, and the look-up by reference the applicant is sent to.      *)
(*                                                                         *)
(* A reference is a year and a number; the number is one more than there    *)
(* are permits or, when a permit has that one already, the last digits of   *)
(* the clock. The steps between two awaited calls interleave.               *)
(***************************************************************************)
EXTENDS Naturals, FiniteSets

CONSTANTS Actors,      \* people who may create permits
          Applicants,  \* those of them who own what they create; the others are the council
          Seeds,       \* the permits of seed.ts
          SeedRefs,    \* and the references they may have
          Creates,     \* the permits that may be created, each by a handler of its own
          Clock,       \* the last five digits of Date.now()
          NoActor      \* no owner, nobody

Years == {"this", "past"}
Ref == [year : Years, number : Nat]

ASSUME RefAssumption == SeedRefs \subseteq Ref /\ Clock \subseteq Nat /\ Clock # {}
ASSUME ActorAssumption == Applicants \subseteq Actors /\ NoActor \notin Actors
ASSUME PermitAssumption == /\ IsFiniteSet(Seeds) /\ IsFiniteSet(Creates)
                           /\ Seeds \intersect Creates = {}

VARIABLES permit,   \* the Permit rows
          audit,    \* the permits with a PERMIT_APPROVED entry, and its actor
          handler,  \* PermitsService.create, once per permit it may create
          page      \* what each actor's browser shows

vars == <<permit, audit, handler, page>>

Permits == Seeds \union Creates

NoRef == [year |-> "past", number |-> 0]

Row == [exists : BOOLEAN, ref : Ref, owner : Actors \union {NoActor}]
NoRow == [exists |-> FALSE, ref |-> NoRef, owner |-> NoActor]

Existing == {p \in Permits : permit[p].exists}

\* The one permit findUnique({ where: { ref } }) can mean.
Taken(ref) == \E p \in Existing : permit[p].ref = ref

\* findByRef: an applicant finds only permits of their own.
FoundBy(ref, a) ==
    {p \in Existing : permit[p].ref = ref /\ (a \in Applicants => permit[p].owner = a)}

Handler == [at : {"idle", "count", "clash", "create", "audit", "created", "refused", "done"},
            actor : Actors \union {NoActor}, ref : Ref]
Idle == [at |-> "idle", actor |-> NoActor, ref |-> NoRef]

\* `made`: history, the permit the page was sent to.
Page == [at : {"form", "submitting", "permit"}, ref : Ref, made : Permits \union {NoActor}]
Form == [at |-> "form", ref |-> NoRef, made |-> NoActor]

Init ==
    /\ permit \in [Permits -> {NoRow} \union [exists : {TRUE}, ref : SeedRefs,
                                              owner : Actors \union {NoActor}]]
    /\ Existing = Seeds
    /\ \A p, q \in Seeds : permit[p].ref = permit[q].ref => p = q
    /\ audit = {}
    /\ handler = [p \in Creates |-> Idle]
    /\ page = [a \in Actors |-> Form]

-----------------------------------------------------------------------------
(* PermitsService.create *)

Goto(p, at) == handler' = [handler EXCEPT ![p].at = at]

\* The button is disabled while its call is pending.
Submit(a, p) ==
    /\ page[a].at = "form"
    /\ handler[p].at = "idle" /\ ~permit[p].exists
    /\ handler' = [handler EXCEPT ![p] = [at |-> "count", actor |-> a, ref |-> NoRef]]
    /\ page' = [page EXCEPT ![a] = [at |-> "submitting", ref |-> NoRef, made |-> p]]
    /\ UNCHANGED <<permit, audit>>

\* generateRef counts ...
CountPermits(p) ==
    /\ handler[p].at = "count"
    /\ handler' = [handler EXCEPT ![p].at = "clash",
                                  ![p].ref = [year |-> "this", number |-> Cardinality(Existing) + 1]]
    /\ UNCHANGED <<permit, audit, page>>

\* ... and looks whether the number is taken: the clock's is not looked up.
LookForClash(p) ==
    /\ handler[p].at = "clash"
    /\ IF Taken(handler[p].ref)
       THEN \E digits \in Clock :
              handler' = [handler EXCEPT ![p].at = "create", ![p].ref.number = digits]
       ELSE Goto(p, "create")
    /\ UNCHANGED <<permit, audit, page>>

NewRow(p) == [exists |-> TRUE, ref |-> handler[p].ref,
              owner |-> IF handler[p].actor \in Applicants THEN handler[p].actor ELSE NoActor]

CreateAnyRef(p) ==
    /\ handler[p].at = "create"
    /\ permit' = [permit EXCEPT ![p] = NewRow(p)]
    /\ Goto(p, "audit")
    /\ UNCHANGED <<audit, page>>

CreateOverwriting(p) ==
    /\ handler[p].at = "create"
    /\ permit' = [q \in Permits |-> IF q = p THEN NewRow(p)
                                    ELSE IF permit[q].ref = handler[p].ref THEN NoRow ELSE permit[q]]
    /\ Goto(p, "audit")
    /\ UNCHANGED <<audit, page>>

\* The unique ref decides between two handlers that chose the same.
Create(p) ==
    /\ handler[p].at = "create"
    /\ IF Taken(handler[p].ref)
       THEN Goto(p, "refused") /\ UNCHANGED permit
       ELSE Goto(p, "audit") /\ permit' = [permit EXCEPT ![p] = NewRow(p)]
    /\ UNCHANGED <<audit, page>>

\* AuditService.record, which swallows its own failure.
Audit(p) ==
    /\ handler[p].at = "audit"
    /\ \/ audit' = audit \union {<<p, handler[p].actor>>}
       \/ UNCHANGED audit
    /\ Goto(p, "created")
    /\ UNCHANGED <<permit, page>>

\* A call to the database fails.
Fails(p) ==
    /\ handler[p].at \in {"count", "clash", "create"}
    /\ Goto(p, "refused")
    /\ UNCHANGED <<permit, audit, page>>

\* The process dies: its callers get no answer, what is written stays.
Crash ==
    /\ \E p \in Creates : handler[p].at \in {"count", "clash", "create", "audit"}
    /\ handler' = [p \in Creates |-> IF handler[p].at \in {"count", "clash", "create", "audit"}
                                     THEN [handler[p] EXCEPT !.at = "refused"] ELSE handler[p]]
    /\ UNCHANGED <<permit, audit, page>>

-----------------------------------------------------------------------------
(* NewPermitPage *)

\* A handler whose caller has heard of it may be called again if it left no row.
Over(p) == handler' = [handler EXCEPT ![p] = IF permit[p].exists THEN [@ EXCEPT !.at = "done"]
                                             ELSE Idle]

\* onSuccess: the page of the permit in the answer.
HearCreated(a, p) ==
    /\ handler[p].at = "created" /\ handler[p].actor = a
    /\ page' = [page EXCEPT ![a] = [@ EXCEPT !.at = "permit", !.ref = permit[p].ref]]
    /\ Over(p)
    /\ UNCHANGED <<permit, audit>>

HearRefusedStuck(a, p) ==
    /\ handler[p].at = "refused" /\ handler[p].actor = a
    /\ UNCHANGED page
    /\ Over(p)
    /\ UNCHANGED <<permit, audit>>

\* onError: refused, failed, or the answer lost. The form stays, and may be
\* submitted again although the first permit exists.
HearRefused(a, p) ==
    /\ handler[p].at = "refused" /\ handler[p].actor = a
    /\ page' = [page EXCEPT ![a] = Form]
    /\ Over(p)
    /\ UNCHANGED <<permit, audit>>

AnswerLost(p) ==
    /\ handler[p].at = "created"
    /\ Goto(p, "refused")
    /\ UNCHANGED <<permit, audit, page>>

\* A new application.
Leave(a) ==
    /\ page[a].at = "permit"
    /\ page' = [page EXCEPT ![a] = Form]
    /\ UNCHANGED <<permit, audit, handler>>

-----------------------------------------------------------------------------

Serve(p) == CountPermits(p) \/ LookForClash(p) \/ Create(p) \/ Audit(p)
HearBack(p) == \E a \in Actors : HearCreated(a, p) \/ HearRefused(a, p)

Next ==
    \/ \E a \in Actors : Leave(a) \/ \E p \in Creates : Submit(a, p)
    \/ \E p \in Creates : Serve(p) \/ HearBack(p) \/ Fails(p) \/ AnswerLost(p)
    \/ Crash

\* Calls come to an end; nobody has to apply.
Spec ==
    /\ Init
    /\ [][Next]_vars
    /\ \A p \in Creates : WF_vars(Serve(p)) /\ WF_vars(HearBack(p))

-----------------------------------------------------------------------------
(* Properties. *)

\* Rows, handlers and pages are well-formed, an application waits exactly while a
\* handler works on it, and the audit trail speaks of permits that exist.
RegistryTypeOK ==
    /\ permit \in [Permits -> Row]
    /\ handler \in [Creates -> Handler]
    /\ page \in [Actors -> Page]
    /\ audit \subseteq Existing \X Actors
    /\ \A a \in Actors : page[a].at = "submitting" =>
          \E p \in Creates : page[a].made = p /\ handler[p].actor = a
                             /\ handler[p].at \notin {"idle", "done"}

\* A reference names one permit, although generateRef counts and looks before it
\* creates, several handlers choose the same number, and the clock's may be taken.
RefsAreUnique ==
    \A p, q \in Existing : permit[p].ref = permit[q].ref => p = q

\* The applicant who is sent to a permit's page finds there the permit this very
\* application created, not one of somebody who chose the same reference.
AnswerIsOwnPermit ==
    \A a \in Actors : page[a].at = "permit" => FoundBy(page[a].ref, a) = {page[a].made}

\* Rows stay: no create replaces a permit or changes its reference or owner.
PermitsAreKept == [][\A p \in Permits : permit[p].exists => permit'[p] = permit[p]]_vars

\* Every application comes to an end, whoever else applies and whatever fails.
ApplicationsEnd == \A a \in Actors : page[a].at = "submitting" ~> page[a].at # "submitting"

=============================================================================
