------------------------- MODULE PermitRegistryProofs -------------------------
(***************************************************************************)
(* For any number of people, permits and seeds: a reference names one       *)
(* permit, and who is sent to a permit's page finds the own one there.      *)
(***************************************************************************)
EXTENDS PermitRegistry, FiniteSetTheorems, TLAPS

Busy == {"count", "clash", "create", "audit", "created", "refused"}

OwnerFor(a) == IF a \in Applicants THEN a ELSE NoActor

Typed ==
    /\ permit \in [Permits -> Row]
    /\ handler \in [Creates -> Handler]
    /\ page \in [Actors -> Page]
    /\ audit \subseteq Existing \X Actors

\* A busy handler is the one its actor's form waits for, and has written its own row or none.
HandlerInv(p) ==
    /\ handler[p].at \in Busy => /\ handler[p].actor \in Actors
                                 /\ page[handler[p].actor].at = "submitting"
                                 /\ page[handler[p].actor].made = p
    /\ handler[p].at \in {"count", "clash", "create"} => ~permit[p].exists
    /\ handler[p].at \in {"audit", "created"} => permit[p].exists /\
                                                  permit[p].owner = OwnerFor(handler[p].actor)

\* A form that waits has a handler, a permit's page has its permit.
PageInv(a) ==
    /\ page[a].at = "submitting" => \E p \in Creates : /\ page[a].made = p
                                                       /\ handler[p].actor = a
                                                       /\ handler[p].at \in Busy
    /\ page[a].at = "permit" => /\ page[a].made \in Existing
                                /\ permit[page[a].made].ref = page[a].ref
                                /\ permit[page[a].made].owner = OwnerFor(a)

Inv ==
    /\ Typed
    /\ RefsAreUnique
    /\ \A p \in Creates : HandlerInv(p)
    /\ \A a \in Actors : PageInv(a)

-----------------------------------------------------------------------------

LEMMA CountIsNat == Cardinality(Existing) \in Nat
<1>1. IsFiniteSet(Permits)
  BY PermitAssumption, FS_Union DEF Permits
<1> QED
  BY <1>1, FS_Subset, FS_CardinalityType DEF Existing

LEMMA NothingYet == NoRow \in Row /\ Idle \in Handler /\ Form \in Page
BY DEF NoRow, NoRef, Row, Ref, Years, Idle, Handler, Form, Page

LEMMA InitEstablishes == Init => Inv
<1> SUFFICES ASSUME Init PROVE Inv
  OBVIOUS
<1>1. permit \in [Permits -> Row]
  BY NothingYet, RefAssumption DEF Init, Row
<1>2. handler \in [Creates -> Handler] /\ page \in [Actors -> Page]
  BY NothingYet DEF Init
<1>3. \A p \in Creates : handler[p].at = "idle"
  BY DEF Init, Idle
<1>4. \A a \in Actors : page[a].at = "form"
  BY DEF Init, Form
<1>5. RefsAreUnique
  BY DEF Init, RefsAreUnique
<1> QED
  BY <1>1, <1>2, <1>3, <1>4, <1>5 DEF Init, Inv, Typed, HandlerInv, PageInv, Busy

-----------------------------------------------------------------------------
(* Each action keeps the invariant. Most move one handler and leave the rest. *)

\* A handler that goes from one busy place to another, the rows being as they were.
LEMMA MovedHandler ==
    ASSUME Inv, NEW p \in Creates, NEW at \in Busy, NEW ref \in Ref,
           handler[p].at \in Busy,
           handler' = [handler EXCEPT ![p].at = at, ![p].ref = ref],
           at \in {"count", "clash", "create"} => ~permit[p].exists,
           at \in {"audit", "created"} =>
              permit[p].exists /\ permit[p].owner = OwnerFor(handler[p].actor),
           permit' = permit, page' = page, audit' \subseteq Existing \X Actors
    PROVE  Inv'
<1>1. /\ handler'[p].at = at /\ handler'[p].ref = ref /\ handler'[p].actor = handler[p].actor
      /\ \A q \in Creates : q # p => handler'[q] = handler[q]
      /\ handler' \in [Creates -> Handler]
  BY DEF Inv, Typed, Handler, Busy
<1>2. Existing' = Existing
  BY DEF Existing
<1>3. Typed' /\ RefsAreUnique'
  BY <1>1, <1>2 DEF Inv, Typed, RefsAreUnique
<1>4. ASSUME NEW q \in Creates PROVE HandlerInv(q)'
  BY <1>1, <1>4 DEF Inv, HandlerInv
<1>5. ASSUME NEW a \in Actors PROVE PageInv(a)'
  BY <1>1, <1>2, <1>5 DEF Inv, PageInv
<1> QED
  BY <1>3, <1>4, <1>5 DEF Inv

LEMMA SubmitKeeps ==
    ASSUME Inv, NEW a \in Actors, NEW p \in Creates, Submit(a, p) PROVE Inv'
<1>1. /\ handler'[p] = [at |-> "count", actor |-> a, ref |-> NoRef]
      /\ \A q \in Creates : q # p => handler'[q] = handler[q]
      /\ handler' \in [Creates -> Handler]
  BY DEF Submit, Inv, Typed, Handler, NoRef, Ref, Years
<1>2. /\ page'[a] = [at |-> "submitting", ref |-> NoRef, made |-> p]
      /\ \A b \in Actors : b # a => page'[b] = page[b]
      /\ page' \in [Actors -> Page]
  BY DEF Submit, Inv, Typed, Page, NoRef, Ref, Years, Permits
<1>3. Existing' = Existing /\ permit' = permit /\ audit' = audit
  BY DEF Submit, Existing
<1>4. Typed' /\ RefsAreUnique'
  BY <1>1, <1>2, <1>3 DEF Inv, Typed, RefsAreUnique
<1>5. ASSUME NEW q \in Creates PROVE HandlerInv(q)'
  <2>1. CASE q = p
    BY <1>1, <1>2, <1>3, <2>1 DEF HandlerInv, Busy, Submit
  <2>2. CASE q # p
    <3>1. handler[q].at \in Busy => handler[q].actor # a
      BY DEF Submit, Inv, HandlerInv
    <3> QED
      BY <1>1, <1>2, <1>3, <2>2, <3>1 DEF Inv, HandlerInv
  <2> QED
    BY <2>1, <2>2
<1>6. ASSUME NEW b \in Actors PROVE PageInv(b)'
  <2>1. CASE b = a
    BY <1>1, <1>2, <2>1 DEF PageInv, Busy
  <2>2. CASE b # a
    <3>1. handler[p].at \notin Busy
      BY DEF Submit, Busy
    <3> QED
      BY <1>1, <1>2, <1>3, <2>2, <3>1 DEF Inv, PageInv
  <2> QED
    BY <2>1, <2>2
<1> QED
  BY <1>4, <1>5, <1>6 DEF Inv

LEMMA GotoKeeps ==
    ASSUME Inv, NEW p \in Creates, NEW at \in Busy, handler[p].at \in Busy, Goto(p, at),
           at \in {"count", "clash", "create"} => ~permit[p].exists,
           at \in {"audit", "created"} =>
              permit[p].exists /\ permit[p].owner = OwnerFor(handler[p].actor),
           permit' = permit, page' = page, audit' \subseteq Existing \X Actors
    PROVE  Inv'
<1>1. handler[p].ref \in Ref
  BY DEF Inv, Typed, Handler
<1>2. handler' = [handler EXCEPT ![p].at = at, ![p].ref = handler[p].ref]
  BY DEF Goto, Inv, Typed, Handler
<1> QED
  BY <1>1, <1>2, MovedHandler

LEMMA CountKeeps == ASSUME Inv, NEW p \in Creates, CountPermits(p) PROVE Inv'
<1> DEFINE ref == [year |-> "this", number |-> Cardinality(Existing) + 1]
<1>1. ref \in Ref
  BY CountIsNat DEF Ref, Years
<1>2. handler' = [handler EXCEPT ![p].at = "clash", ![p].ref = ref]
  BY DEF CountPermits
<1>3. handler[p].at = "count" /\ ~permit[p].exists
  BY DEF CountPermits, Inv, HandlerInv
<1> HIDE DEF ref
<1> QED
  BY <1>1, <1>2, <1>3, MovedHandler DEF CountPermits, Busy, Inv, Typed

LEMMA LookKeeps == ASSUME Inv, NEW p \in Creates, LookForClash(p) PROVE Inv'
<1>1. handler[p].at = "clash" /\ ~permit[p].exists
  BY DEF LookForClash, Inv, HandlerInv
<1>2. CASE Taken(handler[p].ref)
  <2>1. PICK digits \in Clock :
          handler' = [handler EXCEPT ![p].at = "create", ![p].ref.number = digits]
    BY <1>2 DEF LookForClash
  <2> DEFINE ref == [handler[p].ref EXCEPT !.number = digits]
  <2>2. ref \in Ref
    BY RefAssumption DEF Inv, Typed, Handler, Ref
  <2>3. handler' = [handler EXCEPT ![p].at = "create", ![p].ref = ref]
    BY <2>1 DEF Inv, Typed, Handler
  <2> HIDE DEF ref
  <2> QED
    BY <1>1, <2>2, <2>3, MovedHandler DEF LookForClash, Busy, Inv, Typed
<1>3. CASE ~Taken(handler[p].ref)
  BY <1>1, <1>3, GotoKeeps DEF LookForClash, Busy, Inv, Typed
<1> QED
  BY <1>2, <1>3

\* The new row's reference is nobody's, or there is no new row.
LEMMA CreateKeeps == ASSUME Inv, NEW p \in Creates, Create(p) PROVE Inv'
<1>1. handler[p].at = "create" /\ ~permit[p].exists /\ p \in Permits
  BY DEF Create, Inv, HandlerInv, Permits
<1>2. CASE Taken(handler[p].ref)
  BY <1>1, <1>2, GotoKeeps DEF Create, Busy, Inv, Typed
<1>3. CASE ~Taken(handler[p].ref)
  <2>1. /\ permit'[p].exists /\ permit'[p].ref = handler[p].ref
        /\ permit'[p].owner = OwnerFor(handler[p].actor)
        /\ \A q \in Permits : q # p => permit'[q] = permit[q]
    BY <1>1, <1>3 DEF Create, NewRow, OwnerFor, Inv, Typed
  <2>2. NewRow(p) \in Row
    BY DEF NewRow, Row, Inv, Typed, Handler
  <2>3. permit' \in [Permits -> Row]
    BY <1>3, <2>2 DEF Create, Inv, Typed
  <2>4. Existing' = Existing \union {p}
    BY <1>1, <2>1 DEF Existing
  <2>5. /\ handler'[p].at = "audit" /\ handler'[p].actor = handler[p].actor
        /\ \A q \in Creates : q # p => handler'[q] = handler[q]
        /\ handler' \in [Creates -> Handler]
    BY <1>3 DEF Create, Goto, Inv, Typed, Handler
  <2>6. Typed'
    BY <2>3, <2>4, <2>5 DEF Create, Inv, Typed
  <2>7. RefsAreUnique'
    BY <1>1, <1>3, <2>1, <2>4 DEF Inv, RefsAreUnique, Taken, Existing
  <2>8. ASSUME NEW q \in Creates PROVE HandlerInv(q)'
    <3>1. q \in Permits
      BY DEF Permits
    <3> QED
      BY <1>1, <2>1, <2>5, <3>1 DEF Create, Inv, HandlerInv, Busy
  <2>9. ASSUME NEW a \in Actors PROVE PageInv(a)'
    <3>1. page' = page
      BY DEF Create
    <3>2. page[a].at = "submitting" => \E q \in Creates :
             page[a].made = q /\ handler'[q].actor = a /\ handler'[q].at \in Busy
      BY <2>5 DEF Inv, PageInv, Busy
    <3>3. page[a].at = "permit" => page[a].made # p /\ page[a].made \in Permits
      BY <1>1 DEF Inv, PageInv, Existing
    <3> QED
      BY <2>1, <2>4, <3>1, <3>2, <3>3 DEF Inv, PageInv
  <2> QED
    BY <2>6, <2>7, <2>8, <2>9 DEF Inv
<1> QED
  BY <1>2, <1>3

LEMMA AuditKeeps == ASSUME Inv, NEW p \in Creates, Audit(p) PROVE Inv'
<1>1. handler[p].at = "audit" /\ permit[p].exists /\ handler[p].actor \in Actors
      /\ permit[p].owner = OwnerFor(handler[p].actor)
  BY DEF Audit, Inv, HandlerInv, Busy
<1>2. audit' \subseteq Existing \X Actors
  BY <1>1 DEF Audit, Inv, Typed, Existing, Permits
<1> QED
  BY <1>1, <1>2, GotoKeeps DEF Audit, Busy

LEMMA FailsKeeps == ASSUME Inv, NEW p \in Creates, Fails(p) PROVE Inv'
BY GotoKeeps DEF Fails, Busy, Inv, Typed

LEMMA LostKeeps == ASSUME Inv, NEW p \in Creates, AnswerLost(p) PROVE Inv'
BY GotoKeeps DEF AnswerLost, Busy, Inv, Typed

LEMMA CrashKeeps == ASSUME Inv, Crash PROVE Inv'
<1>1. /\ handler' \in [Creates -> Handler]
      /\ \A p \in Creates : /\ handler'[p].actor = handler[p].actor
                            /\ handler'[p].at \in Busy <=> handler[p].at \in Busy
                            /\ handler'[p].at \in {handler[p].at, "refused"}
  BY DEF Crash, Inv, Typed, Handler, Busy
<1>2. Existing' = Existing /\ permit' = permit /\ page' = page /\ audit' = audit
  BY DEF Crash, Existing
<1>3. Typed' /\ RefsAreUnique'
  BY <1>1, <1>2 DEF Inv, Typed, RefsAreUnique
<1>4. ASSUME NEW p \in Creates PROVE HandlerInv(p)'
  BY <1>1, <1>2, <1>4 DEF Inv, HandlerInv
<1>5. ASSUME NEW a \in Actors PROVE PageInv(a)'
  BY <1>1, <1>2, <1>5 DEF Inv, PageInv
<1> QED
  BY <1>3, <1>4, <1>5 DEF Inv

\* The answer is heard by the form that waits for it, and its handler is free again.
LEMMA HeardKeeps ==
    ASSUME Inv, NEW a \in Actors, NEW p \in Creates,
           handler[p].at \in Busy, handler[p].actor = a, Over(p),
           page' = [page EXCEPT ![a] = page'[a]], page'[a] \in Page,
           page'[a].at # "submitting",
           page'[a].at = "permit" => /\ page'[a].made \in Existing
                                     /\ permit[page'[a].made].ref = page'[a].ref
                                     /\ permit[page'[a].made].owner = OwnerFor(a),
           UNCHANGED <<permit, audit>>
    PROVE  Inv'
<1>1. /\ handler'[p].at \in {"idle", "done"}
      /\ \A q \in Creates : q # p => handler'[q] = handler[q]
      /\ handler' \in [Creates -> Handler]
  BY NothingYet DEF Over, Idle, Inv, Typed, Handler
<1>2. (\A b \in Actors : b # a => page'[b] = page[b]) /\ page' \in [Actors -> Page]
  BY DEF Inv, Typed
<1>3. Existing' = Existing
  BY DEF Existing
<1>4. Typed' /\ RefsAreUnique'
  BY <1>1, <1>2, <1>3 DEF Inv, Typed, RefsAreUnique
<1>5. ASSUME NEW q \in Creates PROVE HandlerInv(q)'
  <2>1. CASE q = p
    BY <1>1, <2>1 DEF HandlerInv, Busy
  <2>2. CASE q # p
    <3>1. handler[q].at \in Busy => handler[q].actor # a
      BY <2>2 DEF Inv, HandlerInv
    <3> QED
      BY <1>1, <1>2, <2>2, <3>1 DEF Inv, HandlerInv
  <2> QED
    BY <2>1, <2>2
<1>6. ASSUME NEW b \in Actors PROVE PageInv(b)'
  <2>1. CASE b = a
    BY <1>3, <2>1 DEF PageInv
  <2>2. CASE b # a
    <3>1. page[b].at = "submitting" => \E q \in Creates : /\ page[b].made = q
                                                          /\ handler'[q].actor = b
                                                          /\ handler'[q].at \in Busy
      BY <1>1, <2>2 DEF Inv, PageInv
    <3> QED
      BY <1>2, <1>3, <2>2, <3>1 DEF Inv, PageInv
  <2> QED
    BY <2>1, <2>2
<1> QED
  BY <1>4, <1>5, <1>6 DEF Inv

LEMMA HearCreatedKeeps ==
    ASSUME Inv, NEW a \in Actors, NEW p \in Creates, HearCreated(a, p) PROVE Inv'
<1>1. /\ page[a].made = p /\ p \in Existing /\ permit[p].owner = OwnerFor(a)
      /\ permit[p].ref \in Ref
  BY DEF HearCreated, Inv, Typed, HandlerInv, Busy, Existing, Permits, Row
<1> DEFINE new == [page[a] EXCEPT !.at = "permit", !.ref = permit[p].ref]
<1>2. new \in Page /\ new.at = "permit" /\ new.ref = permit[p].ref /\ new.made = p
  BY <1>1 DEF Inv, Typed, Page
<1>3. page' = [page EXCEPT ![a] = new] /\ page \in [Actors -> Page]
  BY DEF HearCreated, Inv, Typed
<1> HIDE DEF new
<1>4. page'[a] = new
  BY <1>3
<1> QED
  BY <1>1, <1>2, <1>3, <1>4, HeardKeeps DEF HearCreated, Busy

LEMMA HearRefusedKeeps ==
    ASSUME Inv, NEW a \in Actors, NEW p \in Creates, HearRefused(a, p) PROVE Inv'
<1>1. page'[a] = Form /\ page' = [page EXCEPT ![a] = page'[a]]
  BY DEF HearRefused, Inv, Typed
<1>2. page'[a] \in Page /\ page'[a].at = "form"
  BY <1>1, NothingYet DEF Form
<1> QED
  BY <1>1, <1>2, HeardKeeps DEF HearRefused, Busy

LEMMA LeaveKeeps == ASSUME Inv, NEW a \in Actors, Leave(a) PROVE Inv'
<1>1. /\ page'[a] = Form /\ page' \in [Actors -> Page]
      /\ \A b \in Actors : b # a => page'[b] = page[b]
  BY NothingYet DEF Leave, Inv, Typed
<1>2. Existing' = Existing /\ permit' = permit /\ audit' = audit /\ handler' = handler
  BY DEF Leave, Existing
<1>3. Typed' /\ RefsAreUnique'
  BY <1>1, <1>2 DEF Inv, Typed, RefsAreUnique
<1>4. ASSUME NEW p \in Creates PROVE HandlerInv(p)'
  <2>1. handler[p].at \in Busy => handler[p].actor # a
    BY DEF Leave, Inv, HandlerInv
  <2> QED
    BY <1>1, <1>2, <2>1 DEF Inv, HandlerInv
<1>5. ASSUME NEW b \in Actors PROVE PageInv(b)'
  BY <1>1, <1>2 DEF Inv, PageInv, Form
<1> QED
  BY <1>3, <1>4, <1>5 DEF Inv

LEMMA StepKeeps == Inv /\ [Next]_vars => Inv'
<1> SUFFICES ASSUME Inv, [Next]_vars PROVE Inv'
  OBVIOUS
<1>1. ASSUME NEW a \in Actors, Leave(a) \/ \E p \in Creates : Submit(a, p) PROVE Inv'
  BY <1>1, LeaveKeeps, SubmitKeeps
<1>2. ASSUME NEW p \in Creates, Serve(p) PROVE Inv'
  BY <1>2, CountKeeps, LookKeeps, CreateKeeps, AuditKeeps DEF Serve
<1>3. ASSUME NEW p \in Creates, HearBack(p) PROVE Inv'
  BY <1>3, HearCreatedKeeps, HearRefusedKeeps DEF HearBack
<1>4. ASSUME NEW p \in Creates, Fails(p) \/ AnswerLost(p) PROVE Inv'
  BY <1>4, FailsKeeps, LostKeeps
<1>5. CASE UNCHANGED vars
  BY <1>5 DEF vars, Inv, Typed, RefsAreUnique, HandlerInv, PageInv, Existing
<1> QED
  BY <1>1, <1>2, <1>3, <1>4, <1>5, CrashKeeps DEF Next

THEOREM InvHolds == Spec => []Inv
BY InitEstablishes, StepKeeps, PTL DEF Spec

-----------------------------------------------------------------------------
(* Results. *)

\* PermitsService.create and its callers keep their state well-formed, and a form
\* never waits for a handler that is gone.
THEOREM RegistryTyped == Spec => []RegistryTypeOK
<1>1. Inv => RegistryTypeOK
  BY DEF Inv, Typed, PageInv, RegistryTypeOK, Busy
<1> QED
  BY <1>1, InvHolds, PTL

\* The counted, looked-up and clock-made references of generateRef never name two permits.
THEOREM RefsUnique == Spec => []RefsAreUnique
<1>1. Inv => RefsAreUnique
  BY DEF Inv
<1> QED
  BY <1>1, InvHolds, PTL

\* The page NewPermitPage goes to finds exactly the permit its own application made.
THEOREM AnswersAreOwn == Spec => []AnswerIsOwnPermit
<1>1. ASSUME Inv, NEW a \in Actors, page[a].at = "permit"
      PROVE  FoundBy(page[a].ref, a) = {page[a].made}
  <2>1. /\ page[a].made \in Existing /\ permit[page[a].made].ref = page[a].ref
        /\ a \in Applicants => permit[page[a].made].owner = a
    BY <1>1 DEF Inv, PageInv, OwnerFor
  <2>2. \A q \in Existing : permit[q].ref = page[a].ref => q = page[a].made
    BY <1>1, <2>1 DEF Inv, RefsAreUnique
  <2> QED
    BY <2>1, <2>2 DEF FoundBy
<1>2. Inv => AnswerIsOwnPermit
  BY <1>1 DEF AnswerIsOwnPermit
<1> QED
  BY <1>2, InvHolds, PTL

\* No create replaces a permit or changes its reference or owner.
THEOREM PermitsKept == Spec => PermitsAreKept
<1> DEFINE Kept == \A p \in Permits : permit[p].exists => permit'[p] = permit[p]
<1>1. ASSUME Inv, NEW p \in Creates, Create(p) PROVE Kept
  <2>1. ~permit[p].exists
    BY <1>1 DEF Create, Inv, HandlerInv
  <2> QED
    BY <1>1, <2>1 DEF Create, Inv, Typed
<1>2. Inv /\ [Next]_vars => [Kept]_vars
  BY <1>1 DEF Next, vars, Leave, Submit, Serve, CountPermits, LookForClash, Audit, HearBack,
              HearCreated, HearRefused, Fails, AnswerLost, Crash
<1> QED
  BY <1>2, InvHolds, PTL DEF Spec, PermitsAreKept

=============================================================================
