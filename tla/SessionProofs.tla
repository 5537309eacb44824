---------------------------- MODULE SessionProofs ----------------------------
(***************************************************************************)
(* For any number of tabs, calls and accounts: every session is of an       *)
(* account whose password was given, a shown user has a token, and the API  *)
(* forbids no page what its route has allowed.                              *)
(***************************************************************************)
EXTENDS Session, TLAPS

\* The accounts a session may be of.
Known == proved \union {NoOne}

RowsInv ==
    /\ accounts \in [Emails -> 0..1]
    /\ proved \subseteq Emails
    /\ authAudit \subseteq Watched \X proved

TabsInv ==
    /\ cookie \in Known
    /\ token \in [Tabs -> Known]
    /\ user \in [Tabs -> Known]
    /\ loading \in [Tabs -> BOOLEAN]
    /\ path \in [Tabs -> Pages \union {"closed"}]
    /\ refresh \in [Tabs -> [phase : {"none", "sent", "answered"}, carries : Known, who : Known]]
    /\ UserHasToken

\* What a call carries, and what it is answered with, was earned before it; a page
\* asks only for what its user's role is admitted to.
CallInv(c) ==
    /\ call[c].who \in Known
    /\ call[c].phase # "ended" /\ call[c].kind \in {"boot", "page"} => call[c].carries \in Known
    /\ call[c].phase # "ended" /\ call[c].kind = "page" =>
          call[c].subject \in Emails /\ RoleOf[call[c].subject] \in Admits(call[c].endpoint)
    /\ call[c].phase # "ended" /\ call[c].kind \in {"login", "register"} => call[c].subject \in Emails
    /\ call[c].phase = "answered" /\ call[c].status = "forbidden" =>
          call[c].carries # call[c].subject \/ UnlinkedInspector(call[c]) \/ PermitMayBeOthers(call[c])
    /\ call[c].phase = "waiting" => refresh[call[c].tab].phase # "none"

CallsInv == call \in [Calls -> Call] /\ \A c \in Calls : CallInv(c)

Inv == RowsInv /\ TabsInv /\ CallsInv

-----------------------------------------------------------------------------
(* What the definitions of Session come to. *)

LEMMA RoleFacts == RoleOf \in [Emails -> Roles] /\ NoOne \notin Emails
BY RoleAssumption, NoOneAssumption

LEMMA NoCallIsCall == NoCall \in Call
<1>1. NoCall.tab \in Tabs
  BY TabsAssumption DEF NoCall
<1> QED
  BY <1>1 DEF NoCall, Call, Kinds, Phases, Endpoints, Someone

LEMMA EndedIsCall == ASSUME NEW q \in Call PROVE Ended(q) \in Call
BY NoCallIsCall DEF Ended, NoCall, Call, Kinds, Phases, Endpoints, Someone

\* The route table of App.tsx agrees with the @Roles of the controllers.
LEMMA RoutesAgree ==
    ASSUME NEW section \in Sections, NEW endpoint \in Asks(section), NEW role \in MayEnter(section)
    PROVE  endpoint \in Endpoints /\ role \in Admits(endpoint)
<1>1. CASE section = "/permits"
  BY <1>1 DEF Asks, MayEnter, Admits, Endpoints, Roles
<1>2. CASE section = "/inspect"
  BY <1>2 DEF Asks, MayEnter, Admits, Endpoints, Roles
<1>3. CASE section = "/dashboard"
  BY <1>3 DEF Asks, MayEnter, Admits, Endpoints, Roles
<1> QED
  BY <1>1, <1>2, <1>3 DEF Sections

LEMMA DestinationIsPage ==
    ASSUME NEW t \in Tabs, user[t] \in Someone
    PROVE  Destination(t) \in Pages \union {""}
<1>1. ASSUME user[t] # NoOne PROVE Home(RoleOf[user[t]]) \in Pages
  BY <1>1, RoleFacts DEF Home, Roles, Pages, Sections, Someone
<1> QED
  BY <1>1 DEF Destination, Pages

\* A page that is shown has a user whose role may enter its section.
LEMMA ShownIsAllowed ==
    ASSUME NEW t \in Tabs, path[t] \in Sections, ~loading[t], Destination(t) = "",
           user[t] \in Someone
    PROVE  user[t] \in Emails /\ RoleOf[user[t]] \in MayEnter(path[t])
BY DEF Destination, Sections, Someone

-----------------------------------------------------------------------------

LEMMA InitInv == Init => Inv
<1> SUFFICES ASSUME Init PROVE Inv
  OBVIOUS
<1>1. RowsInv
  BY DEF Init, RowsInv
<1>2. TabsInv
  BY DEF Init, TabsInv, Known, NoRefresh, UserHasToken
<1>3. CallsInv
  BY NoCallIsCall DEF Init, CallsInv, CallInv, NoCall, Known
<1> QED
  BY <1>1, <1>2, <1>3 DEF Inv

\* A call that is sent.
LEMMA SendStep ==
    ASSUME Inv, UNCHANGED <<proved, refresh>>, NEW c \in Calls, NEW t \in Tabs,
           NEW kind \in Kinds, NEW subject \in Someone, NEW carries \in Someone,
           NEW endpoint \in Endpoints, Send(c, kind, t, subject, carries, endpoint),
           kind \in {"boot", "page"} => carries \in Known,
           kind = "page" => subject \in Emails /\ RoleOf[subject] \in Admits(endpoint),
           kind \in {"login", "register"} => subject \in Emails
    PROVE  CallsInv'
<1>1. call' \in [Calls -> Call]
  BY DEF Send, Inv, CallsInv, Call, Phases, Someone
<1>2. ASSUME NEW d \in Calls PROVE CallInv(d)'
  <2>1. CASE d = c
    BY <2>1 DEF Send, Inv, CallsInv, CallInv, Known
  <2>2. CASE d # c
    BY <2>2 DEF Send, Inv, CallsInv, CallInv, Known, Admits
  <2> QED
    BY <2>1, <2>2
<1> QED
  BY <1>1, <1>2 DEF CallsInv

\* A call that is answered.
LEMMA AnswerStep ==
    ASSUME Inv, refresh' = refresh, proved \subseteq proved',
           NEW c \in Calls, NEW status \in {"ok", "unauthorized", "forbidden", "refused"},
           NEW who \in Someone, Answer(c, status, who), who \in Known',
           call[c].phase # "ended",
           status = "forbidden" => \/ call[c].carries # call[c].subject
                                   \/ UnlinkedInspector(call[c]) \/ PermitMayBeOthers(call[c])
    PROVE  CallsInv'
<1>1. call' \in [Calls -> Call]
  <2>1. [call[c] EXCEPT !.phase = "answered", !.status = status, !.who = who] \in Call
    <3>1. call[c] \in Call
      BY DEF Inv, CallsInv
    <3> QED
      BY <3>1 DEF Call, Phases
  <2> QED
    BY <2>1 DEF Answer, Inv, CallsInv
<1>2. ASSUME NEW d \in Calls PROVE CallInv(d)'
  <2>1. CASE d = c
    <3>1. call[c] \in Call /\ CallInv(c)
      BY DEF Inv, CallsInv
    <3>2. call'[c] = [call[c] EXCEPT !.phase = "answered", !.status = status, !.who = who]
      BY DEF Answer, Inv, CallsInv
    <3>3. /\ call'[c].phase = "answered" /\ call'[c].status = status /\ call'[c].who = who
          /\ call'[c].carries = call[c].carries /\ call'[c].subject = call[c].subject
          /\ call'[c].kind = call[c].kind /\ call'[c].endpoint = call[c].endpoint
          /\ call'[c].tab = call[c].tab
      BY <3>1, <3>2 DEF Call
    <3> QED
      BY <2>1, <3>1, <3>3 DEF CallInv, Known, UnlinkedInspector, PermitMayBeOthers
  <2>2. CASE d # c
    <3>1. call'[d] = call[d] /\ CallInv(d)
      BY <2>2 DEF Answer, Inv, CallsInv
    <3> QED
      BY <3>1 DEF CallInv, Known, Admits
  <2> QED
    BY <2>1, <2>2
<1> QED
  BY <1>1, <1>2 DEF CallsInv

\* A call that is dropped, held back or given back to its caller.
LEMMA EndStep ==
    ASSUME Inv, refresh' = refresh, UNCHANGED proved, NEW c \in Calls,
           \/ call' = [call EXCEPT ![c] = NoCall]
           \/ call' = [call EXCEPT ![c] = Ended(call[c])]
           \/ call' = [call EXCEPT ![c].phase = "checked"] /\ call[c].kind = "register"
                      /\ call[c].phase = "sent"
    PROVE  CallsInv'
<1>0. call[c] \in Call /\ CallInv(c) /\ Ended(call[c]) \in Call
  BY EndedIsCall DEF Inv, CallsInv
<1>1. ASSUME NEW d \in Calls, d # c PROVE CallInv(d)'
  <2>1. call'[d] = call[d] /\ CallInv(d)
    BY <1>1 DEF Inv, CallsInv
  <2> QED
    BY <2>1 DEF CallInv, Known, Admits
<1>2. CASE call' = [call EXCEPT ![c] = NoCall]
  <2>1. call'[c] = NoCall /\ call' \in [Calls -> Call]
    BY <1>2, NoCallIsCall DEF Inv, CallsInv
  <2> QED
    BY <1>1, <2>1 DEF CallsInv, CallInv, NoCall, Known
<1>3. CASE call' = [call EXCEPT ![c] = Ended(call[c])]
  <2>1. call'[c] = Ended(call[c]) /\ call' \in [Calls -> Call]
    BY <1>0, <1>3 DEF Inv, CallsInv
  <2> QED
    BY <1>0, <1>1, <2>1 DEF CallsInv, CallInv, NoCall, Ended, Known
<1>4. CASE /\ call' = [call EXCEPT ![c].phase = "checked"]
           /\ call[c].kind = "register" /\ call[c].phase = "sent"
  <2>1. call'[c] = [call[c] EXCEPT !.phase = "checked"] /\ call' \in [Calls -> Call]
    BY <1>0, <1>4 DEF Inv, CallsInv, Call, Phases
  <2>2. /\ call'[c].phase = "checked" /\ call'[c].kind = "register"
        /\ call'[c].who = call[c].who /\ call'[c].subject = call[c].subject
    BY <1>0, <1>4, <2>1 DEF Call
  <2> QED
    BY <1>0, <1>1, <1>4, <2>1, <2>2 DEF CallsInv, CallInv, Known
<1> QED
  BY <1>2, <1>3, <1>4

\* A step that touches no call.
LEMMA CallsKeptStep ==
    ASSUME Inv, UNCHANGED call, proved \subseteq proved',
           \A t \in Tabs : refresh[t].phase # "none" => refresh'[t].phase # "none"
    PROVE  CallsInv'
<1>1. ASSUME NEW c \in Calls PROVE CallInv(c)'
  <2>1. call'[c] = call[c] /\ CallInv(c) /\ call[c].tab \in Tabs
    BY DEF Inv, CallsInv, Call
  <2> QED
    BY <2>1 DEF CallInv, Known, Admits
<1> QED
  BY <1>1 DEF Inv, CallsInv

-----------------------------------------------------------------------------
(* What a person does. *)

LEMMA ActsStep ==
    ASSUME Inv, NEW t \in Tabs, Acts(t)
    PROVE  Inv'
<1>0. cookie \in Someone /\ token[t] \in Someone /\ user[t] \in Someone
  BY DEF Inv, RowsInv, TabsInv, Known, Someone
<1>1. ASSUME NEW c \in Calls, Open(t, c) PROVE Inv'
  <2>1. CallsInv'
    BY <1>0, <1>1, SendStep DEF Open, rows, Kinds, Endpoints, Someone, Inv, TabsInv
  <2> QED
    BY <1>1, <2>1 DEF Open, Inv, RowsInv, TabsInv, Known, rows, UserHasToken, Pages
<1>2. ASSUME NEW c \in Calls, SubmitLogin(t, c) PROVE Inv'
  <2>1. CallsInv'
    <3>1. PICK e \in Emails, password \in Someone : Send(c, "login", t, e, password, "anyone")
      BY <1>2 DEF SubmitLogin, Someone
    <3> QED
      BY <1>2, <3>1, SendStep DEF SubmitLogin, rows, Kinds, Endpoints, Someone
  <2> QED
    BY <1>2, <2>1 DEF SubmitLogin, Inv, RowsInv, TabsInv, Known, rows, tabVars, UserHasToken
<1>3. ASSUME NEW c \in Calls, SubmitRegister(t, c) PROVE Inv'
  <2>1. CallsInv'
    <3>1. PICK e \in Emails : Send(c, "register", t, e, NoOne, "anyone")
      BY <1>3 DEF SubmitRegister
    <3> QED
      BY <1>3, <3>1, SendStep DEF SubmitRegister, rows, Kinds, Endpoints, Someone
  <2> QED
    BY <1>3, <2>1 DEF SubmitRegister, Inv, RowsInv, TabsInv, Known, rows, tabVars, UserHasToken
<1>4. ASSUME NEW c \in Calls, ClickLogout(t, c) PROVE Inv'
  <2>1. CallsInv'
    BY <1>4, SendStep DEF ClickLogout, rows, Kinds, Endpoints, Someone
  <2> QED
    BY <1>4, <2>1 DEF ClickLogout, Inv, RowsInv, TabsInv, Known, rows, tabVars, UserHasToken
<1>5. ASSUME NEW c \in Calls, PageCall(t, c) PROVE Inv'
  <2>1. CallsInv'
    <3>1. PICK endpoint \in Asks(path[t]) : Send(c, "page", t, user[t], token[t], endpoint)
      BY <1>5 DEF PageCall
    <3>2. path[t] \in Sections /\ user[t] \in Emails /\ RoleOf[user[t]] \in MayEnter(path[t])
      BY <1>0, <1>5, ShownIsAllowed DEF PageCall
    <3>3. endpoint \in Endpoints /\ RoleOf[user[t]] \in Admits(endpoint)
      BY <3>2, RoutesAgree
    <3>4. token[t] \in Known
      BY DEF Inv, TabsInv
    <3> QED
      BY <1>0, <1>5, <3>1, <3>2, <3>3, <3>4, SendStep DEF PageCall, rows, Kinds
  <2> QED
    BY <1>5, <2>1 DEF PageCall, Inv, RowsInv, TabsInv, Known, rows, tabVars, UserHasToken
<1>6. CASE ClickBrand(t)
  <2>1. CallsInv'
    BY <1>6, CallsKeptStep DEF ClickBrand, rows
  <2> QED
    BY <1>6, <2>1 DEF ClickBrand, Inv, RowsInv, TabsInv, Known, rows, UserHasToken, Pages
<1> QED
  BY <1>1, <1>2, <1>3, <1>4, <1>5, <1>6 DEF Acts

-----------------------------------------------------------------------------
(* What the server does. *)

\* Nothing but the rows and the call changes, and every row is earned.
LEMMA ServerSideStep ==
    ASSUME Inv, RowsInv', CallsInv', proved \subseteq proved', UNCHANGED <<cookie, tabVars, refresh>>
    PROVE  Inv'
BY DEF Inv, TabsInv, Known, tabVars, UserHasToken

LEMMA ServesStep ==
    ASSUME Inv, NEW c \in Calls, Serves(c)
    PROVE  Inv'
<1> DEFINE e == call[c].subject
<1>0. /\ CallInv(c) /\ call[c] \in Call /\ RowsInv
      /\ call[c].carries \in Someone
      /\ NoOne \in Someone /\ NoOne \in Known
  BY DEF Inv, CallsInv, Call, Known, Someone
<1>1. CASE Login(c)
  <2>1. e \in Emails /\ call[c].phase # "ended"
    BY <1>0, <1>1 DEF Login, Sent, CallInv
  <2>2. CASE accounts[e] > 0 /\ call[c].carries = e
    <3>1. /\ proved' = proved \union {e} /\ Answer(c, "ok", e) /\ RecordAuth("AUTH_LOGIN", e)
          /\ UNCHANGED <<accounts, cookie, tabVars, refresh>>
      BY <1>1, <2>2 DEF Login
    <3>2. CallsInv'
      BY <2>1, <3>1, AnswerStep DEF Known, Someone
    <3>3. RowsInv'
      BY <1>0, <2>1, <3>1 DEF RowsInv, RecordAuth
    <3> QED
      BY <3>1, <3>2, <3>3, ServerSideStep
  <2>3. CASE ~(accounts[e] > 0 /\ call[c].carries = e)
    <3>1. /\ proved' = proved /\ Answer(c, "unauthorized", NoOne)
          /\ UNCHANGED <<accounts, authAudit, cookie, tabVars, refresh>>
      BY <1>1, <2>3 DEF Login
    <3>2. CallsInv'
      BY <1>0, <2>1, <3>1, AnswerStep DEF Known
    <3> QED
      BY <1>0, <3>1, <3>2, ServerSideStep DEF RowsInv
  <2> QED
    BY <2>2, <2>3
<1>2. CASE RegisterFind(c)
  <2>1. call[c].phase = "sent" /\ call[c].kind = "register"
    BY <1>2 DEF RegisterFind, Sent
  <2>2. CallsInv'
    <3>1. CASE Answer(c, "refused", NoOne)
      BY <1>0, <1>2, <2>1, <3>1, AnswerStep DEF RegisterFind, rows, Known
    <3>2. CASE call' = [call EXCEPT ![c].phase = "checked"]
      BY <1>2, <2>1, <3>2, EndStep DEF RegisterFind, rows
    <3> QED
      BY <1>2, <3>1, <3>2 DEF RegisterFind
  <2> QED
    BY <1>0, <1>2, <2>2, ServerSideStep DEF RegisterFind, rows, RowsInv
<1>3. CASE RegisterCreate(c)
  <2>1. e \in Emails /\ call[c].phase # "ended"
    BY <1>0, <1>3 DEF RegisterCreate, CallInv
  <2>2. CASE accounts[e] > 0
    <3>1. Answer(c, "refused", NoOne) /\ UNCHANGED <<rows, cookie, tabVars, refresh>>
      BY <1>3, <2>2 DEF RegisterCreate
    <3>2. CallsInv'
      BY <1>0, <2>1, <3>1, AnswerStep DEF rows, Known
    <3> QED
      BY <1>0, <3>1, <3>2, ServerSideStep DEF rows, RowsInv
  <2>3. CASE ~(accounts[e] > 0)
    <3>1. /\ accounts' = [accounts EXCEPT ![e] = 1] /\ proved' = proved \union {e}
          /\ RecordAuth("AUTH_REGISTER", e) /\ Answer(c, "ok", e)
          /\ UNCHANGED <<cookie, tabVars, refresh>>
      BY <1>3, <2>3 DEF RegisterCreate
    <3>2. CallsInv'
      BY <2>1, <3>1, AnswerStep DEF Known, Someone
    <3>3. RowsInv'
      BY <1>0, <2>1, <3>1 DEF RowsInv, RecordAuth
    <3> QED
      BY <3>1, <3>2, <3>3, ServerSideStep
  <2> QED
    BY <2>2, <2>3
<1>4. CASE Refresh(c)
  <2>1. call[c].phase # "ended" /\ call[c].carries \in Known /\ UNCHANGED <<rows, refresh>>
    BY <1>0, <1>4 DEF Refresh, Sent, CallInv
  <2>2. CallsInv'
    BY <1>0, <1>4, <2>1, AnswerStep DEF Refresh, rows, Known
  <2> QED
    BY <1>0, <1>4, <2>2, ServerSideStep DEF Refresh, rows, RowsInv
<1>5. CASE Logout(c)
  <2>1. CallsInv'
    BY <1>0, <1>5, AnswerStep DEF Logout, Sent, rows, Known
  <2> QED
    BY <1>0, <1>5, <2>1, ServerSideStep DEF Logout, rows, RowsInv
<1>6. CASE Guarded(c)
  <2>1. /\ call[c].phase # "ended" /\ UNCHANGED <<rows, refresh>>
        /\ RoleOf[call[c].subject] \in Admits(call[c].endpoint)
    BY <1>0, <1>6 DEF Guarded, Sent, CallInv
  <2>2. CallsInv'
    <3>1. CASE Answer(c, "unauthorized", NoOne)
      BY <1>0, <2>1, <3>1, AnswerStep DEF rows, Known
    <3>2. CASE Answer(c, "ok", NoOne)
      BY <1>0, <2>1, <3>2, AnswerStep DEF rows, Known
    <3>3. CASE /\ Answer(c, "forbidden", NoOne)
               /\ \/ RoleOf[call[c].carries] \notin Admits(call[c].endpoint)
                  \/ UnlinkedInspector(call[c]) \/ PermitMayBeOthers(call[c])
      <4>1. \/ call[c].carries # call[c].subject
            \/ UnlinkedInspector(call[c]) \/ PermitMayBeOthers(call[c])
        BY <2>1, <3>3
      <4> QED
        BY <1>0, <2>1, <3>3, <4>1, AnswerStep DEF rows, Known
    <3> QED
      BY <1>6, <3>1, <3>2, <3>3 DEF Guarded
  <2> QED
    BY <1>0, <1>6, <2>2, ServerSideStep DEF Guarded, rows, RowsInv
<1> QED
  BY <1>1, <1>2, <1>3, <1>4, <1>5, <1>6 DEF Serves

-----------------------------------------------------------------------------
(* What the client does. *)

LEMMA ArriveStep ==
    ASSUME Inv, NEW c \in Calls, Arrive(c)
    PROVE  Inv'
<1> DEFINE t == call[c].tab
           again == call[c].status = "unauthorized" /\ ~call[c].retry
<1>0. /\ CallInv(c) /\ call[c] \in Call /\ t \in Tabs /\ RowsInv /\ TabsInv
      /\ call[c].phase = "answered"
  BY DEF Inv, CallsInv, Call, Arrive
<1>1. TabsInv'
  <2>1. cookie' \in Known /\ UNCHANGED <<rows, tabVars>>
    BY <1>0 DEF Arrive, CookieAfter, CallInv, TabsInv, Known
  <2>2. refresh' \in [Tabs -> [phase : {"none", "sent", "answered"}, carries : Known, who : Known]]
    BY <1>0 DEF Arrive, TabsInv, Known
  <2> QED
    BY <1>0, <2>1, <2>2 DEF TabsInv, Known, rows, tabVars, UserHasToken
<1>2. CallsInv'
  <2>1. CASE again
    <3>1. /\ call' = [call EXCEPT ![c].phase = "waiting"] /\ UNCHANGED proved
          /\ refresh'[t].phase # "none"
          /\ \A u \in Tabs : refresh[u].phase # "none" => refresh'[u].phase # "none"
      BY <1>0, <2>1 DEF Arrive, rows, TabsInv
    <3>2. call'[c] = [call[c] EXCEPT !.phase = "waiting"] /\ call' \in [Calls -> Call]
      BY <1>0, <3>1 DEF Inv, CallsInv, Call, Phases
    <3>3. /\ call'[c].phase = "waiting" /\ call'[c].kind = call[c].kind
          /\ call'[c].who = call[c].who /\ call'[c].subject = call[c].subject
          /\ call'[c].carries = call[c].carries /\ call'[c].endpoint = call[c].endpoint
          /\ call'[c].tab = t
      BY <1>0, <3>2 DEF Call
    <3>4. CallInv(c)'
      BY <1>0, <3>1, <3>3 DEF CallInv, Known
    <3>5. ASSUME NEW d \in Calls, d # c PROVE CallInv(d)'
      <4>1. call'[d] = call[d] /\ CallInv(d) /\ call[d].tab \in Tabs
        BY <3>1, <3>5 DEF Inv, CallsInv, Call
      <4> QED
        BY <3>1, <4>1 DEF CallInv, Known, Admits
    <3> QED
      BY <3>2, <3>4, <3>5 DEF CallsInv
  <2>2. CASE ~again
    <3>1. call' = [call EXCEPT ![c] = Ended(call[c])] /\ UNCHANGED <<refresh, proved>>
      BY <2>2 DEF Arrive, rows
    <3> QED
      BY <3>1, EndStep
  <2> QED
    BY <2>1, <2>2
<1> QED
  BY <1>0, <1>1, <1>2 DEF Inv, RowsInv, Arrive, rows

LEMMA HearStep ==
    ASSUME Inv, NEW c \in Calls, Hear(c)
    PROVE  Inv'
<1>0. /\ CallInv(c) /\ call[c].tab \in Tabs /\ NoOne \in Known
      /\ call[c].who \in Known /\ RowsInv /\ TabsInv
  BY DEF Inv, CallsInv, Call, Known, CallInv
<1>1. CallsInv'
  BY EndStep DEF Hear, rows
<1>2. TabsInv'
  <2>1. UNCHANGED <<rows, cookie, refresh>>
    BY DEF Hear
  <2>2. ASSUME NEW t \in Tabs, NEW who \in Known, SignIn(t, who)
        PROVE  token' \in [Tabs -> Known] /\ user' \in [Tabs -> Known] /\ UserHasToken'
    BY <1>0, <2>2 DEF SignIn, TabsInv, UserHasToken
  <2>3. CASE HearBoot(c)
    BY <1>0, <2>1, <2>2, <2>3 DEF HearBoot, TabsInv, Known, rows
  <2>4. CASE HearLogin(c)
    <3>1. CASE call[c].status = "ok"
      BY <1>0, <2>1, <2>2, <2>4, <3>1 DEF HearLogin, TabsInv, Known, rows, Pages
    <3>2. CASE call[c].status # "ok"
      BY <1>0, <2>1, <2>4, <3>2 DEF HearLogin, TabsInv, Known, rows, tabVars, UserHasToken
    <3> QED
      BY <3>1, <3>2
  <2>5. CASE HearLogout(c)
    BY <1>0, <2>1, <2>2, <2>5 DEF HearLogout, TabsInv, Known, rows
  <2>6. CASE UNCHANGED tabVars
    BY <1>0, <2>1, <2>6 DEF TabsInv, Known, rows, tabVars, UserHasToken
  <2> QED
    BY <2>3, <2>4, <2>5, <2>6 DEF Hear
<1> QED
  BY <1>0, <1>1, <1>2 DEF Inv, RowsInv, Hear, rows

LEMMA RefreshesStep ==
    ASSUME Inv, NEW t \in Tabs, Refreshes(t)
    PROVE  Inv'
<1>0. RowsInv /\ TabsInv /\ CallsInv /\ refresh[t].who \in Known /\ refresh[t].carries \in Known
  BY DEF Inv, TabsInv
<1>1. CASE RefreshServed(t)
  <2>1. UNCHANGED <<rows, cookie, tabVars, call>>
    BY <1>1 DEF RefreshServed
  <2>2. refresh' \in [Tabs -> [phase : {"none", "sent", "answered"}, carries : Known, who : Known]]
    BY <1>0, <1>1 DEF RefreshServed, TabsInv, Known
  <2>3. \A u \in Tabs : refresh[u].phase # "none" => refresh'[u].phase # "none"
    BY <1>0, <1>1 DEF RefreshServed, TabsInv
  <2>4. CallsInv'
    BY <2>1, <2>3, CallsKeptStep DEF rows
  <2> QED
    BY <1>0, <2>1, <2>2, <2>4 DEF Inv, RowsInv, TabsInv, Known, rows, tabVars, UserHasToken
<1>2. CASE RefreshHeard(t)
  <2>1. /\ UNCHANGED <<rows, user, loading, path>> /\ call' = Resent(t)
        /\ refresh' = [refresh EXCEPT ![t] = NoRefresh]
        /\ cookie' \in Known
        /\ token' \in [Tabs -> Known]
        /\ UserHasToken'
    BY <1>0, <1>2 DEF RefreshHeard, TabsInv, Known, UserHasToken
  <2>2. TabsInv'
    BY <1>0, <2>1 DEF TabsInv, Known, rows, NoRefresh
  <2>3. ASSUME NEW c \in Calls PROVE call'[c] \in Call /\ CallInv(c)'
    <3>0. call[c] \in Call /\ CallInv(c) /\ Ended(call[c]) \in Call /\ UNCHANGED proved
      BY <1>0, <2>1, EndedIsCall DEF CallsInv, rows
    <3>1. CASE call[c].phase # "waiting" \/ call[c].tab # t
      <4>1. call'[c] = call[c] /\ (call[c].phase = "waiting" => refresh'[call[c].tab] = refresh[call[c].tab])
        BY <1>0, <2>1, <3>0, <3>1 DEF Resent, TabsInv, Call
      <4> QED
        BY <3>0, <4>1 DEF CallInv, Known, Admits
    <3>2. CASE call[c].phase = "waiting" /\ call[c].tab = t /\ refresh[t].who = NoOne
      <4>1. call'[c] = Ended(call[c])
        BY <2>1, <3>2 DEF Resent
      <4> QED
        BY <3>0, <4>1 DEF CallInv, NoCall, Ended, Known
    <3>3. CASE call[c].phase = "waiting" /\ call[c].tab = t /\ refresh[t].who # NoOne
      <4>1. call'[c] = [call[c] EXCEPT !.phase = "sent", !.status = "none", !.retry = TRUE,
                                       !.carries = CarriesNow(call[c])]
        BY <2>1, <3>3 DEF Resent
      <4>2. /\ CarriesNow(call[c]) \in Someone
            /\ call[c].kind \in {"boot", "page"} => CarriesNow(call[c]) \in Known
        BY <1>0, <2>1, <3>0, <3>3 DEF CarriesNow, Call, Known, RowsInv, Someone
      <4>3. /\ call'[c] \in Call /\ call'[c].phase = "sent" /\ call'[c].kind = call[c].kind
            /\ call'[c].who = call[c].who /\ call'[c].subject = call[c].subject
            /\ call'[c].carries = CarriesNow(call[c]) /\ call'[c].endpoint = call[c].endpoint
        BY <3>0, <4>1, <4>2 DEF Call, Phases
      <4> QED
        BY <3>0, <3>3, <4>2, <4>3 DEF CallInv, Known
    <3> QED
      BY <3>1, <3>2, <3>3
  <2>4. CallsInv'
    <3>1. call' \in [Calls -> Call]
      BY <2>1, <2>3 DEF Resent
    <3> QED
      BY <2>3, <3>1 DEF CallsInv
  <2> QED
    BY <1>0, <2>1, <2>2, <2>4 DEF Inv, RowsInv, rows
<1> QED
  BY <1>1, <1>2 DEF Refreshes

LEMMA InvStep == Inv /\ [Next]_vars => Inv'
<1> SUFFICES ASSUME Inv, [Next]_vars PROVE Inv'
  OBVIOUS
<1>1. ASSUME NEW c \in Calls, Fails(c) PROVE Inv'
  <2>1. CallsInv'
    BY <1>1, AnswerStep DEF Fails, rows, Known, Someone
  <2> QED
    BY <1>1, <2>1, ServerSideStep DEF Fails, rows, Inv, RowsInv
<1>2. ASSUME NEW e \in Emails, RegisteredElsewhere(e) PROVE Inv'
  <2>1. CallsInv'
    BY <1>2, CallsKeptStep DEF RegisteredElsewhere
  <2> QED
    BY <1>2, <2>1, ServerSideStep DEF RegisteredElsewhere, Inv, RowsInv
<1>3. ASSUME NEW t \in Tabs, Route(t) PROVE Inv'
  <2>1. user[t] \in Someone
    BY DEF Inv, RowsInv, TabsInv, Known, Someone
  <2>2. path' \in [Tabs -> Pages \union {"closed"}]
    BY <1>3, <2>1, DestinationIsPage DEF Route, Inv, TabsInv
  <2>3. CallsInv'
    BY <1>3, CallsKeptStep DEF Route, rows
  <2> QED
    BY <1>3, <2>2, <2>3 DEF Route, Inv, RowsInv, TabsInv, Known, rows, UserHasToken
<1>4. CASE UNCHANGED vars
  <2>1. CallsInv'
    BY <1>4, CallsKeptStep DEF vars, rows
  <2> QED
    BY <1>4, <2>1, ServerSideStep DEF vars, rows, Inv, RowsInv
<1> QED
  BY <1>1, <1>2, <1>3, <1>4, ActsStep, ServesStep, ArriveStep, HearStep, RefreshesStep
  DEF Next, Runs

-----------------------------------------------------------------------------
(* The theorems. *)

LEMMA InvIsInvariant == Spec => []Inv
BY InitInv, InvStep, PTL DEF Spec

\* The browser's state is well-formed at all times, and no call waits for a refresh
\* that nobody performs: no 401 leaves a page without an answer (api.ts request).
THEOREM SessionTyped == Spec => []SessionTypeOK
<1>1. Inv => SessionTypeOK
  <2> SUFFICES ASSUME Inv PROVE SessionTypeOK
    OBVIOUS
  <2>1. Known \subseteq Someone
    BY DEF Inv, RowsInv, Known, Someone
  <2> QED
    BY <2>1 DEF Inv, RowsInv, TabsInv, CallsInv, CallInv, SessionTypeOK
<1> QED
  BY <1>1, InvIsInvariant, PTL

\* However many tabs, calls and registrations of one email overtake one another,
\* each session is of an account whose password was given or set in this browser.
THEOREM SessionsEarned == Spec => []SessionsAreEarned
<1>1. Inv => SessionsAreEarned
  BY DEF Inv, RowsInv, TabsInv, CallsInv, CallInv, SessionsAreEarned, Known
<1> QED
  BY <1>1, InvIsInvariant, PTL

\* No order of late boots, refreshes and logouts leaves a user shown without a token.
THEOREM UsersHaveTokens == Spec => []UserHasToken
<1>1. Inv => UserHasToken
  BY DEF Inv, TabsInv
<1> QED
  BY <1>1, InvIsInvariant, PTL

\* For every assignment of roles and of inspector records: App.tsx and @Roles agree,
\* so a page is forbidden only what its handler refuses, or with another's token.
THEOREM RoutesMatchGuards == Spec => []ForbiddenIsExplained
<1>1. Inv => ForbiddenIsExplained
  BY DEF Inv, CallsInv, CallInv, ForbiddenIsExplained
<1> QED
  BY <1>1, InvIsInvariant, PTL

\* Under every role, the page RoleRedirect chooses keeps its user: from anywhere the
\* router needs two redirects at most.
THEOREM HomeIsReached ==
    Spec => [][\A t \in Tabs : Route(t) /\ path[t] = "/" => Destination(t)' = ""]_vars
<1> DEFINE Settled == \A t \in Tabs : Route(t) /\ path[t] = "/" => Destination(t)' = ""
<1>1. ASSUME Inv, NEW t \in Tabs, Route(t), path[t] = "/" PROVE Destination(t)' = ""
  <2>1. path'[t] = Destination(t) /\ UNCHANGED <<user, loading>>
    BY <1>1 DEF Route, Inv, TabsInv
  <2>2. CASE user[t] = NoOne
    <3>1. path'[t] = "/login"
      BY <1>1, <2>1, <2>2 DEF Route, Destination
    <3> QED
      BY <3>1 DEF Destination, Sections
  <2>3. CASE user[t] # NoOne
    <3>1. RoleOf[user[t]] \in Roles
      BY <1>1, <2>3, RoleAssumption DEF Inv, RowsInv, TabsInv, Known
    <3>2. path'[t] = Home(RoleOf[user[t]])
      BY <1>1, <2>1, <2>3 DEF Route, Destination, Sections
    <3>3. RoleOf[user[t]] \in MayEnter(path'[t]) /\ path'[t] \in Sections
      BY <3>1, <3>2 DEF Home, MayEnter, Roles, Sections
    <3> QED
      BY <2>1, <2>3, <3>3 DEF Destination, Sections
  <2> QED
    BY <2>2, <2>3
<1>2. Inv => [Settled]_vars
  BY <1>1
<1> QED
  BY <1>2, InvIsInvariant, PTL DEF Spec

=============================================================================
