------------------------------- MODULE Session -------------------------------
(***************************************************************************)
(* Signing in and out: one browser whose tabs run AuthContext, the router   *)
(* and the client of lib/api.ts, against AuthService, AuthController and    *)
(* the guards of the API.                                                   *)
(*                                                                         *)
(* The tabs share the refresh cookie; each has an access token, a signed-in *)
(* user and a refresh of its own. A call is sent, served, answered and      *)
(* heard in separate steps, so answers overtake one another. An account is  *)
(* its email, and a token, a cookie or a password is named by its account.  *)
(***************************************************************************)
EXTENDS Naturals, FiniteSets

Roles == {"APPLICANT", "INSPECTOR", "COUNCIL", "MINISTRY"}

CONSTANTS Tabs,      \* the tabs the browser may come to have
          Calls,     \* how many calls may be under way at once
          Emails,    \* the addresses people sign in or register with
          NoOne,     \* no account, no token, no cookie, a wrong password
          RoleOf,    \* the role of the account of an email
          Unlinked,  \* the emails whose account has no inspectorId
          Watched    \* the audit actions kept: those a property looks at

ASSUME RoleAssumption == RoleOf \in [Emails -> Roles]
ASSUME UnlinkedAssumption == Unlinked \subseteq Emails
ASSUME NoOneAssumption == NoOne \notin Emails
ASSUME TabsAssumption == Tabs # {}
ASSUME WatchedAssumption == Watched \subseteq {"AUTH_LOGIN", "AUTH_REGISTER"}

VARIABLES accounts,  \* how many User rows an email has
          authAudit, \* the AuditLog entries about accounts
          cookie,    \* the refresh cookie
          token,     \* per tab, accessToken of api.ts
          user,      \* per tab, user of AuthContext
          loading,   \* per tab, isLoading of AuthContext
          path,      \* per tab, the router's location
          refresh,   \* per tab, the shared refreshPromise
          call,      \* the calls of the tabs
          proved     \* history: whose password this browser has given, or set

rows == <<accounts, authAudit, proved>>
tabVars == <<token, user, loading, path>>
vars == <<rows, cookie, tabVars, refresh, call>>

Someone == Emails \union {NoOne}

-----------------------------------------------------------------------------
(* The routes of the web application and the roles of the API. *)

Sections == {"/permits", "/inspect", "/dashboard"}
Pages == Sections \union {"/", "/login"}

\* App.tsx: allowedRoles of the section's ProtectedRoutes.
MayEnter(section) == CASE section = "/permits"   -> {"APPLICANT"}
                       [] section = "/inspect"   -> {"INSPECTOR"}
                       [] section = "/dashboard" -> {"COUNCIL", "MINISTRY"}

HomeOfApplicants(role) == IF role \in {"COUNCIL", "MINISTRY"} THEN "/dashboard" ELSE "/permits"

\* RoleRedirect: HOME_BY_ROLE.
Home(role) == CASE role = "APPLICANT" -> "/permits"
                [] role = "INSPECTOR" -> "/inspect"
                [] role \in {"COUNCIL", "MINISTRY"} -> "/dashboard"

\* What the pages of a section ask of the API, by the guard in front of it.
Asks(section) == CASE section = "/permits"   -> {"readPermits", "changePermit", "anyone"}
                   [] section = "/inspect"   -> {"inspect"}
                   [] section = "/dashboard" -> {"oversee"}

Endpoints == {"readPermits", "changePermit", "anyone", "inspect", "oversee"}

AdmitsOfficialsOnly(endpoint) ==
    CASE endpoint = "readPermits"  -> {"COUNCIL", "MINISTRY"}
      [] endpoint = "changePermit" -> {"APPLICANT", "COUNCIL"}
      [] endpoint = "anyone"       -> Roles
      [] endpoint = "inspect"      -> {"INSPECTOR"}
      [] endpoint = "oversee"      -> {"COUNCIL", "MINISTRY"}

\* The @Roles of the controllers.
Admits(endpoint) == CASE endpoint = "readPermits"  -> {"APPLICANT", "COUNCIL", "MINISTRY"}
                      [] endpoint = "changePermit" -> {"APPLICANT", "COUNCIL"}
                      [] endpoint = "anyone"       -> Roles
                      [] endpoint = "inspect"      -> {"INSPECTOR"}
                      [] endpoint = "oversee"      -> {"COUNCIL", "MINISTRY"}

\* Where the router sends the tab on: ProtectedRoute and RoleRedirect wait for
\* the session to be checked; "" when it stays.
Destination(t) ==
    IF path[t] \notin Sections \union {"/"} \/ loading[t] THEN ""
    ELSE IF user[t] = NoOne THEN "/login"
    ELSE IF path[t] = "/" THEN Home(RoleOf[user[t]])
    ELSE IF RoleOf[user[t]] \notin MayEnter(path[t]) THEN "/" ELSE ""

-----------------------------------------------------------------------------
(* Calls. *)

Kinds == {"none", "boot", "login", "register", "logout", "page"}
Phases == {"sent", "checked", "answered", "waiting", "ended"}

\* `subject`: the email typed, or the user the page was rendered for; `carries`:
\* the cookie, the token or the password sent along; `who`: the account of the
\* tokens in the answer.
Call == [kind : Kinds, tab : Tabs, subject : Someone, carries : Someone,
         endpoint : Endpoints, retry : BOOLEAN, phase : Phases,
         status : {"none", "ok", "unauthorized", "forbidden", "refused"}, who : Someone]

NoCall == [kind |-> "none", tab |-> CHOOSE t \in Tabs : TRUE, subject |-> NoOne,
           carries |-> NoOne, endpoint |-> "anyone", retry |-> FALSE, phase |-> "ended",
           status |-> "none", who |-> NoOne]

\* What is left of a call that has come to its end, until its caller resumes.
Ended(q) == [NoCall EXCEPT !.kind = q.kind, !.tab = q.tab, !.status = q.status, !.who = q.who]

NoRefresh == [phase |-> "none", carries |-> NoOne, who |-> NoOne]

Send(c, kind, t, subject, carries, endpoint) ==
    /\ call[c].kind = "none"
    /\ call' = [call EXCEPT ![c] =
                  [kind |-> kind, tab |-> t, subject |-> subject, carries |-> carries,
                   endpoint |-> endpoint, retry |-> FALSE, phase |-> "sent",
                   status |-> "none", who |-> NoOne]]

Underway(t, kinds) == \E c \in Calls : call[c].kind \in kinds /\ call[c].tab = t

\* A visitor's browser, or one that comes back while its cookie lasts; the
\* accounts other than applicants' come from the seed.
Init ==
    /\ accounts \in [Emails -> 0..1]
    /\ \A e \in Emails : RoleOf[e] # "APPLICANT" => accounts[e] = 1
    /\ authAudit = {}
    /\ cookie \in {NoOne} \union {e \in Emails : accounts[e] = 1}
    /\ proved = {cookie} \ {NoOne}
    /\ token = [t \in Tabs |-> NoOne]
    /\ user = [t \in Tabs |-> NoOne]
    /\ loading = [t \in Tabs |-> TRUE]
    /\ path = [t \in Tabs |-> "closed"]
    /\ refresh = [t \in Tabs |-> NoRefresh]
    /\ call = [c \in Calls |-> NoCall]

-----------------------------------------------------------------------------
(* The person at the browser. *)

\* AuthProvider is mounted: it asks for a session with whatever cookie there is.
Open(t, c) ==
    /\ path[t] = "closed"
    /\ \E p \in Pages : path' = [path EXCEPT ![t] = p]
    /\ Send(c, "boot", t, NoOne, cookie, "anyone")
    /\ UNCHANGED <<rows, cookie, token, user, loading, refresh>>

\* LoginPage shows its form whether or not a session is being checked or exists;
\* its buttons wait for the call they made.
SubmitLogin(t, c) ==
    /\ path[t] = "/login" /\ ~Underway(t, {"login", "register"})
    /\ \E e \in Emails : \E password \in {e, NoOne} : Send(c, "login", t, e, password, "anyone")
    /\ UNCHANGED <<rows, cookie, tabVars, refresh>>

SubmitRegister(t, c) ==
    /\ path[t] = "/login" /\ ~Underway(t, {"login", "register"})
    /\ \E e \in Emails : Send(c, "register", t, e, NoOne, "anyone")
    /\ UNCHANGED <<rows, cookie, tabVars, refresh>>

\* AppShell surrounds every page but the login page and offers "Log out" to a user.
InShell(t) == path[t] \notin {"closed", "/login"} /\ user[t] # NoOne

ClickLogout(t, c) ==
    /\ InShell(t)
    /\ Send(c, "logout", t, NoOne, NoOne, "anyone")
    /\ UNCHANGED <<rows, cookie, tabVars, refresh>>

ClickBrand(t) ==
    /\ path[t] \in Sections
    /\ path' = [path EXCEPT ![t] = "/"]
    /\ UNCHANGED <<rows, cookie, token, user, loading, refresh, call>>

\* A rendered page asks the API for what it shows, or for what its user clicks.
PageCall(t, c) ==
    /\ path[t] \in Sections /\ ~loading[t] /\ Destination(t) = ""
    /\ \E endpoint \in Asks(path[t]) : Send(c, "page", t, user[t], token[t], endpoint)
    /\ UNCHANGED <<rows, cookie, tabVars, refresh>>

Acts(t) ==
    \/ \E c \in Calls : \/ Open(t, c)
                        \/ SubmitLogin(t, c)
                        \/ SubmitRegister(t, c)
                        \/ ClickLogout(t, c)
                        \/ PageCall(t, c)
    \/ ClickBrand(t)

-----------------------------------------------------------------------------
(* The API. *)

Sent(c, kind) == call[c].kind = kind /\ call[c].phase = "sent"

Answer(c, status, who) ==
    call' = [call EXCEPT ![c].phase = "answered", ![c].status = status, ![c].who = who]

\* AuditService.record, which swallows its own failure.
RecordAuth(action, e) ==
    authAudit' \in {authAudit, authAudit \union ({<<action, e>>} \intersect (Watched \X Emails))}

LoginAnyPassword(c) ==
    LET e == call[c].subject IN
    /\ Sent(c, "login")
    /\ proved' = proved \union (IF accounts[e] > 0 /\ call[c].carries = e THEN {e} ELSE {})
    /\ IF accounts[e] > 0
       THEN RecordAuth("AUTH_LOGIN", e) /\ Answer(c, "ok", e)
       ELSE Answer(c, "unauthorized", NoOne) /\ UNCHANGED authAudit
    /\ UNCHANGED <<accounts, cookie, tabVars, refresh>>

Login(c) ==
    LET e == call[c].subject
        right == accounts[e] > 0 /\ call[c].carries = e IN
    /\ Sent(c, "login")
    /\ proved' = proved \union (IF right THEN {e} ELSE {})
    /\ IF right THEN RecordAuth("AUTH_LOGIN", e) /\ Answer(c, "ok", e)
                ELSE Answer(c, "unauthorized", NoOne) /\ UNCHANGED authAudit
    /\ UNCHANGED <<accounts, cookie, tabVars, refresh>>

\* register looks for the email, hashes the password for a while ...
RegisterFind(c) ==
    /\ Sent(c, "register")
    /\ IF accounts[call[c].subject] > 0
       THEN Answer(c, "refused", NoOne)
       ELSE call' = [call EXCEPT ![c].phase = "checked"]
    /\ UNCHANGED <<rows, cookie, tabVars, refresh>>

RegisterCreateTwice(c) ==
    LET e == call[c].subject IN
    /\ call[c].kind = "register" /\ call[c].phase = "checked"
    /\ accounts' = [accounts EXCEPT ![e] = @ + 1]
    /\ proved' = proved \union (IF accounts[e] = 0 THEN {e} ELSE {})
    /\ RecordAuth("AUTH_REGISTER", e) /\ Answer(c, "ok", e)
    /\ UNCHANGED <<cookie, tabVars, refresh>>

\* ... and creates the user, which the unique email may still refuse.
RegisterCreate(c) ==
    LET e == call[c].subject IN
    /\ call[c].kind = "register" /\ call[c].phase = "checked"
    /\ IF accounts[e] > 0
       THEN Answer(c, "refused", NoOne) /\ UNCHANGED rows
       ELSE /\ accounts' = [accounts EXCEPT ![e] = 1]
            /\ proved' = proved \union {e}
            /\ RecordAuth("AUTH_REGISTER", e) /\ Answer(c, "ok", e)
    /\ UNCHANGED <<cookie, tabVars, refresh>>

\* Somebody registers with another browser.
RegisteredElsewhere(e) ==
    /\ accounts[e] = 0
    /\ accounts' = [accounts EXCEPT ![e] = 1]
    /\ UNCHANGED <<authAudit, proved, cookie, tabVars, refresh, call>>

\* refresh: no cookie, or one that has expired, is unauthorized.
Refresh(c) ==
    /\ Sent(c, "boot")
    /\ \/ call[c].carries # NoOne /\ Answer(c, "ok", call[c].carries)
       \/ Answer(c, "unauthorized", NoOne)
    /\ UNCHANGED <<rows, cookie, tabVars, refresh>>

Logout(c) ==
    /\ Sent(c, "logout")
    /\ Answer(c, "ok", NoOne)
    /\ UNCHANGED <<rows, cookie, tabVars, refresh>>

\* Two handlers forbid what the guards let through: the inspector's, to a user who
\* is not linked to an inspector; and those that ask assertActorMayAct, to an
\* applicant, if the permit is somebody else's (every applicant can read it).
UnlinkedInspector(q) == q.endpoint = "inspect" /\ q.carries \in Unlinked
PermitMayBeOthers(q) == q.endpoint = "changePermit" /\ RoleOf[q.carries] = "APPLICANT"

\* JwtAuthGuard refuses a missing or expired token, RolesGuard the role in it; then
\* the handler decides.
Guarded(c) ==
    LET q == call[c]
        admitted == RoleOf[q.carries] \in Admits(q.endpoint) /\ ~UnlinkedInspector(q) IN
    /\ Sent(c, "page")
    /\ \/ Answer(c, "unauthorized", NoOne)
       \/ q.carries # NoOne /\ admitted /\ Answer(c, "ok", NoOne)
       \/ q.carries # NoOne /\ (~admitted \/ PermitMayBeOthers(q)) /\ Answer(c, "forbidden", NoOne)
    /\ UNCHANGED <<rows, cookie, tabVars, refresh>>

\* The server fails or throttles the call, or its answer is lost.
Fails(c) ==
    /\ call[c].kind # "none" /\ call[c].phase \in {"sent", "checked", "answered"}
    /\ Answer(c, "refused", NoOne)
    /\ UNCHANGED <<rows, cookie, tabVars, refresh>>

-----------------------------------------------------------------------------
(* The client: request, refreshAccessToken and AuthContext. *)

\* The browser stores or clears the cookie as the answer says.
CookieAfter(q) == CASE q.status = "ok" /\ q.kind \in {"boot", "login", "register"} -> q.who
                    [] q.status = "ok" /\ q.kind = "logout" -> NoOne
                    [] OTHER -> cookie

ArriveRetryingAlways(c) ==
    LET t == call[c].tab
        again == call[c].status = "unauthorized" IN
    /\ call[c].phase = "answered"
    /\ cookie' = CookieAfter(call[c])
    /\ call' = [call EXCEPT ![c] = IF again THEN [@ EXCEPT !.phase = "waiting"] ELSE Ended(@)]
    /\ refresh' = IF again /\ refresh[t].phase = "none"
                  THEN [refresh EXCEPT ![t] = [phase |-> "sent", carries |-> cookie, who |-> NoOne]]
                  ELSE refresh
    /\ UNCHANGED <<rows, tabVars>>

\* request: the first 401 of a call starts a refresh, or joins the one under way.
Arrive(c) ==
    LET t == call[c].tab
        again == call[c].status = "unauthorized" /\ ~call[c].retry IN
    /\ call[c].phase = "answered"
    /\ cookie' = CookieAfter(call[c])
    /\ call' = [call EXCEPT ![c] = IF again THEN [@ EXCEPT !.phase = "waiting"] ELSE Ended(@)]
    /\ refresh' = IF again /\ refresh[t].phase = "none"
                  THEN [refresh EXCEPT ![t] = [phase |-> "sent", carries |-> cookie, who |-> NoOne]]
                  ELSE refresh
    /\ UNCHANGED <<rows, tabVars>>

\* The refresh is served; null if it fails in any way.
RefreshServed(t) ==
    /\ refresh[t].phase = "sent"
    /\ \E who \in {refresh[t].carries, NoOne} :
          refresh' = [refresh EXCEPT ![t] = [phase |-> "answered", carries |-> NoOne, who |-> who]]
    /\ UNCHANGED <<rows, cookie, tabVars, call>>

\* What a call carries when it is sent again.
CarriesNow(q) == CASE q.kind = "boot" -> cookie'
                   [] q.kind = "page" -> token'[q.tab]
                   [] OTHER           -> q.carries

\* Every call that waits for it is sent once more, or ends as it was answered.
Resent(t) ==
    [c \in Calls |->
       IF call[c].phase # "waiting" \/ call[c].tab # t THEN call[c]
       ELSE IF refresh[t].who = NoOne THEN Ended(call[c])
       ELSE [call[c] EXCEPT !.phase = "sent", !.status = "none", !.retry = TRUE,
                            !.carries = CarriesNow(call[c])]]

RefreshHeardOrSignedOut(t) ==
    LET who == refresh[t].who IN
    /\ refresh[t].phase = "answered"
    /\ cookie' = IF who = NoOne THEN cookie ELSE who
    /\ token' = [token EXCEPT ![t] = who]
    /\ refresh' = [refresh EXCEPT ![t] = NoRefresh]
    /\ call' = Resent(t)
    /\ UNCHANGED <<rows, user, loading, path>>

\* The new token is stored, not the user that came with it.
RefreshHeard(t) ==
    LET who == refresh[t].who IN
    /\ refresh[t].phase = "answered"
    /\ cookie' = IF who = NoOne THEN cookie ELSE who
    /\ token' = IF who = NoOne THEN token ELSE [token EXCEPT ![t] = who]
    /\ refresh' = [refresh EXCEPT ![t] = NoRefresh]
    /\ call' = Resent(t)
    /\ UNCHANGED <<rows, user, loading, path>>

SignIn(t, who) ==
    /\ token' = [token EXCEPT ![t] = who]
    /\ user' = [user EXCEPT ![t] = who]

\* Boot: a failure of any kind signs the tab out.
HearBoot(c) ==
    LET t == call[c].tab IN
    /\ SignIn(t, IF call[c].status = "ok" THEN call[c].who ELSE NoOne)
    /\ loading' = [loading EXCEPT ![t] = FALSE]
    /\ UNCHANGED path

\* Login and registration: the session, and home; or an error under the form.
HearLogin(c) ==
    LET t == call[c].tab IN
    IF call[c].status = "ok"
    THEN /\ SignIn(t, call[c].who)
         /\ path' = [path EXCEPT ![t] = "/"]
         /\ UNCHANGED loading
    ELSE UNCHANGED tabVars

HearLogoutIfOk(c) ==
    /\ IF call[c].status = "ok" THEN SignIn(call[c].tab, NoOne) ELSE UNCHANGED <<token, user>>
    /\ UNCHANGED <<loading, path>>

\* Logout signs the tab out whatever the answer (finally).
HearLogout(c) ==
    /\ SignIn(call[c].tab, NoOne)
    /\ UNCHANGED <<loading, path>>

Hear(c) ==
    /\ call[c].kind # "none" /\ call[c].phase = "ended"
    /\ call' = [call EXCEPT ![c] = NoCall]
    /\ \/ call[c].kind = "boot" /\ HearBoot(c)
       \/ call[c].kind \in {"login", "register"} /\ HearLogin(c)
       \/ call[c].kind = "logout" /\ HearLogout(c)
       \/ call[c].kind = "page" /\ UNCHANGED tabVars
    /\ UNCHANGED <<rows, cookie, refresh>>

\* <Navigate replace>.
Route(t) ==
    /\ Destination(t) # ""
    /\ path' = [path EXCEPT ![t] = Destination(t)]
    /\ UNCHANGED <<rows, cookie, token, user, loading, refresh, call>>

-----------------------------------------------------------------------------

Serves(c) ==
    \/ Login(c)
    \/ RegisterFind(c)
    \/ RegisterCreate(c)
    \/ Refresh(c)
    \/ Logout(c)
    \/ Guarded(c)

Runs(c) == Serves(c) \/ Arrive(c) \/ Hear(c)
Refreshes(t) == RefreshServed(t) \/ RefreshHeard(t)

Next ==
    \/ \E t \in Tabs : Acts(t) \/ Refreshes(t) \/ Route(t)
    \/ \E c \in Calls : Runs(c) \/ Fails(c)
    \/ \E e \in Emails : RegisteredElsewhere(e)

\* Calls come to an end and redirects are followed; nobody has to click.
Spec ==
    /\ Init
    /\ [][Next]_vars
    /\ \A c \in Calls : WF_vars(Runs(c))
    /\ \A t \in Tabs : WF_vars(Refreshes(t)) /\ WF_vars(Route(t))

-----------------------------------------------------------------------------
(* Properties. *)

\* The accounts, the browser and its calls are well-formed, and a call waits
\* exactly while its tab refreshes: no answer can be left without a listener.
SessionTypeOK ==
    /\ accounts \in [Emails -> 0..1]
    /\ authAudit \subseteq Watched \X Emails
    /\ proved \subseteq Emails
    /\ cookie \in Someone
    /\ token \in [Tabs -> Someone]
    /\ user \in [Tabs -> Someone]
    /\ loading \in [Tabs -> BOOLEAN]
    /\ path \in [Tabs -> Pages \union {"closed"}]
    /\ refresh \in [Tabs -> [phase : {"none", "sent", "answered"}, carries : Someone, who : Someone]]
    /\ call \in [Calls -> Call]
    /\ \A c \in Calls : call[c].phase = "waiting" => refresh[call[c].tab].phase # "none"

\* Nobody is somebody else: every session the browser holds or is about to hear
\* of, and every entry of the audit trail, is of an account whose password this
\* browser gave or set, however logins, registrations of one email, refreshes and
\* retries overtake one another (auth.service.ts).
SessionsAreEarned ==
    LET held == {cookie} \union {token[t] : t \in Tabs} \union {user[t] : t \in Tabs}
                \union {refresh[t].who : t \in Tabs} \union {refresh[t].carries : t \in Tabs}
                \union {call[c].who : c \in Calls} \union {entry[2] : entry \in authAudit}
    IN held \ {NoOne} \subseteq proved

\* A tab that shows a user has a token to act for it: no failed refresh, lost
\* logout or late boot leaves the one without the other.
UserHasToken == \A t \in Tabs : user[t] # NoOne => token[t] # NoOne

\* The routes agree with the guards: RolesGuard never turns away a page that acts
\* for the user it was rendered for. A 403 means that the token is another's by
\* now, or that the handler itself refused.
ForbiddenIsExplained ==
    \A c \in Calls : call[c].phase = "answered" /\ call[c].status = "forbidden" =>
        \/ call[c].carries # call[c].subject
        \/ UnlinkedInspector(call[c])
        \/ PermitMayBeOthers(call[c])

\* Every call ends: it is not retried for ever, and does not wait for a refresh
\* that waits for it.
CallsEnd == \A c \in Calls : call[c].kind # "none" ~> call[c].kind = "none"

\* The router comes to rest: no role is sent to a page that sends it back.
RedirectsEnd == \A t \in Tabs : Destination(t) # "" ~> Destination(t) = ""

\* Who logs out is signed out in that tab, even if the call fails.
LogoutSignsOut == \A t \in Tabs : Underway(t, {"logout"}) ~> user[t] = NoOne

=============================================================================
