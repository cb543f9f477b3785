--------------------------- MODULE ConsoleSession ---------------------------
(***************************************************************************)
(* The session of one browser tab of the console: the state machine of      *)
(* App.tsx, what the API client keeps in the browser (a display copy of the *)
(* user in sessionStorage, a CSRF cookie the scripts can read, and a        *)
(* session cookie they cannot), and the navigation between pages.           *)
(*                                                                          *)
(* A request is served and its answer handled in one step, except that a    *)
(* request may stay in flight for any time before that.  A session token    *)
(* holds its user and the auth_version it was issued under; the backend     *)
(* refuses it once the version of the user has moved on.                    *)
(***************************************************************************)
EXTENDS Integers, Sequences, SequencesExt, Workspaces

CONSTANTS
    Users,     \* the accounts, each named by its role
    Founder,   \* the account the set-up creates
    Targets,   \* pages that the user, or a link of a page, goes to
    DevBuild   \* import.meta.env.DEV: the prototype mode is offered

ASSUME SessionAssumption ==
    /\ Users \subseteq DOMAIN RolePermissions
    /\ NoUser \notin Users /\ Founder \in Users
    /\ DevBuild \in BOOLEAN

VARIABLES
    authState, authUser,       \* the state of App
    boot,                      \* the call that the state "checking" waits for
    setupReady,                \* the set-up page may submit
    submitted,                 \* the account whose login is in flight
    noticed,                   \* the sign-in page displays an error
    stored, csrf, cookie,      \* what the browser keeps
    protoFlag,                 \* prototype mode in sessionStorage
    initialized, version,      \* the backend: set up; auth_version of each account
    logouts,                   \* tokens of the logout calls in flight
    requests,                  \* tokens of the pages' requests in flight
    active, workspace, storedWorkspace, bootstrapped,
    confirmed                  \* history: account the backend confirmed since the page was loaded

browser == <<stored, csrf, cookie, protoFlag>>
backend == <<initialized, version>>
app == <<authState, authUser, boot, setupReady, submitted, noticed, confirmed>>
navigation == <<active, workspace, storedWorkspace, bootstrapped>>
session == <<app, browser, backend, logouts, requests, navigation>>

AuthStates == {"checking", "unavailable", "setup", "login", "authenticated", "prototype"}

NoToken == [user |-> NoUser, version |-> 0]
Tokens == {NoToken} \cup [user : Users, version : Nat]

HasAuthSession == stored # NoUser \/ csrf

\* The backend takes the token for the account's current one.
Valid(token) ==
    initialized /\ token.user \in Users /\ version[token.user] = token.version

\* A request carries the session cookie; without the CSRF header it is refused.
SentToken == IF csrf THEN cookie ELSE NoToken

SessionInit ==
    /\ initialized \in BOOLEAN
    /\ version = [u \in Users |-> 1]
    /\ protoFlag \in (IF DevBuild THEN BOOLEAN ELSE {FALSE})
    /\ stored \in (IF protoFlag THEN {NoUser} ELSE Users \cup {NoUser})
    /\ cookie \in {NoToken} \cup
          (IF initialized THEN [user : Users, version : {0, 1}] ELSE {})
    /\ csrf \in (IF cookie = NoToken THEN {FALSE} ELSE BOOLEAN)
    /\ authState = (IF protoFlag THEN "prototype" ELSE "checking")
    /\ boot = (IF protoFlag THEN "none" ELSE "status")
    /\ authUser = stored
    /\ setupReady = FALSE /\ submitted = NoUser /\ noticed = FALSE /\ confirmed = NoUser
    /\ logouts = <<>> /\ requests = {}
    /\ active = "digitalEmployees"
    /\ storedWorkspace \in {NoWorkspace} \cup WorkspaceIds
    /\ workspace = (IF storedWorkspace = NoWorkspace THEN "user" ELSE storedWorkspace)
    /\ bootstrapped = FALSE

SessionTypeOK ==
    /\ authState \in AuthStates
    /\ {authUser, submitted, stored, confirmed} \subseteq Users \cup {NoUser}
    /\ boot \in {"none", "status", "refresh"}
    /\ {setupReady, noticed, csrf, protoFlag, initialized, bootstrapped} \subseteq BOOLEAN
    /\ cookie \in Tokens
    /\ version \in [Users -> Nat]
    /\ requests \subseteq Tokens
    /\ logouts \in Seq(Tokens)
    /\ active \in PageIds \cup Targets
    /\ workspace \in WorkspaceIds
    /\ storedWorkspace \in {NoWorkspace, workspace}

SignedIn == authState \in {"authenticated", "prototype"}
IsPrototype == authState = "prototype"

-----------------------------------------------------------------------------
(* What several handlers do. *)

Enter(state) == authState' = state /\ boot' = "none"

\* Variant: the readable cookie is left in the browser.
ClearAuthToken_KeepsCsrf == stored' = NoUser /\ UNCHANGED <<csrf, cookie>>

\* The scripts cannot reach the session cookie.
ClearAuthToken == stored' = NoUser /\ csrf' = FALSE /\ UNCHANGED cookie

\* The answer sets both cookies, the page keeps a display copy of the user.
SaveSession(u) ==
    /\ stored' = u /\ csrf' = TRUE
    /\ cookie' = [user |-> u, version |-> version[u]]
    /\ confirmed' = u

SessionExpired ==
    /\ ClearAuthToken /\ protoFlag' = FALSE
    /\ Enter("login") /\ authUser' = NoUser /\ noticed' = TRUE
    /\ UNCHANGED <<setupReady, submitted, confirmed, backend, navigation>>

FinishLogout ==
    /\ stored' = NoUser /\ csrf' = FALSE /\ protoFlag' = FALSE
    /\ Enter("login") /\ authUser' = NoUser
    /\ bootstrapped' = FALSE
    /\ UNCHANGED <<setupReady, submitted, confirmed, initialized, requests,
                   active, workspace, storedWorkspace>>

-----------------------------------------------------------------------------
(* The start of the console. *)

\* The page is loaded again.  What was in flight is dropped; a login or a
\* logout may still have reached the backend.
Reload ==
    /\ authState' = (IF protoFlag THEN "prototype" ELSE "checking")
    /\ boot' = (IF protoFlag THEN "none" ELSE "status")
    /\ authUser' = stored
    /\ submitted' = NoUser /\ noticed' = FALSE /\ setupReady' = FALSE /\ confirmed' = NoUser
    /\ active' = "digitalEmployees" /\ bootstrapped' = FALSE
    /\ logouts' = <<>> /\ requests' = {}
    /\ \/ UNCHANGED <<csrf, cookie, version, initialized>>
       \/ /\ submitted # NoUser
          /\ initialized' = TRUE /\ csrf' = TRUE
          /\ cookie' = [user |-> submitted, version |-> version[submitted]]
          /\ UNCHANGED version
       \/ \E i \in DOMAIN logouts :
             /\ Valid(logouts[i])
             /\ version' = [version EXCEPT ![logouts[i].user] = @ + 1]
             /\ UNCHANGED <<csrf, cookie, initialized>>
    /\ UNCHANGED <<stored, protoFlag, workspace, storedWorkspace>>

\* Variant: the cached user is taken for signed in.
StatusFails_TrustsCache ==
    /\ boot = "status"
    /\ Enter(IF HasAuthSession THEN "authenticated" ELSE "unavailable")
    /\ UNCHANGED <<authUser, setupReady, submitted, noticed, confirmed, browser, backend,
                   logouts, requests, navigation>>

StatusFails ==
    /\ boot = "status"
    /\ Enter("unavailable")
    /\ UNCHANGED <<authUser, setupReady, submitted, noticed, confirmed, browser, backend,
                   logouts, requests, navigation>>

\* Either the deployment is not set up, or its database cannot tell.
StatusAsksSetup ==
    /\ boot = "status"
    /\ setupReady' \in {~initialized, FALSE}
    /\ ClearAuthToken /\ authUser' = NoUser
    /\ noticed' = ~setupReady'
    /\ Enter("setup")
    /\ UNCHANGED <<submitted, confirmed, protoFlag, backend, logouts, requests, navigation>>

StatusAnswers ==
    /\ boot = "status" /\ initialized
    /\ IF HasAuthSession
       THEN boot' = "refresh" /\ UNCHANGED authState
       ELSE Enter("login")
    /\ noticed' = FALSE
    /\ UNCHANGED <<authUser, setupReady, submitted, confirmed, browser, backend,
                   logouts, requests, navigation>>

\* Variant: the user on display stays the one that was cached.
RefreshAnswers_KeepsCached ==
    /\ boot = "refresh" /\ Valid(SentToken)
    /\ SaveSession(cookie.user)
    /\ authUser' = (IF authUser = NoUser THEN cookie.user ELSE authUser)
    /\ Enter("authenticated")
    /\ UNCHANGED <<setupReady, submitted, noticed, protoFlag, backend,
                   logouts, requests, navigation>>

RefreshAnswers ==
    /\ boot = "refresh" /\ Valid(SentToken)
    /\ SaveSession(cookie.user) /\ authUser' = cookie.user
    /\ Enter("authenticated")
    /\ UNCHANGED <<setupReady, submitted, noticed, protoFlag, backend,
                   logouts, requests, navigation>>

\* The session is refused, or the call fails.
RefreshFails ==
    /\ boot = "refresh"
    /\ ClearAuthToken /\ authUser' = NoUser
    /\ protoFlag' \in {protoFlag, FALSE}
    /\ Enter("login") /\ noticed' = TRUE
    /\ UNCHANGED <<setupReady, submitted, confirmed, backend, logouts, requests, navigation>>

Retry ==
    /\ authState = "unavailable"
    /\ authState' = "checking" /\ boot' = "status"
    /\ UNCHANGED <<authUser, setupReady, submitted, noticed, confirmed, browser, backend,
                   logouts, requests, navigation>>

-----------------------------------------------------------------------------
(* Signing in and out. *)

SubmitLogin(u) ==
    /\ authState = "login" /\ submitted = NoUser
    /\ submitted' = u /\ noticed' = FALSE
    /\ UNCHANGED <<authState, authUser, boot, setupReady, confirmed, browser, backend,
                   logouts, requests, navigation>>

SubmitSetup ==
    /\ authState = "setup" /\ setupReady /\ submitted = NoUser
    /\ submitted' = Founder /\ noticed' = FALSE
    /\ UNCHANGED <<authState, authUser, boot, setupReady, confirmed, browser, backend,
                   logouts, requests, navigation>>

LoginAnswers ==
    /\ submitted # NoUser /\ initialized = (authState = "login")
    /\ initialized' = TRUE
    /\ SaveSession(submitted) /\ authUser' = submitted
    /\ Enter("authenticated") /\ bootstrapped' = FALSE
    /\ protoFlag' = FALSE /\ submitted' = NoUser /\ noticed' = FALSE
    /\ UNCHANGED <<setupReady, version, logouts, requests, active, workspace, storedWorkspace>>

LoginFails ==
    /\ submitted # NoUser
    /\ submitted' = NoUser /\ noticed' = TRUE
    /\ UNCHANGED <<authState, authUser, boot, setupReady, confirmed, browser, backend,
                   logouts, requests, navigation>>

\* The notice of an error offers the prototype mode in a development build.
UsePrototypeMode ==
    /\ DevBuild /\ authState \in {"login", "setup"} /\ noticed
    /\ protoFlag' = TRUE /\ Enter("prototype")
    /\ authUser' = NoUser /\ bootstrapped' = FALSE /\ noticed' = FALSE
    /\ UNCHANGED <<setupReady, submitted, confirmed, stored, csrf, cookie, backend,
                   logouts, requests, active, workspace, storedWorkspace>>

Logout ==
    /\ SignedIn
    /\ IF HasAuthSession
       THEN /\ logouts' = Append(logouts, SentToken)
            /\ UNCHANGED <<app, browser, backend, requests, navigation>>
       ELSE FinishLogout /\ UNCHANGED <<noticed, cookie, version, logouts>>

\* Logging out ends every session of the account; the answer deletes the
\* cookies the browser holds when it arrives.
LogoutAnswers(i) ==
    /\ Valid(logouts[i])
    /\ version' = [version EXCEPT ![logouts[i].user] = @ + 1]
    /\ cookie' = NoToken
    /\ FinishLogout
    /\ logouts' = RemoveAt(logouts, i)
    /\ UNCHANGED noticed

\* Variant: the tab is signed out only when the backend agreed.
LogoutFails_StaysIn(i) ==
    /\ logouts' = RemoveAt(logouts, i)
    /\ UNCHANGED <<app, browser, backend, requests, navigation>>

\* The call is refused, fails, or its answer is lost: the tab is signed out.
LogoutFails(i) ==
    /\ \/ UNCHANGED version
       \/ /\ Valid(logouts[i])
          /\ version' = [version EXCEPT ![logouts[i].user] = @ + 1]
    /\ FinishLogout
    /\ noticed' \in {noticed, noticed \/ csrf}
    /\ logouts' = RemoveAt(logouts, i)
    /\ UNCHANGED cookie

-----------------------------------------------------------------------------
(* The session ends in the backend or in the browser. *)

Revoke(u) ==
    /\ version' = [version EXCEPT ![u] = @ + 1]
    /\ UNCHANGED <<app, browser, initialized, logouts, requests, navigation>>

\* Both cookies have the same Max-Age.
CookiesExpire ==
    /\ cookie # NoToken
    /\ cookie' = NoToken /\ csrf' = FALSE
    /\ UNCHANGED <<app, stored, protoFlag, backend, logouts, requests, navigation>>

PageCalls ==
    /\ SignedIn
    /\ requests' = requests \cup {SentToken}
    /\ UNCHANGED <<app, browser, backend, logouts, navigation>>

\* A refusal ends the session the tab has now, whichever the request was
\* sent for, unless the CSRF cookie has gone before.
PageAnswers(t) ==
    /\ requests' = requests \ {t}
    /\ IF ~Valid(t) /\ csrf THEN SessionExpired
       ELSE UNCHANGED <<app, browser, backend, navigation>>
    /\ UNCHANGED logouts

-----------------------------------------------------------------------------
(* Navigation. *)

Shows(page, space) == Displayable(page, space, authUser, IsPrototype)

CanRenderActivePage == Shows(active, workspace)

\* What the content area displays.
Content ==
    CASE authState = "authenticated" /\ VisibleNavItems[workspace][authUser][FALSE] = {} -> "no access"
      [] authState = "authenticated" /\ ~CanRenderActivePage -> "loading"
      [] SignedIn -> active
      [] OTHER -> authState

Go(page, space) ==
    /\ active' = page
    /\ workspace' = space
    /\ UNCHANGED <<app, browser, backend, logouts, requests, bootstrapped>>

\* The entries of the side bar.
NavigateTo(page) ==
    /\ SignedIn /\ Shows(page, workspace)
    /\ Go(page, workspace)
    /\ UNCHANGED storedWorkspace

\* Variant: another workspace is entered but not remembered.
NavigateToPage_Forgets(page) ==
    /\ SignedIn /\ Content = active
    /\ LET resolved == ResolveChatNavigationPage(page, authUser, IsPrototype)
       IN Go(resolved, WorkspaceForPage(resolved, workspace, authUser, IsPrototype))
    /\ UNCHANGED storedWorkspace

\* The links of the pages.
NavigateToPage(page) ==
    /\ SignedIn /\ Content = active
    /\ LET resolved == ResolveChatNavigationPage(page, authUser, IsPrototype)
           space == WorkspaceForPage(resolved, workspace, authUser, IsPrototype)
       IN /\ Go(resolved, space)
          /\ storedWorkspace' = (IF space # workspace THEN space ELSE storedWorkspace)

SwitchWorkspace(space) ==
    /\ SignedIn
    /\ AccessibleWorkspaceIds(authUser, IsPrototype) = WorkspaceIds
    /\ Go(IF Shows(active, space) THEN active
          ELSE FirstVisiblePage(space, authUser, IsPrototype), space)
    /\ storedWorkspace' = space

\* Variant: where the page cannot be displayed nothing takes its place.
Fallback_None == active

\* The page that takes the place of one that cannot be displayed.
Fallback ==
    LET resolved == ResolveChatNavigationPage(active, authUser, IsPrototype)
    IN CASE CanRenderActivePage -> active
         [] resolved # active -> resolved
         [] OTHER -> FirstVisiblePage(workspace, authUser, IsPrototype)

\* The three navigation effects of App run after a render, all with the state
\* of that render; what a later one sets replaces what an earlier one set.
RunEffects ==
    LET preferred == PreferredWorkspace(storedWorkspace, authUser, IsPrototype)
        first == ~bootstrapped /\ preferred # NoWorkspace
        accessible == AccessibleWorkspaceIds(authUser, IsPrototype)
    IN /\ SignedIn
       /\ bootstrapped' = TRUE
       /\ active' = (CASE Fallback # active -> Fallback
                       [] first -> FirstVisiblePage(preferred, authUser, IsPrototype)
                       [] OTHER -> active)
       /\ workspace' =
             (CASE VisibleNavItems[workspace][authUser][IsPrototype] = {} /\ accessible # {}
                     -> FirstWorkspace(accessible)
                [] first -> preferred
                [] OTHER -> workspace)
       /\ storedWorkspace' = (IF first \/ workspace' # workspace THEN workspace' ELSE storedWorkspace)
       /\ navigation' # navigation
       /\ UNCHANGED <<app, browser, backend, logouts, requests>>

-----------------------------------------------------------------------------
SessionCommand ==
    \/ \E u \in Users : SubmitLogin(u)
    \/ SubmitSetup \/ UsePrototypeMode \/ Logout \/ Reload \/ Retry

BootAnswer ==
    StatusFails \/ StatusAsksSetup \/ StatusAnswers \/ RefreshAnswers \/ RefreshFails

LoginAnswer == LoginAnswers \/ LoginFails

LogoutAnswer == \E i \in DOMAIN logouts : LogoutAnswers(i) \/ LogoutFails(i)

Answer == BootAnswer \/ LoginAnswer \/ LogoutAnswer

EndOfSession == CookiesExpire \/ \E u \in Users : Revoke(u)

RequestAnswer == \E t \in requests : PageAnswers(t)

Navigate ==
    \/ \E page \in Targets : NavigateTo(page) \/ NavigateToPage(page)
    \/ \E space \in WorkspaceIds : SwitchWorkspace(space)

SessionNext ==
    \/ SessionCommand \/ Navigate \/ PageCalls \/ EndOfSession
    \/ Answer \/ RequestAnswer \/ RunEffects

SessionSpec == SessionInit /\ [][SessionNext]_session

\* Every call is given up after 30 seconds, and React runs the effects of a render.
SessionFairness ==
    /\ WF_session(BootAnswer) /\ WF_session(LoginAnswer) /\ WF_session(LogoutAnswer)
    /\ WF_session(RunEffects)

-----------------------------------------------------------------------------
\* What the browser has cached is no proof of a session: whoever is displayed
\* as signed in was confirmed by the backend since the page was loaded.
FailClosed ==
    authState = "authenticated" => authUser # NoUser /\ authUser = confirmed

\* Where the console asks to sign in, a reload cannot bring the session back,
\* even if the backend never heard of the logout and still takes the token.
SignedOutHoldsNothing ==
    authState \in {"login", "setup"} => ~HasAuthSession

\* The user on display is the one in whose name the pages send their requests,
\* though logouts, refusals and answers of earlier sessions arrive late.
ShownUserIsSessionUser ==
    authState = "authenticated" =>
        /\ stored = authUser
        /\ cookie # NoToken => cookie.user = authUser

\* The start of the console ends, and who asks to be signed out is signed out
\* whatever becomes of the call.
SessionAnswers ==
    /\ boot # "none" ~> boot = "none"
    /\ logouts # <<>> ~> authState # "authenticated"

\* The navigation comes to rest: on a page the user may see, or on the notice
\* that there is none.
NavigationSettles ==
    /\ Content = "loading" ~> Content # "loading"
    /\ Content = "no access" ~>
          \/ Content # "no access"
          \/ AccessibleWorkspaceIds(authUser, IsPrototype) = {}
=============================================================================
