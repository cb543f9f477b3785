--------------------------- MODULE Console_proofs ---------------------------
(***************************************************************************)
(* Proofs about the session of the console, about the panel of documents,   *)
(* about the chat page and the board of media jobs, and about the console   *)
(* that is made of them: it runs the session by the session's rules alone,  *)
(* its pages keep their promises also when they are left and entered again  *)
(* while calls are in flight, and its state is always well-typed.           *)
(***************************************************************************)
EXTENDS Console, SequenceTheorems, WellFoundedInduction, TLAPS

-----------------------------------------------------------------------------
(***************************************************************************)
(* The session, for every set of accounts, however often they sign in and   *)
(* out and whatever is in flight.  Its three safety properties together are *)
(* inductive: each way into a state of App leaves the browser's copy of the *)
(* session as that state needs it.                                          *)
(***************************************************************************)

\* Which state the console is in and what the browser holds belong together.
SessionInv == FailClosed /\ SignedOutHoldsNothing /\ ShownUserIsSessionUser

\* A tab starts in no state that promises anything.
LEMMA SessionStarts == SessionInit => SessionInv
  BY DEF SessionInit, SessionInv, FailClosed, SignedOutHoldsNothing, ShownUserIsSessionUser

\* A backend that accepts a request knows the account of the cookie.
LEMMA AcceptedTokenHasUser ==
    ASSUME Valid(SentToken)
    PROVE  cookie.user \in Users /\ cookie.user # NoUser
  <1>1. SentToken.user \in Users
    BY DEF Valid
  <1>2. NoToken.user \notin Users
    BY SessionAssumption DEF NoToken
  <1>3. SentToken = cookie
    BY <1>1, <1>2 DEF SentToken
  <1> QED
    BY <1>1, <1>3, SessionAssumption

\* Whoever is signed out holds nothing afterwards.
LEMMA ClearedSession ==
    ASSUME authState' \notin {"authenticated"}, stored' = NoUser, csrf' = FALSE
    PROVE  SessionInv'
  BY DEF SessionInv, FailClosed, SignedOutHoldsNothing, ShownUserIsSessionUser, HasAuthSession

\* Whoever is signed in is the account the answer named.
LEMMA SavedSession ==
    ASSUME NEW u, u # NoUser, SaveSession(u), authUser' = u, authState' = "authenticated"
    PROVE  SessionInv'
  BY DEF SaveSession, SessionInv, FailClosed, SignedOutHoldsNothing, ShownUserIsSessionUser

\* Nothing is promised while the state is unknown or a prototype.
LEMMA UncommittedState ==
    ASSUME authState' \notin {"authenticated", "login", "setup"}
    PROVE  SessionInv'
  BY DEF SessionInv, FailClosed, SignedOutHoldsNothing, ShownUserIsSessionUser

\* A step that leaves the state, the user and what the browser holds alone.
LEMMA UntouchedSession ==
    ASSUME SessionInv, UNCHANGED <<authState, authUser, confirmed, stored, csrf, cookie>>
    PROVE  SessionInv'
  BY DEF SessionInv, FailClosed, SignedOutHoldsNothing, ShownUserIsSessionUser, HasAuthSession

-----------------------------------------------------------------------------
LEMMA CommandKeepsSession ==
    ASSUME SessionInv, SessionCommand
    PROVE  SessionInv'
  <1>1. ASSUME NEW u \in Users, SubmitLogin(u) PROVE SessionInv'
    BY <1>1, UntouchedSession DEF SubmitLogin, browser
  <1>2. CASE SubmitSetup
    BY <1>2, UntouchedSession DEF SubmitSetup, browser
  <1>3. CASE UsePrototypeMode
    BY <1>3, UncommittedState DEF UsePrototypeMode, Enter
  <1>4. CASE Logout
    <2>1. CASE HasAuthSession
      BY <1>4, <2>1, UntouchedSession DEF Logout, app, browser
    <2>2. CASE ~HasAuthSession
      BY <1>4, <2>2, ClearedSession DEF Logout, FinishLogout, Enter
    <2> QED BY <2>1, <2>2
  <1>5. CASE Reload
    BY <1>5, UncommittedState DEF Reload
  <1>6. CASE Retry
    BY <1>6, UncommittedState DEF Retry
  <1> QED
    BY <1>1, <1>2, <1>3, <1>4, <1>5, <1>6 DEF SessionCommand

LEMMA BootKeepsSession ==
    ASSUME SessionInv, BootAnswer
    PROVE  SessionInv'
  <1>1. CASE StatusFails
    BY <1>1, UncommittedState DEF StatusFails, Enter
  <1>2. CASE StatusAsksSetup
    BY <1>2, ClearedSession DEF StatusAsksSetup, Enter, ClearAuthToken
  <1>3. CASE StatusAnswers
    <2>1. CASE HasAuthSession
      BY <1>3, <2>1, UntouchedSession DEF StatusAnswers, browser
    <2>2. CASE ~HasAuthSession
      <3>1. authState' = "login" /\ UNCHANGED <<stored, csrf>>
        BY <1>3, <2>2 DEF StatusAnswers, Enter, browser
      <3> QED
        BY <2>2, <3>1 DEF HasAuthSession, SessionInv, FailClosed, SignedOutHoldsNothing,
                          ShownUserIsSessionUser
    <2> QED BY <2>1, <2>2
  <1>4. CASE RefreshAnswers
    BY <1>4, AcceptedTokenHasUser, SavedSession DEF RefreshAnswers, Enter
  <1>5. CASE RefreshFails
    BY <1>5, ClearedSession DEF RefreshFails, Enter, ClearAuthToken
  <1> QED
    BY <1>1, <1>2, <1>3, <1>4, <1>5 DEF BootAnswer

LEMMA SigningKeepsSession ==
    ASSUME SessionInv, LoginAnswer \/ LogoutAnswer
    PROVE  SessionInv'
  <1>1. CASE LoginAnswers
    BY <1>1, SavedSession DEF LoginAnswers, Enter
  <1>2. CASE LoginFails
    BY <1>2, UntouchedSession DEF LoginFails, browser
  <1>3. ASSUME NEW i \in DOMAIN logouts, LogoutAnswers(i) PROVE SessionInv'
    BY <1>3, ClearedSession DEF LogoutAnswers, FinishLogout, Enter
  <1>4. ASSUME NEW i \in DOMAIN logouts, LogoutFails(i) PROVE SessionInv'
    BY <1>4, ClearedSession DEF LogoutFails, FinishLogout, Enter
  <1> QED
    BY <1>1, <1>2, <1>3, <1>4 DEF LoginAnswer, LogoutAnswer

\* The session ends elsewhere, or a page is told that it has.
LEMMA TrafficKeepsSession ==
    ASSUME SessionInv, EndOfSession \/ PageCalls \/ RequestAnswer
    PROVE  SessionInv'
  <1>1. CASE CookiesExpire
    BY <1>1 DEF CookiesExpire, app, SessionInv, FailClosed, SignedOutHoldsNothing,
                ShownUserIsSessionUser, HasAuthSession
  <1>2. ASSUME NEW u \in Users, Revoke(u) PROVE SessionInv'
    BY <1>2, UntouchedSession DEF Revoke, app, browser
  <1>3. CASE PageCalls
    BY <1>3, UntouchedSession DEF PageCalls, app, browser
  <1>4. ASSUME NEW t \in requests, PageAnswers(t) PROVE SessionInv'
    <2>1. CASE ~Valid(t) /\ csrf
      BY <1>4, <2>1, ClearedSession DEF PageAnswers, SessionExpired, Enter, ClearAuthToken
    <2>2. CASE ~(~Valid(t) /\ csrf)
      BY <1>4, <2>2, UntouchedSession DEF PageAnswers, app, browser
    <2> QED BY <2>1, <2>2
  <1> QED
    BY <1>1, <1>2, <1>3, <1>4 DEF EndOfSession, RequestAnswer

\* Navigation touches neither the session nor the browser's copy of it.
LEMMA NavigationKeepsSession ==
    ASSUME SessionInv, Navigate \/ RunEffects
    PROVE  SessionInv'
  <1>1. ASSUME NEW page \in Targets, NavigateTo(page) PROVE SessionInv'
    BY <1>1, UntouchedSession DEF NavigateTo, Go, app, browser
  <1>2. ASSUME NEW page \in Targets, NavigateToPage(page) PROVE SessionInv'
    BY <1>2, UntouchedSession DEF NavigateToPage, Go, app, browser
  <1>3. ASSUME NEW space \in WorkspaceIds, SwitchWorkspace(space) PROVE SessionInv'
    BY <1>3, UntouchedSession DEF SwitchWorkspace, Go, app, browser
  <1>4. CASE RunEffects
    BY <1>4, UntouchedSession DEF RunEffects, app, browser
  <1> QED
    BY <1>1, <1>2, <1>3, <1>4 DEF Navigate

LEMMA StepKeepsSession == SessionInv /\ [SessionNext]_session => SessionInv'
  <1> SUFFICES ASSUME SessionInv, [SessionNext]_session PROVE SessionInv'
    OBVIOUS
  <1>1. CASE UNCHANGED session
    BY <1>1, UntouchedSession DEF session, app, browser
  <1>2. CASE SessionNext
    BY <1>2, CommandKeepsSession, BootKeepsSession, SigningKeepsSession, TrafficKeepsSession,
       NavigationKeepsSession DEF SessionNext, Answer
  <1> QED BY <1>1, <1>2

\* The console fails closed: nobody is displayed as signed in whom the backend
\* has not confirmed since the page was loaded (initialize of App.tsx).
THEOREM SessionFailsClosed == SessionSpec => []FailClosed
  <1>1. SessionInv => FailClosed
    BY DEF SessionInv
  <1> QED
    BY <1>1, SessionStarts, StepKeepsSession, PTL DEF SessionSpec

\* A tab that asks to sign in holds no copy of a session (clearAuthToken and
\* handleLogout): a reload does not bring it back.
THEOREM SignedOutTabHoldsNothing == SessionSpec => []SignedOutHoldsNothing
  <1>1. SessionInv => SignedOutHoldsNothing
    BY DEF SessionInv
  <1> QED
    BY <1>1, SessionStarts, StepKeepsSession, PTL DEF SessionSpec

\* The user on display is the user of the session cookie (saveAuthToken).
THEOREM ShownUserOwnsCookie == SessionSpec => []ShownUserIsSessionUser
  <1>1. SessionInv => ShownUserIsSessionUser
    BY DEF SessionInv
  <1> QED
    BY <1>1, SessionStarts, StepKeepsSession, PTL DEF SessionSpec

-----------------------------------------------------------------------------
(***************************************************************************)
(* The types of the session.  The page and the workspace that are displayed *)
(* exist, whatever the user may see, and the workspace that is remembered   *)
(* for the next visit is the one on display.                                *)
(***************************************************************************)

Persons == DOMAIN RolePermissions \cup {NoUser}

LEMMA LandingPageExists == \A space \in WorkspaceIds : LandingPage[space] \in PageIds
  <1>1. DOMAIN NavItems = 1..15
    BY DEF NavItems
  <1>2. NavItems[1].id = "digitalEmployees" /\ NavItems[5].id = "overview"
    BY DEF NavItems, Entry
  <1> QED
    BY <1>1, <1>2 DEF PageIds, Range, LandingPage, WorkspaceIds

\* A side bar that has entries has a first one.
LEMMA FirstEntry ==
    ASSUME NEW visible \in SUBSET DOMAIN NavItems, visible # {}
    PROVE  Min(visible) \in visible
  <1>1. visible \subseteq Nat
    BY DEF NavItems
  <1>2. PICK i \in visible : \A j \in visible : ~(<<j, i>> \in OpToRel(<, Nat))
    BY <1>1, WFMin, NatLessThanWellFounded
  <1>3. \A j \in visible : i <= j
    <2>1. ASSUME NEW j \in visible, j < i PROVE <<j, i>> \in OpToRel(<, Nat)
      BY <1>1, <2>1 DEF OpToRel
    <2>2. \A j \in visible : ~(j < i)
      BY <1>2, <2>1, Zenon
    <2> QED BY <1>1, <2>2
  <1> QED
    BY <1>3 DEF Min

LEMMA FirstVisiblePageExists ==
    ASSUME NEW space \in WorkspaceIds, NEW user \in Persons, NEW proto \in BOOLEAN
    PROVE  FirstVisiblePage(space, user, proto) \in PageIds
  <1> DEFINE visible == VisibleNavItems[space][user][proto]
  <1>1. visible \in SUBSET DOMAIN NavItems
    BY DEF VisibleNavItems, Persons
  <1>2. visible # {} => NavItems[Min(visible)].id \in PageIds
    BY <1>1, FirstEntry DEF PageIds, Range
  <1> QED
    BY <1>2, LandingPageExists DEF FirstVisiblePage

LEMMA ResolvedPageExists ==
    ASSUME NEW page \in PageIds \cup Targets, NEW user, NEW proto
    PROVE  ResolveChatNavigationPage(page, user, proto) \in PageIds \cup Targets
  <1>1. "digitalEmployees" \in PageIds
    BY LandingPageExists DEF LandingPage, WorkspaceIds
  <1> QED
    BY <1>1 DEF ResolveChatNavigationPage

LEMMA WorkspaceExists ==
    /\ \A spaces : FirstWorkspace(spaces) \in WorkspaceIds
    /\ \A page, user, proto : \A current \in WorkspaceIds :
          WorkspaceForPage(page, current, user, proto) \in WorkspaceIds
    /\ \A stored_, user, proto :
          PreferredWorkspace(stored_, user, proto) \in WorkspaceIds \cup {NoWorkspace}
  BY DEF FirstWorkspace, WorkspaceIds, WorkspaceForPage, PreferredWorkspace,
         AccessibleWorkspaceIds

LEMMA RemoveKeepsType ==
    ASSUME NEW S, NEW s \in Seq(S), NEW i \in DOMAIN s
    PROVE  RemoveAt(s, i) \in Seq(S)
  <1>1. i \in Int /\ Len(s) \in Int /\ i >= 1 /\ i <= Len(s)
    OBVIOUS
  <1>2. SubSeq(s, 1, i - 1) \in Seq(S)
    <2>1. \A j \in 1 .. i - 1 : s[j] \in S
      BY <1>1
    <2> QED BY <1>1, <2>1, SubSeqProperties
  <1>3. SubSeq(s, i + 1, Len(s)) \in Seq(S)
    <2>1. \A j \in i + 1 .. Len(s) : s[j] \in S
      BY <1>1
    <2> QED BY <1>1, <2>1, SubSeqProperties
  <1> QED
    BY <1>2, <1>3, ConcatProperties DEF RemoveAt

\* Of SessionTypeOK, what is about the session and what is about the place on display.
AccountTypeOK ==
    /\ authState \in AuthStates /\ boot \in {"none", "status", "refresh"}
    /\ authUser \in Users \cup {NoUser} /\ submitted \in Users \cup {NoUser}
    /\ stored \in Users \cup {NoUser} /\ confirmed \in Users \cup {NoUser}
    /\ setupReady \in BOOLEAN /\ noticed \in BOOLEAN /\ csrf \in BOOLEAN
    /\ protoFlag \in BOOLEAN /\ initialized \in BOOLEAN
    /\ cookie \in Tokens /\ version \in [Users -> Nat]
    /\ requests \subseteq Tokens /\ logouts \in Seq(Tokens)

PlaceTypeOK ==
    /\ bootstrapped \in BOOLEAN
    /\ active \in PageIds \cup Targets
    /\ workspace \in WorkspaceIds
    /\ storedWorkspace \in {NoWorkspace, workspace}

LEMMA SessionTypeByParts == SessionTypeOK <=> AccountTypeOK /\ PlaceTypeOK
  BY DEF SessionTypeOK, AccountTypeOK, PlaceTypeOK

LEMMA SessionTypeByPartsNext == (SessionTypeOK <=> AccountTypeOK /\ PlaceTypeOK)'
  BY SessionTypeByParts, PTL

LEMMA SessionTypesStart == SessionInit => SessionTypeOK
  <1> SUFFICES ASSUME SessionInit PROVE AccountTypeOK /\ PlaceTypeOK
    BY SessionTypeByParts
  <1>1. "digitalEmployees" \in PageIds
    BY LandingPageExists DEF LandingPage, WorkspaceIds
  <1>2. PlaceTypeOK
    BY <1>1 DEF SessionInit, PlaceTypeOK, WorkspaceIds
  <1>3. AccountTypeOK
    <2>1. cookie \in Tokens
      BY DEF SessionInit, Tokens
    <2>2. logouts \in Seq(Tokens) /\ requests \subseteq Tokens
      BY EmptySeq DEF SessionInit
    <2>3. version \in [Users -> Nat]
      BY DEF SessionInit
    <2> QED
      BY <2>1, <2>2, <2>3 DEF SessionInit, AccountTypeOK, AuthStates
  <1> QED BY <1>2, <1>3

LEMMA NoTokenIsToken == NoToken \in Tokens
  BY DEF Tokens

LEMMA SentTokenIsToken == AccountTypeOK => SentToken \in Tokens
  BY DEF AccountTypeOK, SentToken, Tokens

LEMMA SavedIsToken ==
    ASSUME AccountTypeOK, NEW u \in Users
    PROVE  [user |-> u, version |-> version[u]] \in Tokens
  BY DEF AccountTypeOK, Tokens

LEMMA NextVersion ==
    ASSUME AccountTypeOK, NEW u \in Users
    PROVE  [version EXCEPT ![u] = @ + 1] \in [Users -> Nat]
  BY DEF AccountTypeOK

LEMMA CommandKeepsTypes ==
    ASSUME AccountTypeOK, PlaceTypeOK, SessionCommand
    PROVE  AccountTypeOK' /\ PlaceTypeOK'
  <1> USE DEF browser, backend, app, navigation, AccountTypeOK, AuthStates
  <1>1. ASSUME NEW u \in Users, SubmitLogin(u) PROVE AccountTypeOK' /\ PlaceTypeOK'
    BY <1>1 DEF SubmitLogin, PlaceTypeOK
  <1>2. CASE SubmitSetup
    BY <1>2, SessionAssumption DEF SubmitSetup, PlaceTypeOK
  <1>3. CASE UsePrototypeMode
    BY <1>3 DEF UsePrototypeMode, Enter, PlaceTypeOK
  <1>4. CASE Logout
    <2>1. CASE HasAuthSession
      <3>1. logouts' \in Seq(Tokens)
        BY <1>4, <2>1, SentTokenIsToken, AppendProperties DEF Logout
      <3> QED
        BY <1>4, <2>1, <3>1 DEF Logout, PlaceTypeOK
    <2>2. CASE ~HasAuthSession
      BY <1>4, <2>2 DEF Logout, FinishLogout, Enter, PlaceTypeOK
    <2> QED BY <2>1, <2>2
  <1>5. CASE Reload
    <2>1. /\ UNCHANGED <<stored, protoFlag, workspace, storedWorkspace>>
          /\ authState' \in AuthStates /\ boot' \in {"none", "status"} /\ authUser' = stored
          /\ submitted' = NoUser /\ confirmed' = NoUser /\ noticed' = FALSE /\ setupReady' = FALSE
          /\ active' = "digitalEmployees" /\ bootstrapped' = FALSE
          /\ logouts' = <<>> /\ requests' = {}
      BY <1>5 DEF Reload
    <2>2. /\ csrf' \in BOOLEAN /\ initialized' \in BOOLEAN
          /\ cookie' \in Tokens /\ version' \in [Users -> Nat]
      BY <1>5, SavedIsToken, NextVersion DEF Reload, Valid
    <2>3. "digitalEmployees" \in PageIds
      BY LandingPageExists DEF LandingPage, WorkspaceIds
    <2>4. PlaceTypeOK'
      BY <2>1, <2>3 DEF PlaceTypeOK
    <2> QED BY <2>1, <2>2, <2>4, EmptySeq
  <1>6. CASE Retry
    BY <1>6 DEF Retry, PlaceTypeOK
  <1> QED
    BY <1>1, <1>2, <1>3, <1>4, <1>5, <1>6 DEF SessionCommand

LEMMA AnswerKeepsTypes ==
    ASSUME AccountTypeOK, PlaceTypeOK, Answer
    PROVE  AccountTypeOK' /\ PlaceTypeOK'
  <1> USE DEF browser, backend, app, navigation, AccountTypeOK, AuthStates
  <1>1. CASE StatusFails
    BY <1>1 DEF StatusFails, Enter, PlaceTypeOK
  <1>2. CASE StatusAsksSetup
    BY <1>2 DEF StatusAsksSetup, Enter, ClearAuthToken, PlaceTypeOK
  <1>3. CASE StatusAnswers
    <2>1. authState' \in AuthStates /\ boot' \in {"none", "status", "refresh"} /\ noticed' = FALSE
      BY <1>3 DEF StatusAnswers, Enter
    <2>2. UNCHANGED <<authUser, setupReady, submitted, confirmed, browser, backend,
                      logouts, requests, navigation>>
      BY <1>3 DEF StatusAnswers
    <2> QED BY <2>1, <2>2 DEF PlaceTypeOK
  <1>4. CASE RefreshAnswers
    BY <1>4, AcceptedTokenHasUser, SavedIsToken DEF RefreshAnswers, Enter, SaveSession, PlaceTypeOK
  <1>5. CASE RefreshFails
    BY <1>5 DEF RefreshFails, Enter, ClearAuthToken, PlaceTypeOK
  <1>6. CASE LoginAnswers
    <2>1. submitted \in Users
      BY <1>6 DEF LoginAnswers
    <2> QED
      BY <1>6, <2>1, SavedIsToken DEF LoginAnswers, Enter, SaveSession, PlaceTypeOK
  <1>7. CASE LoginFails
    BY <1>7 DEF LoginFails, PlaceTypeOK
  <1>8. ASSUME NEW i \in DOMAIN logouts, LogoutAnswers(i) \/ LogoutFails(i)
        PROVE  AccountTypeOK' /\ PlaceTypeOK'
    <2>1. logouts' \in Seq(Tokens)
      BY <1>8, RemoveKeepsType DEF LogoutAnswers, LogoutFails
    <2>2. version' \in [Users -> Nat]
      BY <1>8, NextVersion DEF LogoutAnswers, LogoutFails, Valid
    <2>3. cookie' \in Tokens /\ noticed' \in BOOLEAN
      BY <1>8, NoTokenIsToken DEF LogoutAnswers, LogoutFails
    <2>4. FinishLogout
      BY <1>8 DEF LogoutAnswers, LogoutFails
    <2> QED
      BY <2>1, <2>2, <2>3, <2>4 DEF FinishLogout, Enter, PlaceTypeOK
  <1> QED
    BY <1>1, <1>2, <1>3, <1>4, <1>5, <1>6, <1>7, <1>8
       DEF Answer, BootAnswer, LoginAnswer, LogoutAnswer

LEMMA TrafficKeepsTypes ==
    ASSUME AccountTypeOK, PlaceTypeOK, EndOfSession \/ PageCalls \/ RequestAnswer
    PROVE  AccountTypeOK' /\ PlaceTypeOK'
  <1> USE DEF browser, backend, app, navigation, AccountTypeOK, AuthStates
  <1>1. CASE CookiesExpire
    <2>1. cookie' \in Tokens /\ csrf' = FALSE
      BY <1>1, NoTokenIsToken DEF CookiesExpire
    <2>2. UNCHANGED <<app, stored, protoFlag, backend, logouts, requests, navigation>>
      BY <1>1 DEF CookiesExpire
    <2>3. AccountTypeOK'
      BY <2>1, <2>2
    <2>4. PlaceTypeOK'
      BY <2>2 DEF PlaceTypeOK
    <2> QED BY <2>3, <2>4
  <1>2. ASSUME NEW u \in Users, Revoke(u) PROVE AccountTypeOK' /\ PlaceTypeOK'
    BY <1>2, NextVersion DEF Revoke, PlaceTypeOK
  <1>3. CASE PageCalls
    BY <1>3, SentTokenIsToken DEF PageCalls, PlaceTypeOK
  <1>4. ASSUME NEW t \in requests, PageAnswers(t) PROVE AccountTypeOK' /\ PlaceTypeOK'
    <2>1. CASE ~Valid(t) /\ csrf
      BY <1>4, <2>1 DEF PageAnswers, SessionExpired, Enter, ClearAuthToken, PlaceTypeOK
    <2>2. CASE ~(~Valid(t) /\ csrf)
      BY <1>4, <2>2 DEF PageAnswers, PlaceTypeOK
    <2> QED BY <2>1, <2>2
  <1> QED
    BY <1>1, <1>2, <1>3, <1>4 DEF EndOfSession, RequestAnswer

LEMMA NavigationKeepsTypes ==
    ASSUME AccountTypeOK, PlaceTypeOK, Navigate \/ RunEffects
    PROVE  AccountTypeOK' /\ PlaceTypeOK'
  <1>1. authUser \in Persons /\ IsPrototype \in BOOLEAN
    BY SessionAssumption DEF AccountTypeOK, Persons, IsPrototype
  <1>2. AccountTypeOK'
    BY DEF Navigate, NavigateTo, NavigateToPage, SwitchWorkspace, Go, RunEffects,
           browser, backend, app, AccountTypeOK
  <1>3. ASSUME NEW page \in Targets, NavigateTo(page) PROVE PlaceTypeOK'
    BY <1>3 DEF NavigateTo, Go, PlaceTypeOK
  <1>4. ASSUME NEW page \in Targets, NavigateToPage(page) PROVE PlaceTypeOK'
    BY <1>4, ResolvedPageExists, WorkspaceExists DEF NavigateToPage, Go, PlaceTypeOK
  <1>5. ASSUME NEW space \in WorkspaceIds, SwitchWorkspace(space) PROVE PlaceTypeOK'
    BY <1>1, <1>5, FirstVisiblePageExists DEF SwitchWorkspace, Go, PlaceTypeOK
  <1>6. CASE RunEffects
    <2> DEFINE preferred == PreferredWorkspace(storedWorkspace, authUser, IsPrototype)
    <2>1. Fallback \in PageIds \cup Targets
      BY <1>1, ResolvedPageExists, FirstVisiblePageExists DEF Fallback, PlaceTypeOK
    <2>2. preferred # NoWorkspace => /\ preferred \in WorkspaceIds
                                     /\ FirstVisiblePage(preferred, authUser, IsPrototype) \in PageIds
      BY <1>1, WorkspaceExists, FirstVisiblePageExists
    <2>3. active' \in PageIds \cup Targets
      BY <1>6, <2>1, <2>2 DEF RunEffects, PlaceTypeOK
    <2>4. workspace' \in WorkspaceIds
      BY <1>6, <2>2, WorkspaceExists DEF RunEffects, PlaceTypeOK
    <2>5. bootstrapped' = TRUE /\ storedWorkspace' \in {NoWorkspace, workspace'}
      BY <1>6 DEF RunEffects, PlaceTypeOK
    <2> QED BY <1>2, <2>3, <2>4, <2>5 DEF PlaceTypeOK
  <1> QED
    BY <1>2, <1>3, <1>4, <1>5, <1>6 DEF Navigate

LEMMA StepKeepsTypes == SessionTypeOK /\ [SessionNext]_session => SessionTypeOK'
  <1> SUFFICES ASSUME AccountTypeOK, PlaceTypeOK, [SessionNext]_session
               PROVE  AccountTypeOK' /\ PlaceTypeOK'
    BY SessionTypeByParts, SessionTypeByPartsNext
  <1>1. CASE UNCHANGED session
    BY <1>1 DEF session, browser, backend, app, navigation, AccountTypeOK, PlaceTypeOK
  <1>2. CASE SessionNext
    BY <1>2, CommandKeepsTypes, AnswerKeepsTypes, TrafficKeepsTypes, NavigationKeepsTypes
       DEF SessionNext
  <1> QED BY <1>1, <1>2

\* The session is well-typed, and the workspace that App remembers is the one it displays,
\* for any accounts and targets.
THEOREM SessionTypeCorrect == SessionSpec => []SessionTypeOK
  BY SessionTypesStart, StepKeepsTypes, PTL DEF SessionSpec

-----------------------------------------------------------------------------
(***************************************************************************)
(* The panel of documents, for any bases and any number of overlapping      *)
(* loads.                                                                   *)
(***************************************************************************)

\* The numbers of the loads tell the latest one from the others: no two loads
\* have the same, none is past the counter, and the one that bears it asks for
\* what was asked last.
Numbered ==
    /\ \A r \in pending :
          /\ r.id <= latest
          /\ r.id = latest => loading = TRUE /\ r.base = asked
    /\ \A r, s \in pending : r.id = s.id => r = s

IndInv == PanelTypeOK /\ LatestWins /\ Numbered

USE DEF PanelTypeOK, LatestWins, Numbered, panel

LEMMA InitHolds == PanelInit => IndInv
<1> SUFFICES ASSUME PanelInit PROVE IndInv
  OBVIOUS
<1>1. PanelTypeOK
  BY DEF PanelInit
<1>2. LatestWins
  BY DEF PanelInit
<1>3. Numbered
  BY DEF PanelInit
<1>4. QED
  BY <1>1, <1>2, <1>3 DEF IndInv

\* A load, or the change to another base, takes a number nobody has.
LEMMA LoadKeeps ==
    ASSUME IndInv, NEW n \in Nat, n > latest, NEW b \in Bases \cup {NoBase},
           LoadNumbered(n, b)
    PROVE  IndInv'
<1> USE DEF IndInv
<1>1. CASE b = NoBase
  <2>1. /\ latest' = n /\ asked' = b /\ shown' = NoBase
        /\ loading' = FALSE /\ pending' = pending
    BY <1>1 DEF LoadNumbered
  <2>2. \A r \in pending : r.id \in Nat /\ r.id # n
    OBVIOUS
  <2>3. PanelTypeOK'
    BY <2>1
  <2>4. LatestWins'
    BY <2>1
  <2>5. Numbered'
    BY <2>1, <2>2
  <2>6. QED
    BY <2>3, <2>4, <2>5
<1>2. CASE b # NoBase
  <2> DEFINE new == [id |-> n, base |-> b]
  <2>1. /\ latest' = n /\ asked' = b /\ shown' = shown
        /\ loading' = TRUE /\ pending' = pending \cup {new}
    BY <1>2 DEF LoadNumbered
  <2>2. new \in [id : Nat, base : Bases] /\ new.id = n /\ new.base = b
    BY <1>2
  <2>3. \A r \in pending : r.id \in Nat /\ r.id < n
    OBVIOUS
  <2> HIDE DEF new
  <2>4. PanelTypeOK' /\ LatestWins'
    BY <2>1, <2>2
  <2>5. Numbered'
    BY <2>1, <2>2, <2>3
  <2>6. QED
    BY <2>4, <2>5
<1>3. QED
  BY <1>1, <1>2

LEMMA AnswerKeeps ==
    ASSUME IndInv, NEW r \in pending, AnswerLoad(r)
    PROVE  IndInv'
<1> USE DEF IndInv
<1>1. /\ pending' = pending \ {r} /\ latest' = latest /\ asked' = asked
      /\ r \in [id : Nat, base : Bases]
  BY DEF AnswerLoad
<1>2. CASE r.id # latest
  BY <1>1, <1>2 DEF AnswerLoad
<1>3. CASE r.id = latest
  <2>1. shown' \in {r.base, NoBase} /\ loading' = FALSE /\ r.base = asked
    BY <1>3 DEF AnswerLoad
  <2>2. \A s \in pending' : s.id # latest
    BY <1>1, <1>3
  <2>3. PanelTypeOK'
    BY <1>1, <2>1
  <2>4. LatestWins'
    BY <1>1, <2>1
  <2>5. Numbered'
    BY <1>1, <2>2
  <2>6. QED
    BY <2>3, <2>4, <2>5
<1>4. QED
  BY <1>2, <1>3

LEMMA StepKeeps == IndInv /\ [PanelNext]_panel => IndInv'
<1> SUFFICES ASSUME IndInv, [PanelNext]_panel PROVE IndInv'
  OBVIOUS
<1>1. CASE UNCHANGED panel
  BY <1>1 DEF IndInv
<1> DEFINE one == latest + 1
<1> DEFINE two == latest + 2
<1>0. one \in Nat /\ one > latest /\ two \in Nat /\ two > latest
  BY DEF IndInv
<1>2. ASSUME NEW b \in Bases \cup {NoBase}, LoadDocuments(b) PROVE IndInv'
  <2>1. LoadNumbered(one, b)
    BY <1>2 DEF LoadDocuments
  <2> HIDE DEF one
  <2>2. QED
    BY ONLY <1>0, <2>1, LoadKeeps, IndInv
<1>3. ASSUME NEW b \in Bases \cup {NoBase}, SwitchBase(b) PROVE IndInv'
  <2>1. LoadNumbered(two, b)
    BY <1>3 DEF SwitchBase
  <2> HIDE DEF two
  <2>2. QED
    BY ONLY <1>0, <2>1, LoadKeeps, IndInv
<1>4. CASE AnswerLoads
  BY <1>4, AnswerKeeps DEF AnswerLoads
<1>5. QED
  BY <1>1, <1>2, <1>3, <1>4 DEF PanelNext

LEMMA Invariant == PanelSpec => []IndInv
BY InitHolds, StepKeeps, PTL DEF PanelSpec

\* However the answers overtake each other (latestRequestId in
\* useKnowledgeDocuments), a panel at rest displays what was asked for last.
THEOREM PanelLatestWins == PanelSpec => []LatestWins
BY Invariant, PTL DEF IndInv

\* Every step of the hook is a step of the panel that never overlaps its
\* loads, or changes nothing there.
LEMMA StepRefines == IndInv /\ [PanelNext]_panel => [LatestPromise!Next]_(LatestPromise!view)
<1> USE DEF LatestPromise!view, LatestPromise!Next, LatestPromise!Ask, LatestPromise!Finish
<1> SUFFICES ASSUME IndInv, [PanelNext]_panel PROVE [LatestPromise!Next]_(LatestPromise!view)
  OBVIOUS
<1>1. CASE UNCHANGED panel
  BY <1>1
<1>2. ASSUME NEW b \in Bases \cup {NoBase}, NEW n \in Nat, LoadNumbered(n, b)
      PROVE  LatestPromise!Next
  BY <1>2 DEF LoadNumbered
<1>3. ASSUME NEW b \in Bases \cup {NoBase}, LoadDocuments(b) \/ SwitchBase(b)
      PROVE  LatestPromise!Next
  <2>1. latest + 1 \in Nat /\ latest + 2 \in Nat
    BY DEF IndInv
  <2> HIDE DEF LatestPromise!Next
  <2>2. QED
    BY <1>2, <1>3, <2>1 DEF LoadDocuments, SwitchBase
<1>4. ASSUME NEW r \in pending, AnswerLoad(r)
      PROVE  LatestPromise!Next \/ UNCHANGED LatestPromise!view
  BY <1>4 DEF AnswerLoad, IndInv
<1>5. QED
  BY <1>1, <1>3, <1>4 DEF PanelNext, AnswerLoads

\* The numbered loads of useKnowledgeDocuments implement the simple promise.
THEOREM PanelImplementsLatestLoad == PanelSpec => ImplementsLatestLoad
<1>1. PanelInit => LatestPromise!Init
  BY DEF PanelInit, LatestPromise!Init
<1>2. QED
  BY <1>1, Invariant, StepRefines, PTL DEF PanelSpec, ImplementsLatestLoad, LatestPromise!Spec

HIDE DEF PanelTypeOK, LatestWins, Numbered, panel

-----------------------------------------------------------------------------
(***************************************************************************)
(* The chat page, for any conversations.  What makes NoEndlessThinking      *)
(* inductive is where a bubble may still wait: only while its stream is     *)
(* open, or while the transcript that replaces it is fetched; and where     *)
(* dots come from otherwise: an answer the backend has without content.     *)
(* TranscriptSettles needs to know whose answers are still to come: the     *)
(* load's, which is the open conversation's, and the sent message's, which  *)
(* is too unless another conversation was opened.                           *)
(***************************************************************************)

Sent == {"streaming", "refetching", "listing", "restoring"}

\* A message that is on its way has a conversation.
SentSomewhere == send.phase \in Sent => send.session \in Conversations

\* A bubble that waits belongs to a stream or to the fetch that follows it.
WaitsForSomething ==
    messages.answer = "thinking" => send.phase \in {"streaming", "refetching"}

\* Dots that stay stand for an answer without content.
BlankIsSaved == messages.blank => blank # {}

ChatInv == ChatTypeOK /\ WaitsForSomething /\ BlankIsSaved /\ SentSomewhere

LEMMA ChatStarts == ChatInit => ChatInv
  <1> SUFFICES ASSUME ChatInit PROVE ChatInv
    OBVIOUS
  <1>1. /\ existing \subseteq Conversations /\ blank \subseteq Conversations /\ listed = {}
        /\ listing = TRUE /\ switched = FALSE
        /\ activeSession = None /\ load = None /\ creating = 0
        /\ messages = Empty /\ send = Idle
    BY DEF ChatInit, ChatMounted
  <1>2. Empty \in [of : Conversations \cup {None}, answer : Bubbles, blank : BOOLEAN]
    BY DEF Empty, Bubbles
  <1>3. Idle \in [phase : Phases, session : Conversations \cup {None},
                 origin : Conversations \cup {None}, aborted : BOOLEAN]
    BY DEF Idle, Phases
  <1>4. Empty.answer # "thinking" /\ Empty.blank = FALSE /\ Idle.phase \notin Sent
    BY DEF Empty, Idle, Sent
  <1> HIDE DEF Empty, Idle
  <1>5. ChatTypeOK
    BY <1>1, <1>2, <1>3 DEF ChatTypeOK
  <1> QED
    BY <1>1, <1>4, <1>5 DEF ChatInv, WaitsForSomething, BlankIsSaved, SentSomewhere

\* What opening or listing conversations keeps.
LEMMA ListingKeeps ==
    ASSUME ChatTypeOK, ListSessions \/ (listed' = {} /\ UNCHANGED display),
           UNCHANGED existing
    PROVE  /\ listed' \subseteq existing /\ switched' \in BOOLEAN
           /\ activeSession' \in Conversations \cup {None}
           /\ load' \in Conversations \cup {None}
           /\ UNCHANGED messages
  <1> USE DEF ChatTypeOK
  <1>1. CASE listed' = {} /\ UNCHANGED display
    BY <1>1 DEF display
  <1>2. CASE ListSessions
    <2>1. listed' = existing
      BY <1>2 DEF ListSessions
    <2>2. CASE UNCHANGED display
      BY <2>1, <2>2 DEF display
    <2>3. ASSUME NEW c \in existing, Activate(c), UNCHANGED messages
          PROVE  /\ switched' \in BOOLEAN
                 /\ activeSession' = c /\ load' = c
      BY <2>3 DEF Activate
    <2> QED
      BY <1>2, <2>1, <2>2, <2>3 DEF ListSessions
  <1> QED BY <1>1, <1>2

LEMMA CommandKeepsChat ==
    ASSUME ChatInv, ChatCommand
    PROVE  ChatInv'
  <1> USE DEF ChatInv, ChatTypeOK, WaitsForSomething, BlankIsSaved, SentSomewhere, Sent, Bubbles,
              Phases, savedChats
  <1>1. CASE RefetchSessions
    BY <1>1 DEF RefetchSessions, display
  <1>2. CASE CreateSession
    BY <1>2 DEF CreateSession, lists, display
  <1>3. CASE SendMessage
    BY <1>3 DEF SendMessage, Bubble, Quiet, Still, lists
  <1>4. CASE StopGeneration
    BY <1>4 DEF StopGeneration, Quiet, Still, lists
  <1>5. ASSUME NEW c \in listed, SelectSession(c) PROVE ChatInv'
    BY <1>5 DEF SelectSession, Activate, lists
  <1> QED
    BY <1>1, <1>2, <1>3, <1>4, <1>5 DEF ChatCommand

\* The handler of exceptions leaves no bubble that waits.
LEMMA GiveUpKeepsChat ==
    ASSUME ChatInv, GiveUp, Still, MaySaveBlank \/ UNCHANGED blank, send.phase \in Sent
    PROVE  ChatInv'
  <1> USE DEF ChatInv, ChatTypeOK, WaitsForSomething, BlankIsSaved, SentSomewhere, Sent, Bubbles,
              Phases, savedChats
  <1>1. /\ messages' \in [of : Conversations \cup {None}, answer : Bubbles \ {"thinking"},
                        blank : BOOLEAN]
        /\ messages'.blank = messages.blank
    <2>1. CASE send.aborted /\ messages.answer = "thinking"
      BY <2>1 DEF GiveUp, Bubble
    <2>2. CASE ~send.aborted /\ messages.answer \in {"thinking", "partial"}
      BY <2>2 DEF GiveUp, Bubble
    <2>3. CASE /\ ~(send.aborted /\ messages.answer = "thinking")
               /\ ~(~send.aborted /\ messages.answer \in {"thinking", "partial"})
      BY <2>3 DEF GiveUp
    <2> QED BY <2>1, <2>2, <2>3
  <1>2. /\ send' \in [phase : Phases, session : Conversations \cup {None},
                      origin : Conversations \cup {None}, aborted : BOOLEAN]
        /\ SentSomewhere'
    <2>1. Goto("restoring") \/ send' = Idle
      BY DEF GiveUp
    <2>2. /\ Idle \in [phase : Phases, session : Conversations \cup {None},
                       origin : Conversations \cup {None}, aborted : BOOLEAN]
          /\ Idle.phase \notin Sent
      BY DEF Idle
    <2>3. CASE Goto("restoring")
      BY <2>3 DEF Goto
    <2> QED
      BY ONLY <2>1, <2>2, <2>3 DEF SentSomewhere
  <1>3. blank' \subseteq Conversations /\ blank \subseteq blank'
    BY DEF MaySaveBlank
  <1> QED
    BY <1>1, <1>2, <1>3 DEF Still, lists

LEMMA StreamKeepsChat ==
    ASSUME ChatInv, Stream
    PROVE  ChatInv'
  <1> USE DEF ChatInv, ChatTypeOK, WaitsForSomething, BlankIsSaved, SentSomewhere, Sent, Bubbles,
              Phases, savedChats
  <1>1. CASE StreamDelta
    BY <1>1 DEF StreamDelta, Bubble, Quiet, Still, lists
  <1>2. CASE StreamEnds
    <2>1. /\ blank' \subseteq Conversations /\ blank \subseteq blank'
          /\ messages' \in [of : Conversations \cup {None}, answer : Bubbles, blank : BOOLEAN]
          /\ messages'.blank => messages.blank \/ blank' # {}
      <3>1. CASE UNCHANGED messages /\ MaySaveBlank
        BY <1>2, <3>1 DEF StreamEnds, MaySaveBlank
      <3>2. CASE Done
        BY <1>2, <3>2 DEF StreamEnds, Done, Bubble
      <3> QED BY <1>2, <3>1, <3>2 DEF StreamEnds
    <2>2. Goto("refetching") /\ Still /\ send.phase = "streaming"
      BY <1>2 DEF StreamEnds
    <2> QED
      BY <2>1, <2>2 DEF Goto, Still, lists
  <1>3. CASE StreamFails
    BY <1>3, GiveUpKeepsChat DEF StreamFails
  <1> QED
    BY <1>1, <1>2, <1>3 DEF Stream

LEMMA SendAnswerKeepsChat ==
    ASSUME ChatInv, SendAnswer
    PROVE  ChatInv'
  <1> USE DEF ChatInv, ChatTypeOK, WaitsForSomething, BlankIsSaved, SentSomewhere, Sent, Bubbles,
              Phases, savedChats
  <1>1. CASE EnsureAnswers
    <2>1. ASSUME NEW c \in Conversations, Created(c), Bubble("thinking"),
                 send' = [send EXCEPT !.phase = "streaming", !.session = c],
                 UNCHANGED <<blank, listing, creating>>
          PROVE  ChatInv'
      BY <2>1 DEF Created, Activate, Bubble
    <2>2. CASE send' = Idle /\ Quiet /\ UNCHANGED messages
      BY <1>1, <2>2 DEF EnsureAnswers, Idle, Quiet, Still, lists
    <2> QED
      BY <1>1, <2>1, <2>2 DEF EnsureAnswers
  <1>2. CASE StreamAborts
    BY <1>2, GiveUpKeepsChat DEF StreamAborts
  <1>3. CASE RefetchAnswers
    <2>1. CASE messages' \in Transcripts(send.session) /\ Goto("listing")
      BY <1>3, <2>1 DEF RefetchAnswers, Transcripts, Goto, Quiet, Still, lists
    <2> QED
      BY <1>3, <2>1, GiveUpKeepsChat DEF RefetchAnswers, Quiet
  <1>4. CASE RelistAnswers
    BY <1>4, ListingKeeps DEF RelistAnswers, Idle
  <1>5. CASE RestoreAnswers
    BY <1>5 DEF RestoreAnswers, Transcripts, Idle, Quiet, Still, lists
  <1> QED
    BY <1>1, <1>2, <1>3, <1>4, <1>5 DEF SendAnswer

LEMMA AnswerKeepsChat ==
    ASSUME ChatInv, ListingAnswers \/ LoadAnswers \/ CreateAnswers
    PROVE  ChatInv'
  <1> USE DEF ChatInv, ChatTypeOK, WaitsForSomething, BlankIsSaved, SentSomewhere, Sent, Bubbles,
              Phases, savedChats
  <1>1. CASE ListingAnswers
    BY <1>1, ListingKeeps DEF ListingAnswers
  <1>2. CASE LoadAnswers
    <2>1. Empty \in [of : Conversations \cup {None}, answer : Bubbles, blank : BOOLEAN]
          /\ Empty.answer # "thinking" /\ Empty.blank = FALSE
      BY DEF Empty
    <2>2. /\ messages' \in [of : Conversations \cup {None}, answer : Bubbles, blank : BOOLEAN]
          /\ messages'.answer # "thinking" /\ (messages'.blank => blank # {})
      BY <1>2, <2>1 DEF LoadAnswers, Transcripts
    <2> QED
      BY <1>2, <2>2 DEF LoadAnswers, lists
  <1>3. CASE CreateAnswers
    <2>1. ASSUME NEW c \in Conversations, Created(c), messages' = Empty PROVE ChatInv'
      BY <1>3, <2>1 DEF CreateAnswers, Created, Activate, Empty
    <2>2. CASE UNCHANGED <<existing, listed, display>>
      BY <1>3, <2>2 DEF CreateAnswers, display
    <2> QED
      BY <1>3, <2>1, <2>2 DEF CreateAnswers
  <1> QED BY <1>1, <1>2, <1>3

LEMMA StepKeepsChat == ChatInv /\ [ChatNext]_chat => ChatInv'
  <1> SUFFICES ASSUME ChatInv, [ChatNext]_chat PROVE ChatInv'
    OBVIOUS
  <1>1. CASE UNCHANGED chat
    BY <1>1 DEF chat, savedChats, lists, display, ChatInv, ChatTypeOK, WaitsForSomething,
                BlankIsSaved, SentSomewhere
  <1>2. CASE ChatNext
    BY <1>2, CommandKeepsChat, SendAnswerKeepsChat, AnswerKeepsChat, StreamKeepsChat
       DEF ChatNext, ChatAnswer
  <1> QED BY <1>1, <1>2

\* No bubble of sendMessage displays the dots when nothing is being sent: a
\* stop, a failure and a lost error event all replace it.  Dots that stay are those
\* of an answer the backend has without content.
THEOREM ChatNeverThinksForEver == ChatSpec => []NoEndlessThinking
  <1>1. ChatInv => NoEndlessThinking
    BY DEF ChatInv, WaitsForSomething, BlankIsSaved, NoEndlessThinking
  <1> QED
    BY <1>1, ChatStarts, StepKeepsChat, PTL DEF ChatSpec

-----------------------------------------------------------------------------
Following ==
    /\ load \in {None, activeSession}
    /\ TranscriptSettles
    /\ send.phase \in Sent /\ ~switched => send.session = activeSession
    /\ send.origin \in {None, send.session}
    /\ send.phase = "creating" => send.origin = None

LEMMA FollowingStarts == ChatInit => Following
  BY DEF ChatInit, ChatMounted, Following, TranscriptSettles, Idle, Empty, Sent

\* A conversation that is opened loads its transcript.
LEMMA ActivateFollows ==
    ASSUME ChatTypeOK, Following, NEW c \in Conversations, Activate(c), UNCHANGED send
    PROVE  Following'
  <1>1. activeSession' = c /\ load' = c /\ load' # None
    BY ChatAssumption DEF Activate
  <1>2. send.phase \in Sent /\ ~switched' => send.session = c
    BY DEF Activate, Sent
  <1> QED
    BY <1>1, <1>2 DEF Following, TranscriptSettles

LEMMA ListFollows ==
    ASSUME ChatTypeOK, Following, ListSessions \/ UNCHANGED display, UNCHANGED send
    PROVE  Following'
  <1>1. CASE UNCHANGED display
    BY <1>1 DEF display, Following, TranscriptSettles
  <1>2. ASSUME NEW c \in existing, Activate(c) PROVE Following'
    BY <1>2, ActivateFollows DEF ChatTypeOK
  <1> QED
    BY <1>1, <1>2 DEF ListSessions

\* A phase ends with another bubble, or with the transcript of the message's
\* conversation.
LEMMA SendFollows ==
    ASSUME ChatTypeOK, Following, Still,
           messages'.of \in {messages.of, None}
              \/ (send.phase \in Sent /\ messages'.of \in {send.session, send.origin}),
           send' = Idle \/ (/\ send'.session = send.session
                            /\ send'.origin = send.origin
                            /\ \/ {send.phase, send'.phase} \subseteq Sent
                               \/ send'.phase = send.phase)
    PROVE  Following'
  <1>1. load' \in {None, activeSession'}
    BY DEF Still, Following
  <1>2. TranscriptSettles'
    BY DEF Still, Following, TranscriptSettles
  <1>3. CASE send' = Idle
    BY <1>1, <1>2, <1>3 DEF Following, Idle, Sent
  <1>4. CASE send' # Idle
    <2>1. CASE {send.phase, send'.phase} \subseteq Sent
      <3>1. send.phase \in Sent /\ send'.phase # "creating"
        BY <2>1 DEF Sent
      <3> QED
        BY <1>1, <1>2, <1>4, <3>1 DEF Following, Still
    <2>2. CASE send'.phase = send.phase
      BY <1>1, <1>2, <1>4, <2>2 DEF Following, Still
    <2> QED BY <1>4, <2>1, <2>2
  <1> QED BY <1>3, <1>4

LEMMA BubbleKeepsConversation ==
    ASSUME ChatTypeOK, NEW answer, Bubble(answer) \/ UNCHANGED messages
    PROVE  messages'.of = messages.of
  BY DEF Bubble, ChatTypeOK

LEMMA GotoKeepsSession ==
    ASSUME ChatTypeOK, NEW phase, Goto(phase)
    PROVE  /\ send'.session = send.session /\ send'.origin = send.origin
           /\ send'.phase = phase
  BY DEF Goto, ChatTypeOK

LEMMA GiveUpFollows ==
    ASSUME ChatTypeOK, Following, GiveUp, Still, send.phase \in Sent
    PROVE  Following'
  <1>1. messages'.of = messages.of
    BY BubbleKeepsConversation DEF GiveUp
  <1>2. send' = Idle \/ (/\ send'.session = send.session /\ send'.origin = send.origin
                         /\ send'.phase = "restoring")
    BY GotoKeepsSession DEF GiveUp
  <1> QED BY <1>1, <1>2, SendFollows DEF Sent

LEMMA CommandFollows ==
    ASSUME ChatTypeOK, Following, ChatCommand
    PROVE  Following'
  <1>1. CASE RefetchSessions \/ CreateSession
    BY <1>1 DEF RefetchSessions, CreateSession, display, Following, TranscriptSettles
  <1>2. CASE SendMessage
    <2>1. messages'.of = messages.of /\ Quiet
      BY <1>2, BubbleKeepsConversation DEF SendMessage
    <2>2. /\ send'.session = activeSession /\ send'.origin = activeSession
          /\ send'.phase = "creating" => activeSession = None
      BY <1>2 DEF SendMessage
    <2> QED
      BY <2>1, <2>2 DEF Following, TranscriptSettles, Quiet, Still
  <1>3. CASE StopGeneration
    <2>1. Quiet /\ UNCHANGED messages
      BY <1>3 DEF StopGeneration
    <2>2. /\ send'.session = send.session /\ send'.origin = send.origin
          /\ send'.phase = send.phase
      BY <1>3 DEF StopGeneration, ChatTypeOK
    <2> QED
      BY <2>1, <2>2, SendFollows DEF Quiet
  <1>4. ASSUME NEW c \in listed, SelectSession(c) PROVE Following'
    BY <1>4, ActivateFollows DEF SelectSession, ChatTypeOK
  <1> QED
    BY <1>1, <1>2, <1>3, <1>4 DEF ChatCommand

LEMMA StreamFollows ==
    ASSUME ChatTypeOK, Following, Stream
    PROVE  Following'
  <1>1. CASE StreamDelta
    BY <1>1, BubbleKeepsConversation, SendFollows DEF StreamDelta, Quiet, Sent
  <1>2. CASE StreamEnds
    <2>1. messages'.of = messages.of
      BY <1>2, BubbleKeepsConversation DEF StreamEnds, Done, ChatTypeOK
    <2> QED
      BY <1>2, <2>1, GotoKeepsSession, SendFollows DEF StreamEnds, Sent
  <1>3. CASE StreamFails
    BY <1>3, GiveUpFollows DEF StreamFails, Sent
  <1> QED BY <1>1, <1>2, <1>3 DEF Stream

LEMMA SendAnswerFollows ==
    ASSUME ChatTypeOK, Following, SendAnswer
    PROVE  Following'
  <1>1. CASE EnsureAnswers
    <2>1. ASSUME NEW c \in Conversations, Created(c),
                 send' = [send EXCEPT !.phase = "streaming", !.session = c]
          PROVE  Following'
      <3>1. activeSession' = c /\ load' = c /\ load' # None
        BY <2>1, ChatAssumption DEF Created, Activate
      <3>2. send'.session = c /\ send'.origin = send.origin
        BY <2>1 DEF ChatTypeOK
      <3>3. send.origin = None /\ send'.phase # "creating"
        BY <1>1, <2>1 DEF EnsureAnswers, Following, ChatTypeOK
      <3> QED
        BY <3>1, <3>2, <3>3 DEF Following, TranscriptSettles
    <2>2. CASE send' = Idle /\ Quiet /\ UNCHANGED messages
      BY <2>2, SendFollows DEF Quiet
    <2> QED BY <1>1, <2>1, <2>2 DEF EnsureAnswers
  <1>2. CASE StreamAborts
    BY <1>2, GiveUpFollows DEF StreamAborts, Sent
  <1>3. CASE RefetchAnswers
    <2>1. CASE messages' \in Transcripts(send.session) /\ Goto("listing")
      BY <1>3, <2>1, GotoKeepsSession, SendFollows DEF RefetchAnswers, Transcripts, Quiet, Sent
    <2> QED
      BY <1>3, <2>1, GiveUpFollows DEF RefetchAnswers, Quiet, Sent
  <1>4. CASE RelistAnswers
    <2>1. send' = Idle /\ UNCHANGED messages
      BY <1>4 DEF RelistAnswers, ListSessions, display
    <2>2. CASE UNCHANGED display
      BY <2>1, <2>2 DEF display, Following, TranscriptSettles, Idle, Sent
    <2>3. ASSUME NEW c \in existing, Activate(c) PROVE Following'
      BY <2>1, <2>3, ChatAssumption
         DEF Activate, ChatTypeOK, Following, TranscriptSettles, Idle, Sent
    <2> QED
      BY <1>4, <2>2, <2>3 DEF RelistAnswers, ListSessions
  <1>5. CASE RestoreAnswers
    BY <1>5, SendFollows DEF RestoreAnswers, Transcripts, Quiet, Sent
  <1> QED
    BY <1>1, <1>2, <1>3, <1>4, <1>5 DEF SendAnswer

LEMMA AnswerFollows ==
    ASSUME ChatTypeOK, Following, ListingAnswers \/ LoadAnswers \/ CreateAnswers
    PROVE  Following'
  <1>1. CASE ListingAnswers
    BY <1>1, ListFollows DEF ListingAnswers
  <1>2. CASE LoadAnswers
    BY <1>2 DEF LoadAnswers, Transcripts, Empty, Following, TranscriptSettles
  <1>3. CASE CreateAnswers
    <2>1. ASSUME NEW c \in Conversations, Created(c) PROVE Following'
      BY <1>3, <2>1, ActivateFollows DEF CreateAnswers, Created
    <2>2. CASE UNCHANGED display
      BY <1>3, <2>2 DEF CreateAnswers, display, Following, TranscriptSettles
    <2> QED
      BY <1>3, <2>1, <2>2 DEF CreateAnswers
  <1> QED BY <1>1, <1>2, <1>3

LEMMA StepFollows == ChatTypeOK /\ Following /\ [ChatNext]_chat => Following'
  <1> SUFFICES ASSUME ChatTypeOK, Following, [ChatNext]_chat PROVE Following'
    OBVIOUS
  <1>1. CASE UNCHANGED chat
    BY <1>1 DEF chat, display, Following, TranscriptSettles
  <1>2. CASE ChatNext
    BY <1>2, CommandFollows, SendAnswerFollows, AnswerFollows, StreamFollows
       DEF ChatNext, ChatAnswer
  <1> QED BY <1>1, <1>2

\* The transcript on display is the open conversation's once its load has
\* ended: a load that was cancelled is never displayed, and the transcript
\* fetched after a message is that of the conversation it went to.
THEOREM ChatTranscriptSettles == ChatSpec => []TranscriptSettles
  <1>1. ChatInv => ChatTypeOK
    BY DEF ChatInv
  <1>2. Following => TranscriptSettles
    BY DEF Following
  <1> QED
    BY <1>1, <1>2, ChatStarts, StepKeepsChat, FollowingStarts, StepFollows, PTL DEF ChatSpec

-----------------------------------------------------------------------------
(***************************************************************************)
(* The console.                                                             *)
(***************************************************************************)

\* A page's step leaves the session alone, any other is one of the session.
LEMMA StepOfSession == [ConsoleNext]_console => [SessionNext]_session
  <1> SUFFICES ASSUME [ConsoleNext]_console PROVE [SessionNext]_session
    OBVIOUS
  <1>1. CASE SessionEvent
    BY <1>1 DEF SessionEvent, SessionNext
  <1>2. CASE SessionStep
    BY <1>2 DEF SessionStep, SessionNext
  <1>3. CASE ChatEvent \/ ChatStep
    BY <1>3 DEF ChatEvent, ChatStep, InChat
  <1>4. CASE KnowledgeEvent \/ KnowledgeStep
    BY <1>4 DEF KnowledgeEvent, KnowledgeStep, InKnowledge
  <1>5. CASE MediaEvent \/ MediaStep
    BY <1>5 DEF MediaEvent, MediaStep, InMedia
  <1>6. CASE UNCHANGED console
    BY <1>6 DEF console
  <1> QED
    BY <1>1, <1>2, <1>3, <1>4, <1>5, <1>6 DEF ConsoleNext

\* The console implements the session: mounting and unmounting pages adds
\* nothing to what App does and takes nothing away.
THEOREM ConsoleRunsSession == ConsoleSpec => SessionSpec
  <1>1. ConsoleInit => SessionInit
    BY DEF ConsoleInit
  <1> QED
    BY <1>1, StepOfSession, PTL DEF ConsoleSpec, SessionSpec

\* Hence the console fails closed, a tab that asks to sign in holds nothing,
\* and the user on display is the one the requests of the pages are sent for.
THEOREM ConsoleSessionSafe ==
    ConsoleSpec => [](FailClosed /\ SignedOutHoldsNothing /\ ShownUserIsSessionUser)
  <1> QED
    BY ConsoleRunsSession, SessionFailsClosed, SignedOutTabHoldsNothing, ShownUserOwnsCookie, PTL

-----------------------------------------------------------------------------
\* The page asks the panel for nothing but bases.
AsksForBases ==
    /\ bases \in SUBSET Bases /\ baseList \in SUBSET Bases /\ working \in SUBSET Bases
    /\ panelBase \in Bases \cup {NoBase}

\* The page was unmounted: the panel is as it was at the start.
PanelReset ==
    latest' = 0 /\ pending' = {} /\ shown' = NoBase /\ asked' = NoBase /\ loading' = FALSE

LEMMA SelectedIsBase ==
    ASSUME NEW list \in SUBSET Bases, NEW id
    PROVE  SelectedBase(list, id) \in Bases \cup {NoBase}
  <1>1. CASE list = {}
    BY <1>1 DEF SelectedBase, First
  <1>2. CASE list # {}
    <2>1. Min(list) \in list
      BY <1>2, BaseAssumption DEF Min
    <2> QED
      BY <1>2, <2>1 DEF SelectedBase, First
  <1> QED BY <1>1, <1>2

LEMMA LoadIsPanelStep ==
    ASSUME NEW b \in Bases \cup {NoBase}, LoadDocuments(b) \/ SwitchBase(b)
    PROVE  PanelNext
  BY DEF PanelNext

LEMMA RenderIsPanelStep ==
    ASSUME NEW list \in SUBSET Bases, NEW id, Render(list, id)
    PROVE  /\ [PanelNext]_panel
           /\ baseList' \in SUBSET Bases /\ panelBase' \in Bases \cup {NoBase}
  <1>1. baseList' = list /\ panelBase' \in Bases \cup {NoBase}
    BY SelectedIsBase DEF Render
  <1>2. CASE panelBase' = panelBase
    BY <1>1, <1>2 DEF Render
  <1>3. CASE panelBase' # panelBase
    BY <1>1, <1>3, LoadIsPanelStep DEF Render
  <1> QED BY <1>2, <1>3, <1>1

LEMMA ReadIsPanelStep ==
    ASSUME AsksForBases, KnowledgeRead
    PROVE  [PanelNext]_panel /\ AsksForBases'
  <1> USE DEF AsksForBases
  <1>1. CASE RefetchBases
    BY <1>1 DEF RefetchBases, selection, actions
  <1>2. CASE RefetchDocuments
    BY <1>2, LoadIsPanelStep DEF RefetchDocuments, actions
  <1>3. ASSUME NEW b \in baseList, SelectBase(b) PROVE [PanelNext]_panel /\ AsksForBases'
    <2>1. Render(baseList, b) /\ UNCHANGED <<bases, working>>
      BY <1>3 DEF SelectBase, actions
    <2> QED
      BY <2>1, RenderIsPanelStep
  <1> QED
    BY <1>1, <1>2, <1>3 DEF KnowledgeRead

LEMMA WriteIsPanelStep ==
    ASSUME AsksForBases, KnowledgeWrite
    PROVE  [PanelNext]_panel /\ AsksForBases'
  <1> USE DEF AsksForBases
  <1>1. CASE StartDocumentAction
    BY <1>1 DEF StartDocumentAction, selection
  <1>2. CASE CreateBase
    BY <1>2 DEF CreateBase, selection
  <1>3. ASSUME NEW b \in baseList, DeleteBase(b) PROVE [PanelNext]_panel /\ AsksForBases'
    BY <1>3 DEF DeleteBase, selection
  <1> QED
    BY <1>1, <1>2, <1>3 DEF KnowledgeWrite

LEMMA AnswerIsPanelStep ==
    ASSUME AsksForBases, KnowledgeAnswer
    PROVE  [PanelNext]_panel /\ AsksForBases'
  <1> USE DEF AsksForBases
  <1>1. CASE BasesAnswer
    <2>1. UNCHANGED <<bases, working>> /\ (RenderList(bases) \/ RenderList({}))
      BY <1>1 DEF BasesAnswer, actions
    <2> QED
      BY <2>1, RenderIsPanelStep DEF RenderList
  <1>2. CASE DocumentsAnswer
    BY <1>2 DEF DocumentsAnswer, PanelNext, actions
  <1>3. CASE CreateBaseAnswers
    <2>1. UNCHANGED working
      BY <1>3 DEF CreateBaseAnswers
    <2>2. \/ \E b \in Bases \ bases, id \in Bases \cup {NoBase} :
                bases' = bases \cup {b} /\ Render(baseList, id)
          \/ UNCHANGED <<bases, selection>>
      BY <1>3 DEF CreateBaseAnswers
    <2>3. CASE UNCHANGED <<bases, selection>>
      BY <2>1, <2>3 DEF selection
    <2>4. ASSUME NEW b \in Bases \ bases, NEW id \in Bases \cup {NoBase},
                 bases' = bases \cup {b}, Render(baseList, id)
          PROVE  [PanelNext]_panel /\ AsksForBases'
      BY <2>1, <2>4, RenderIsPanelStep
    <2> QED BY <2>2, <2>3, <2>4
  <1>4. ASSUME NEW b \in working, DocumentActionAnswers(b)
        PROVE  [PanelNext]_panel /\ AsksForBases'
    <2>1. b \in Bases /\ (LoadDocuments(b) \/ UNCHANGED panel)
      BY <1>4 DEF DocumentActionAnswers
    <2>2. AsksForBases'
      BY <1>4 DEF DocumentActionAnswers
    <2> QED
      BY <2>1, <2>2, LoadIsPanelStep
  <1>5. ASSUME NEW b \in deleting, DeleteBaseAnswers(b)
        PROVE  [PanelNext]_panel /\ AsksForBases'
    <2>1. UNCHANGED working
      BY <1>5 DEF DeleteBaseAnswers
    <2>2. \/ bases' = bases \ {b} /\ Render(baseList, IF selectedBaseId = b THEN NoBase ELSE selectedBaseId)
          \/ UNCHANGED <<bases, selection>>
      BY <1>5 DEF DeleteBaseAnswers
    <2>3. CASE UNCHANGED <<bases, selection>>
      BY <2>1, <2>3 DEF selection
    <2>4. CASE /\ bases' = bases \ {b}
               /\ Render(baseList, IF selectedBaseId = b THEN NoBase ELSE selectedBaseId)
      BY <2>1, <2>4, RenderIsPanelStep
    <2> QED BY <2>2, <2>3, <2>4
  <1> QED
    BY <1>1, <1>2, <1>3, <1>4, <1>5 DEF KnowledgeAnswer

\* A step of the session leaves the page, mounts it or unmounts it.
LEMMA SessionAndPanel ==
    ASSUME AsksForBases, KnowledgeFollows
    PROVE  ([PanelNext]_panel \/ PanelReset) /\ AsksForBases'
  <1> USE DEF AsksForBases
  <1>1. ~(Opens("knowledgeBases") /\ Closes("knowledgeBases"))
    BY DEF Opens, Closes
  <1>2. CASE Opens("knowledgeBases")
    <2>1. bases' \in SUBSET Bases /\ UNCHANGED <<baseLoads, selection, actions>>
      BY <1>1, <1>2 DEF KnowledgeFollows
    <2> QED
      BY <2>1 DEF selection, actions
  <1>3. CASE Closes("knowledgeBases")
    <2>1. /\ bases' = {} /\ baseList' = {} /\ working' = {} /\ panelBase' = NoBase
          /\ PanelReset
      BY <1>1, <1>3 DEF KnowledgeFollows, PanelReset
    <2> QED BY <2>1
  <1>4. CASE ~Opens("knowledgeBases") /\ ~Closes("knowledgeBases")
    <2>1. UNCHANGED knowledge
      BY <1>4 DEF KnowledgeFollows
    <2> QED
      BY <2>1 DEF knowledge, selection, actions
  <1> QED BY <1>2, <1>3, <1>4

LEMMA ConsoleAndPanel ==
    ASSUME AsksForBases, [ConsoleNext]_console
    PROVE  ([PanelNext]_panel \/ PanelReset) /\ AsksForBases'
  <1>1. CASE SessionEvent \/ SessionStep
    BY <1>1, SessionAndPanel DEF SessionEvent, SessionStep, PagesFollow
  <1>2. CASE KnowledgeEvent \/ KnowledgeStep
    BY <1>2, ReadIsPanelStep, WriteIsPanelStep, AnswerIsPanelStep
       DEF KnowledgeEvent, KnowledgeStep, InKnowledge
  <1>3. CASE ChatEvent \/ ChatStep \/ MediaEvent \/ MediaStep \/ UNCHANGED console
    <2>1. UNCHANGED knowledge
      BY <1>3 DEF ChatEvent, ChatStep, InChat, MediaEvent, MediaStep, InMedia, console
    <2> QED
      BY <2>1 DEF knowledge, selection, actions, AsksForBases
  <1> QED
    BY <1>1, <1>2, <1>3 DEF ConsoleNext

PageInv == IndInv /\ AsksForBases

LEMMA ConsoleKeepsPage == PageInv /\ [ConsoleNext]_console => PageInv'
  <1> SUFFICES ASSUME PageInv, [ConsoleNext]_console PROVE PageInv'
    OBVIOUS
  <1>1. ([PanelNext]_panel \/ PanelReset) /\ AsksForBases'
    BY ConsoleAndPanel DEF PageInv
  <1>2. CASE [PanelNext]_panel
    BY <1>1, <1>2, StepKeeps DEF PageInv
  <1>3. CASE PanelReset
    BY <1>1, <1>3 DEF PageInv, IndInv, PanelReset, PanelTypeOK, LatestWins, Numbered
  <1> QED BY <1>1, <1>2, <1>3

LEMMA ConsoleStartsPage == ConsoleInit => PageInv
  <1> SUFFICES ASSUME ConsoleInit PROVE PageInv
    OBVIOUS
  <1>1. PanelInit /\ AsksForBases
    BY DEF ConsoleInit, KnowledgeMounted, AsksForBases
  <1> QED
    BY <1>1, InitHolds DEF PageInv

LEMMA ConsolePageInvariant == ConsoleSpec => []PageInv
  BY ConsoleStartsPage, ConsoleKeepsPage, PTL DEF ConsoleSpec

\* The documents on display are those asked for last (latestRequestId in
\* useKnowledgeDocuments), also when uploads of an earlier base end late and
\* the page is left and entered again.
THEOREM ConsoleLatestWins == ConsoleSpec => []LatestWins
  <1>1. PageInv => LatestWins
    BY DEF PageInv, IndInv
  <1> QED
    BY <1>1, ConsolePageInvariant, PTL

\* The panel of the console implements LatestLoad: to leave the page is to ask
\* for nothing.
THEOREM ConsoleImplementsLatestLoad == ConsoleSpec => ImplementsLatestLoad
  <1>1. ConsoleInit => LatestPromise!Init
    BY DEF ConsoleInit, KnowledgeMounted, PanelInit, LatestPromise!Init
  <1>2. PageInv /\ [ConsoleNext]_console => [LatestPromise!Next]_(LatestPromise!view)
    <2> SUFFICES ASSUME PageInv, [ConsoleNext]_console
                 PROVE  [LatestPromise!Next]_(LatestPromise!view)
      OBVIOUS
    <2>1. [PanelNext]_panel \/ PanelReset
      BY ConsoleAndPanel DEF PageInv
    <2>2. CASE [PanelNext]_panel
      BY <2>2, StepRefines DEF PageInv
    <2>3. CASE PanelReset
      <3>1. LatestPromise!Ask(NoBase)
        BY <2>3 DEF PanelReset, LatestPromise!Ask
      <3> QED
        BY <3>1 DEF LatestPromise!Next
    <2> QED BY <2>1, <2>2, <2>3
  <1> QED
    BY <1>1, <1>2, ConsolePageInvariant, PTL
       DEF ConsoleSpec, ImplementsLatestLoad, LatestPromise!Spec

-----------------------------------------------------------------------------
\* The chat page is mounted exactly while it is displayed: what is behind it is
\* left out of the state otherwise.
Unmounted == ~Displays("chatConsole") => existing = {} /\ blank = {}

ChatHolds == ChatInv /\ Following

\* To unmount the page is to forget all of it.
ChatReset ==
    /\ existing' = {} /\ blank' = {} /\ listed' = {} /\ listing' = TRUE
    /\ activeSession' = None /\ load' = None /\ messages' = Empty
    /\ creating' = 0 /\ send' = Idle /\ switched' = FALSE

LEMMA ResetKeepsChat ==
    ASSUME ChatReset
    PROVE  ChatHolds'
  <1>1. Empty \in [of : Conversations \cup {None}, answer : Bubbles, blank : BOOLEAN]
    BY DEF Empty, Bubbles
  <1>2. Idle \in [phase : Phases, session : Conversations \cup {None},
                 origin : Conversations \cup {None}, aborted : BOOLEAN]
    BY DEF Idle, Phases
  <1>3. Empty.answer # "thinking" /\ Empty.of = None /\ Empty.blank = FALSE
    BY DEF Empty
  <1>4. Idle.phase = "idle" /\ Idle.phase \notin Sent /\ Idle.origin = None
    BY DEF Idle, Sent
  <1> HIDE DEF Empty, Idle
  <1>5. ChatInv'
    BY <1>1, <1>2, <1>3, <1>4 DEF ChatReset, ChatInv, ChatTypeOK, WaitsForSomething,
                                  BlankIsSaved, SentSomewhere
  <1>6. Following'
    BY <1>3, <1>4 DEF ChatReset, Following, TranscriptSettles, Sent
  <1> QED
    BY <1>5, <1>6 DEF ChatHolds

\* A step of the session leaves the page, mounts it on conversations the
\* backend has meanwhile, or unmounts it.
LEMMA SessionAndChat ==
    ASSUME ChatHolds, Unmounted, ChatFollows
    PROVE  ChatHolds' /\ Unmounted'
  <1>1. ~(Opens("chatConsole") /\ Closes("chatConsole"))
    BY DEF Opens, Closes
  <1>2. CASE Opens("chatConsole")
    <2>1. /\ existing' \in SUBSET Conversations /\ blank' \in SUBSET existing'
          /\ UNCHANGED <<lists, display, creating, send>>
      BY <1>1, <1>2 DEF ChatFollows
    <2>2. Displays("chatConsole")' /\ listed = {} /\ blank = {}
      BY <1>2 DEF Opens, Unmounted, ChatHolds, ChatInv, ChatTypeOK
    <2> QED
      BY <2>1, <2>2 DEF lists, display, Unmounted, ChatHolds, ChatInv, ChatTypeOK,
                        WaitsForSomething, BlankIsSaved, SentSomewhere, Following,
                        TranscriptSettles
  <1>3. CASE Closes("chatConsole")
    <2>1. ChatReset
      BY <1>1, <1>3 DEF ChatFollows, ChatReset
    <2> QED
      BY <2>1, ResetKeepsChat DEF ChatReset, Unmounted
  <1>4. CASE ~Opens("chatConsole") /\ ~Closes("chatConsole")
    <2>1. UNCHANGED chat /\ (Displays("chatConsole")' <=> Displays("chatConsole"))
      BY <1>4 DEF ChatFollows, Opens, Closes
    <2> QED
      BY <2>1, StepKeepsChat, StepFollows
         DEF chat, savedChats, Unmounted, ChatHolds, ChatInv
  <1> QED BY <1>2, <1>3, <1>4

\* Only a step of the session changes which page is on display.
LEMMA SamePageDisplayed ==
    ASSUME UNCHANGED session, NEW page
    PROVE  Displays(page)' <=> Displays(page)
  BY DEF session, app, navigation, Displays, Content, SignedIn, CanRenderActivePage, Shows,
         Displayable, IsPrototype

LEMMA ConsoleKeepsChat ==
    ChatHolds /\ Unmounted /\ [ConsoleNext]_console => ChatHolds' /\ Unmounted'
  <1> SUFFICES ASSUME ChatHolds, Unmounted, [ConsoleNext]_console
               PROVE  ChatHolds' /\ Unmounted'
    OBVIOUS
  <1>1. CASE SessionEvent \/ SessionStep
    BY <1>1, SessionAndChat DEF SessionEvent, SessionStep, PagesFollow
  <1>2. CASE ChatEvent \/ ChatStep
    <2>1. ChatNext /\ Displays("chatConsole") /\ UNCHANGED session
      BY <1>2 DEF ChatEvent, ChatStep, InChat, ChatNext
    <2>2. Displays("chatConsole")'
      BY <2>1, SamePageDisplayed
    <2> QED
      BY <2>1, <2>2, StepKeepsChat, StepFollows DEF Unmounted, ChatHolds, ChatInv
  <1>3. CASE KnowledgeEvent \/ KnowledgeStep \/ MediaEvent \/ MediaStep \/ UNCHANGED console
    <2>1. UNCHANGED <<session, chat>>
      BY <1>3 DEF KnowledgeEvent, KnowledgeStep, InKnowledge, MediaEvent, MediaStep, InMedia,
                  console
    <2>2. Displays("chatConsole")' <=> Displays("chatConsole")
      BY <2>1, SamePageDisplayed
    <2> QED
      BY <2>1, <2>2, StepKeepsChat, StepFollows DEF chat, savedChats, Unmounted, ChatHolds, ChatInv
  <1> QED
    BY <1>1, <1>2, <1>3 DEF ConsoleNext

LEMMA ConsoleStartsChat == ConsoleInit => ChatHolds /\ Unmounted
  <1> SUFFICES ASSUME ConsoleInit PROVE ChatHolds /\ Unmounted
    OBVIOUS
  <1>1. ChatInit /\ existing = {} /\ blank = {}
    BY DEF ConsoleInit, ChatInit
  <1> QED
    BY <1>1, ChatStarts, FollowingStarts DEF ChatHolds, Unmounted

\* In the console as by itself, whenever the page is left and entered again: no bubble
\* waits for an answer that will never come, and the transcript on display is the open
\* conversation's (useChatConsole, mounted by App for the page it displays).
THEOREM ConsoleChatSafe == ConsoleSpec => [](NoEndlessThinking /\ TranscriptSettles)
  <1>1. ChatHolds => NoEndlessThinking /\ TranscriptSettles
    BY DEF ChatHolds, ChatInv, WaitsForSomething, BlankIsSaved, NoEndlessThinking, Following
  <1> QED
    BY <1>1, ConsoleStartsChat, ConsoleKeepsChat, PTL DEF ConsoleSpec

-----------------------------------------------------------------------------
(* The types of the board. *)

Waiters == Jobs \cup {"page", "poll", "create", "batch"}
Load == [for : Waiters, copy : Boards \cup {Unserved}]
Actors == Jobs \cup {"create", "batch"}

LEMMA NoJobsIsBoard == NoJobs \in Boards
  BY DEF NoJobs, Boards, Statuses

LEMMA NewLoad == \A who \in Waiters : LoadFor(who) \in Load
  BY DEF LoadFor, Load

\* A board whose polling ends keeps its loads.
LEMMA RetiredKeepsType ==
    ASSUME NEW ls \in Seq(Load)
    PROVE  Retired(ls) \in Seq(Load)
  <1>1. Len(ls) \in Nat /\ DOMAIN ls = 1 .. Len(ls)
    BY LenProperties
  <1>2. \A i \in DOMAIN ls : ls[i] \in Load /\ [ls[i] EXCEPT !.for = "page"] \in Load
    <2>1. \A load_ \in Load : [load_ EXCEPT !.for = "page"] \in Load
      BY DEF Load, Waiters
    <2> QED BY <1>1, <2>1, ElementOfSeq
  <1>3. Retired(ls) \in [1 .. Len(ls) -> Load]
    BY <1>1, <1>2 DEF Retired
  <1> QED
    BY <1>1, <1>3, SeqDef

LEMMA ReleaseKeepsType ==
    ASSUME MediaTypeOK, NEW who, Release(who)
    PROVE  actionJobId' \in Jobs \cup {"batch", "nothing"} /\ saving' \in BOOLEAN
  BY DEF Release, MediaTypeOK

LEMMA LoadKeepsBoard ==
    ASSUME MediaTypeOK, NEW i \in DOMAIN loads, ServeLoad(i) \/ DisplayLoad(i) \/ LoadFails(i)
    PROVE  MediaTypeOK'
  <1>1. loads \in Seq(Load) /\ loads[i] \in Load /\ i \in 1 .. Len(loads)
    BY LenProperties, ElementOfSeq DEF MediaTypeOK, Load, Waiters
  <1>2. RemoveAt(loads, i) \in Seq(Load)
    BY <1>1, RemoveKeepsType
  <1>3. CASE ServeLoad(i)
    <2> DEFINE served == [loads[i] EXCEPT !.copy = jobs]
    <2>1. served \in Load /\ loads' = [loads EXCEPT ![i] = served]
      BY <1>1, <1>3 DEF ServeLoad, Load, MediaTypeOK
    <2> HIDE DEF served
    <2>2. loads' \in Seq(Load)
      BY <1>1, <2>1, ExceptSeq
    <2> QED
      BY <1>3, <2>2 DEF ServeLoad, MediaTypeOK, Load, Waiters
  <1>4. CASE DisplayLoad(i)
    <2>1. board' \in Boards
      BY <1>1, <1>4 DEF DisplayLoad, Load
    <2>2. loads' \in Seq(Load)
      BY <1>2, <1>4, RetiredKeepsType DEF DisplayLoad
    <2>3. Release(loads[i].for) /\ UNCHANGED <<jobs, calls>>
      BY <1>4 DEF DisplayLoad
    <2>4. actionJobId' \in Jobs \cup {"batch", "nothing"} /\ saving' \in BOOLEAN
      BY <2>3, ReleaseKeepsType
    <2> QED
      BY <2>1, <2>2, <2>3, <2>4 DEF MediaTypeOK, Load, Waiters
  <1>5. CASE LoadFails(i)
    <2>1. loads' \in Seq(Load) /\ Release(loads[i].for) /\ UNCHANGED <<jobs, board, calls>>
      BY <1>2, <1>5 DEF LoadFails
    <2>2. actionJobId' \in Jobs \cup {"batch", "nothing"} /\ saving' \in BOOLEAN
      BY <2>1, ReleaseKeepsType
    <2> QED
      BY <2>1, <2>2 DEF MediaTypeOK, Load, Waiters
  <1> QED BY <1>3, <1>4, <1>5

LEMMA ChangesKeepJobs ==
    ASSUME MediaTypeOK, NEW who, Changes(who)
    PROVE  jobs' \in Boards
  BY DEF Changes, MediaTypeOK, Boards, Statuses

LEMMA CallKeepsBoard ==
    ASSUME MediaTypeOK, NEW i \in DOMAIN calls, CallAnswers(i)
    PROVE  MediaTypeOK'
  <1>1. calls \in Seq(Actors) /\ loads \in Seq(Load)
    BY DEF MediaTypeOK, Actors, Load, Waiters
  <1>2. calls[i] \in Waiters
    BY <1>1, LenProperties, ElementOfSeq DEF Actors, Waiters
  <1>3. calls' \in Seq(Actors)
    BY <1>1, RemoveKeepsType DEF CallAnswers
  <1>4. CASE Changes(calls[i]) /\ loads' = Append(loads, LoadFor(calls[i]))
             /\ UNCHANGED <<board, actionJobId, saving>>
    <2>1. loads' \in Seq(Load) /\ jobs' \in Boards
      BY <1>1, <1>2, <1>4, NewLoad, AppendProperties, ChangesKeepJobs
    <2> QED
      BY <1>3, <1>4, <2>1 DEF MediaTypeOK, Actors, Load, Waiters
  <1>5. CASE Release(calls[i]) /\ UNCHANGED <<board, jobs, loads>>
    <2>1. actionJobId' \in Jobs \cup {"batch", "nothing"} /\ saving' \in BOOLEAN
      BY <1>5, ReleaseKeepsType
    <2> QED
      BY <1>3, <1>5, <2>1 DEF MediaTypeOK, Actors
  <1> QED
    BY <1>4, <1>5 DEF CallAnswers

LEMMA CommandKeepsBoard ==
    ASSUME MediaTypeOK, MediaCommand \/ PollTick
    PROVE  MediaTypeOK'
  <1>1. calls \in Seq(Actors) /\ loads \in Seq(Load)
    BY DEF MediaTypeOK, Actors, Load, Waiters
  <1>2. \A who \in {"page", "poll"} : Append(loads, LoadFor(who)) \in Seq(Load)
    BY <1>1, NewLoad, AppendProperties DEF Waiters
  <1>3. \A who \in Actors : Append(calls, who) \in Seq(Actors)
    BY <1>1, AppendProperties
  <1>4. CASE PollTick \/ Refresh
    BY <1>2, <1>4 DEF PollTick, Refresh, MediaTypeOK, Load, Waiters
  <1>5. CASE StartBatchPoll \/ StartCreate
    BY <1>3, <1>5 DEF StartBatchPoll, StartCreate, MediaTypeOK, Actors
  <1>6. ASSUME NEW j \in Jobs, StartJobAction(j) PROVE MediaTypeOK'
    BY <1>3, <1>6 DEF StartJobAction, MediaTypeOK, Actors
  <1> QED
    BY <1>4, <1>5, <1>6 DEF MediaCommand

LEMMA StepKeepsBoard == MediaTypeOK /\ [MediaNext]_media => MediaTypeOK'
  <1> SUFFICES ASSUME MediaTypeOK, [MediaNext]_media PROVE MediaTypeOK'
    OBVIOUS
  <1>1. CASE UNCHANGED media
    BY <1>1 DEF media, MediaTypeOK
  <1>2. ASSUME NEW j \in Jobs, JobEnds(j) PROVE MediaTypeOK'
    BY <1>2 DEF JobEnds, MediaTypeOK, Boards, Statuses
  <1>3. CASE MediaNext
    BY <1>2, <1>3, LoadKeepsBoard, CallKeepsBoard, CommandKeepsBoard
       DEF MediaNext, MediaServe, MediaDisplay, MediaFail, MediaCall
  <1> QED BY <1>1, <1>3

LEMMA MountedBoard ==
    ASSUME jobs \in Boards, MediaMounted
    PROVE  MediaTypeOK
  <1>1. loads \in Seq(Load)
    <2>1. LoadFor("page") \in Load /\ loads = <<LoadFor("page")>>
      BY NewLoad DEF Waiters, MediaMounted
    <2> QED BY <2>1
  <1> QED
    BY <1>1, NoJobsIsBoard, EmptySeq DEF MediaMounted, MediaTypeOK, Load, Waiters

LEMMA MountedBoardNext == (jobs \in Boards /\ MediaMounted => MediaTypeOK)'
  BY MountedBoard, PTL

\* The page's loads, calls and disabled buttons are well-typed for any jobs and any number
\* of overlapping loads (useMediaPageController).
THEOREM BoardTypeCorrect == MediaSpec => []MediaTypeOK
  BY MountedBoard, StepKeepsBoard, PTL DEF MediaSpec, MediaInit

-----------------------------------------------------------------------------
(* The types of the console. *)

LEMMA ConsoleKeepsBoard == MediaTypeOK /\ [ConsoleNext]_console => MediaTypeOK'
  <1> SUFFICES ASSUME MediaTypeOK, [ConsoleNext]_console PROVE MediaTypeOK'
    OBVIOUS
  <1>1. ASSUME MediaFollows PROVE MediaTypeOK'
    <2>1. CASE Opens("mediaGeneration")
      <3>1. ~Closes("mediaGeneration")
        BY <2>1 DEF Opens, Closes
      <3> QED
        BY <1>1, <2>1, <3>1 DEF MediaFollows, MediaTypeOK
    <2>2. CASE Closes("mediaGeneration")
      <3>1. ~Opens("mediaGeneration")
        BY <2>2 DEF Opens, Closes
      <3>2. jobs' \in Boards /\ MediaMounted'
        BY <1>1, <2>2, <3>1, NoJobsIsBoard DEF MediaFollows, MediaMounted, NoJobs, LoadFor, Unserved
      <3> QED BY <3>2, MountedBoardNext
    <2>3. CASE ~Opens("mediaGeneration") /\ ~Closes("mediaGeneration")
      BY <1>1, <2>3 DEF MediaFollows, media, MediaTypeOK
    <2> QED BY <2>1, <2>2, <2>3
  <1>2. CASE SessionEvent \/ SessionStep
    BY <1>1, <1>2 DEF SessionEvent, SessionStep, PagesFollow
  <1>3. CASE MediaEvent \/ MediaStep
    <2>1. MediaNext
      BY <1>3 DEF MediaEvent, MediaStep, InMedia, MediaNext
    <2> QED BY <2>1, StepKeepsBoard
  <1>4. CASE ChatEvent \/ ChatStep \/ KnowledgeEvent \/ KnowledgeStep \/ UNCHANGED console
    <2>1. UNCHANGED media
      BY <1>4 DEF ChatEvent, ChatStep, InChat, KnowledgeEvent, KnowledgeStep, InKnowledge, console
    <2> QED BY <2>1, StepKeepsBoard
  <1> QED
    BY <1>2, <1>3, <1>4 DEF ConsoleNext

\* What KnowledgeTypeOK says beyond the panel and the bases it is asked for.
HandlersTypeOK ==
    /\ baseLoads \in Nat /\ selectedBaseId \in Bases \cup {NoBase}
    /\ deleting \in SUBSET Bases /\ creatingBase \in BOOLEAN

LEMMA KnowledgeKeepsHandlers ==
    ASSUME AsksForBases, HandlersTypeOK, KnowledgeRead \/ KnowledgeWrite \/ KnowledgeAnswer
    PROVE  HandlersTypeOK'
  <1> USE DEF HandlersTypeOK, AsksForBases
  <1>1. CASE KnowledgeRead
    BY <1>1 DEF KnowledgeRead, RefetchBases, RefetchDocuments, SelectBase, Render, selection, actions
  <1>2. CASE KnowledgeWrite
    BY <1>2 DEF KnowledgeWrite, StartDocumentAction, CreateBase, DeleteBase, selection
  <1>3. CASE BasesAnswer
    BY <1>3, SelectedIsBase DEF BasesAnswer, RenderList, Render, actions
  <1>4. CASE DocumentsAnswer
    BY <1>4 DEF DocumentsAnswer, actions
  <1>5. CASE CreateBaseAnswers
    <2>1. creatingBase' = FALSE /\ UNCHANGED deleting
      BY <1>5 DEF CreateBaseAnswers
    <2>2. baseLoads' \in Nat
      BY <1>5 DEF CreateBaseAnswers
    <2>3. selectedBaseId' \in Bases \cup {NoBase}
      <3>1. CASE UNCHANGED selection
        BY <3>1 DEF selection
      <3>2. ASSUME NEW b \in Bases, Render(baseList, b) \/ Render({}, NoBase)
            PROVE  selectedBaseId' \in Bases \cup {NoBase}
        BY <3>2 DEF Render
      <3> QED BY <1>5, <3>1, <3>2 DEF CreateBaseAnswers
    <2> QED BY <2>1, <2>2, <2>3
  <1>6. ASSUME NEW b \in working, DocumentActionAnswers(b) PROVE HandlersTypeOK'
    BY <1>6 DEF DocumentActionAnswers
  <1>7. ASSUME NEW b \in deleting, DeleteBaseAnswers(b) PROVE HandlersTypeOK'
    BY <1>7 DEF DeleteBaseAnswers, Render, selection
  <1> QED
    BY <1>1, <1>2, <1>3, <1>4, <1>5, <1>6, <1>7 DEF KnowledgeAnswer

LEMMA ConsoleKeepsHandlers ==
    PageInv /\ HandlersTypeOK /\ [ConsoleNext]_console => HandlersTypeOK'
  <1> SUFFICES ASSUME AsksForBases, HandlersTypeOK, [ConsoleNext]_console PROVE HandlersTypeOK'
    BY DEF PageInv
  <1>1. ASSUME UNCHANGED <<baseLoads, selection, actions>> PROVE HandlersTypeOK'
    BY <1>1 DEF selection, actions, HandlersTypeOK
  <1>2. ASSUME KnowledgeFollows PROVE HandlersTypeOK'
    <2>1. ~(Opens("knowledgeBases") /\ Closes("knowledgeBases"))
      BY DEF Opens, Closes
    <2>2. CASE Closes("knowledgeBases")
      <3>1. baseLoads' = 1 /\ selectedBaseId' = NoBase /\ creatingBase' = FALSE /\ deleting' = {}
        BY <1>2, <2>1, <2>2 DEF KnowledgeFollows
      <3> QED BY <3>1 DEF HandlersTypeOK
    <2>3. CASE ~Closes("knowledgeBases")
      <3>1. UNCHANGED <<baseLoads, selection, actions>>
        BY <1>2, <2>3 DEF KnowledgeFollows, knowledge
      <3> QED BY <1>1, <3>1
    <2> QED BY <2>2, <2>3
  <1>3. CASE SessionEvent \/ SessionStep
    BY <1>2, <1>3 DEF SessionEvent, SessionStep, PagesFollow
  <1>4. CASE KnowledgeEvent \/ KnowledgeStep
    BY <1>4, KnowledgeKeepsHandlers DEF KnowledgeEvent, KnowledgeStep, InKnowledge
  <1>5. CASE ChatEvent \/ ChatStep \/ MediaEvent \/ MediaStep \/ UNCHANGED console
    <2>1. UNCHANGED knowledge
      BY <1>5 DEF ChatEvent, ChatStep, InChat, MediaEvent, MediaStep, InMedia, console
    <2> QED
      BY <1>1, <2>1 DEF knowledge
  <1> QED
    BY <1>3, <1>4, <1>5 DEF ConsoleNext

LEMMA EventsAreCounted ==
    ASSUME events \in 0 .. MaxEvents, [ConsoleNext]_console PROVE events' \in 0 .. MaxEvents
  <1>1. Spend \/ UNCHANGED events
    BY DEF ConsoleNext, SessionEvent, ChatEvent, KnowledgeEvent, MediaEvent, SessionStep,
           ChatStep, KnowledgeStep, MediaStep, Free, console
  <1> QED
    BY <1>1, EventsAssumption DEF Spend

\* The whole console is well-typed, whichever pages are mounted and left, for any accounts,
\* conversations, bases, jobs and number of events: what App displays and remembers exists,
\* and no page that comes back finds the remains of an earlier visit.
THEOREM ConsoleTypeCorrect == ConsoleSpec => []ConsoleTypeOK
  <1> DEFINE Rest == MediaTypeOK /\ HandlersTypeOK /\ events \in 0 .. MaxEvents
  <1>1. ConsoleInit => Rest
    <2> SUFFICES ASSUME ConsoleInit PROVE Rest
      OBVIOUS
    <2>1. MediaTypeOK
      BY MountedBoard, NoJobsIsBoard DEF ConsoleInit
    <2>2. HandlersTypeOK
      BY DEF ConsoleInit, KnowledgeMounted, HandlersTypeOK
    <2>3. events \in 0 .. MaxEvents
      BY EventsAssumption DEF ConsoleInit
    <2> QED BY <2>1, <2>2, <2>3
  <1>2. PageInv /\ Rest /\ [ConsoleNext]_console => Rest'
    BY ConsoleKeepsBoard, ConsoleKeepsHandlers, EventsAreCounted
  <1>3. ConsoleSpec => []Rest
    BY <1>1, <1>2, ConsolePageInvariant, PTL DEF ConsoleSpec
  <1>4. SessionTypeOK /\ ChatHolds /\ PageInv /\ Rest => ConsoleTypeOK
    BY DEF ConsoleTypeOK, ChatHolds, ChatInv, PageInv, IndInv, AsksForBases, KnowledgeTypeOK,
           HandlersTypeOK
  <1> QED
    BY <1>3, <1>4, ConsoleRunsSession, SessionTypeCorrect, ConsoleStartsChat, ConsoleKeepsChat,
       ConsolePageInvariant, PTL DEF ConsoleSpec
=============================================================================
