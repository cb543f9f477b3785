---------------------------- MODULE EmployeeDesk ----------------------------
(***************************************************************************)
(* The page of the digital employees: its controller                        *)
(* useDigitalEmployeesController around the hook useChatConsole.  Here the  *)
(* employee is chosen first, and an effect makes the open conversation      *)
(* follow.  To send, the page may have to open a conversation; until that   *)
(* is answered it is not "sending", so calls overlap.                       *)
(*                                                                          *)
(* Of what is displayed the model keeps whose saved transcript it is.       *)
(***************************************************************************)
CONSTANTS
    Employees,      \* agent instances
    Categories,     \* filters of the list of employees, without "all"
    CategoryOf,     \* categoryForEmployee
    Runnable,       \* the employees that are configured
    Conversations,  \* chat sessions
    AgentOf,        \* agent_id of each; generic ones have none
    Calls,          \* calls that may be in flight together
    None

ASSUME DeskAssumption ==
    /\ None \notin Employees /\ None \notin Conversations /\ "all" \notin Categories
    /\ CategoryOf \in [Employees -> Categories] /\ Runnable \subseteq Employees
    /\ AgentOf \in [Conversations -> Employees \cup {None}]

VARIABLES
    activeEmployees,  \* agentInstances of the hook
    loadingEmployees,
    selectedId,       \* selectedEmployeeId, perhaps of an earlier visit
    activeCategory,
    existing,         \* the backend: the user's chat sessions
    listed,           \* sessions.data
    listing,          \* loadSessions of the mount is in flight
    activeSession,
    load,             \* the session of the effect's load that is not cancelled
    shown,            \* the session whose saved transcript is displayed
    sending,
    calls,            \* calls of startConversation and of send
    switched          \* history: another conversation is open than one being sent to

choice == <<activeEmployees, loadingEmployees, selectedId, activeCategory>>
lists == <<existing, listed, listing>>
display == <<activeSession, load, shown, switched>>
desk == <<choice, lists, display, sending, calls>>

Session == Conversations \cup {None}

NoCall == [phase |-> "idle", message |-> FALSE, employee |-> None,
           session |-> None, origin |-> None, refused |-> FALSE]

Phases == {"idle", "opening", "ensuring", "streaming", "refetching", "listing"}

DeskTypeOK ==
    /\ activeEmployees \subseteq Employees /\ loadingEmployees \in BOOLEAN
    /\ selectedId \in Employees \cup {None} /\ activeCategory \in Categories \cup {"all"}
    /\ listed \subseteq existing /\ existing \subseteq Conversations /\ listing \in BOOLEAN
    /\ {activeSession, load, shown} \subseteq Session
    /\ sending \in BOOLEAN /\ switched \in BOOLEAN
    /\ calls \in [Calls -> [phase : Phases, message : BOOLEAN, employee : Employees \cup {None},
                            session : Session, origin : Session, refused : BOOLEAN]]
    /\ \A k \in Calls : calls[k].phase # "idle" => calls[k].employee # None

DeskInit ==
    /\ activeEmployees = {} /\ loadingEmployees = TRUE
    /\ selectedId \in Employees \cup {None} /\ activeCategory = "all"
    /\ existing \in SUBSET Conversations /\ listed = {} /\ listing = TRUE
    /\ activeSession = None /\ load = None /\ shown = None /\ switched = FALSE
    /\ sending = FALSE /\ calls = [k \in Calls |-> NoCall]

-----------------------------------------------------------------------------
(* Who is selected. *)

Agent(c) == IF c = None THEN None ELSE AgentOf[c]

VisibleEmployees ==
    {e \in activeEmployees : activeCategory \in {"all", CategoryOf[e]}}

\* The order of a list does not change.
FirstOf(S) == CHOOSE e \in S : TRUE

SelectedEmployee ==
    CASE selectedId \in VisibleEmployees -> selectedId
      [] selectedId \notin VisibleEmployees /\ Agent(activeSession) \in VisibleEmployees
            -> Agent(activeSession)
      [] OTHER -> IF VisibleEmployees # {} THEN FirstOf(VisibleEmployees)
                  ELSE IF activeEmployees # {} THEN FirstOf(activeEmployees) ELSE None

SessionsOf(e) == {c \in listed : AgentOf[c] = e}

-----------------------------------------------------------------------------
(* The open conversation. *)

Live(k) == calls[k].phase \in {"streaming", "refetching"}

\* Variant: the load that is under way is not cancelled.
Activate_KeepsLoad(c) ==
    /\ activeSession' = c /\ load' = (IF load = None THEN c ELSE load)
    /\ switched' = \E k \in Calls : Live(k) /\ calls[k].session # c

\* Opening a conversation cancels the load of the one before and starts its own.
Activate(c) ==
    /\ activeSession' = c /\ load' = c
    /\ switched' = \E k \in Calls : Live(k) /\ calls[k].session # c

\* The effect that makes the conversation follow the employee has something to do.
Following ==
    /\ SelectedEmployee # None /\ Agent(activeSession) # SelectedEmployee
    /\ SessionsOf(SelectedEmployee) # {} \/ activeSession # None

\* Variant: the first conversation of the list is opened, whosever it is.
FollowSelection_AnyOfList ==
    /\ Following
    /\ IF SessionsOf(SelectedEmployee) = {}
       THEN Activate(None) /\ shown' = None
       ELSE \E c \in listed : Activate(c) /\ UNCHANGED shown
    /\ UNCHANGED <<choice, lists, sending, calls>>

FollowSelection ==
    /\ Following
    /\ IF SessionsOf(SelectedEmployee) = {}
       THEN Activate(None) /\ shown' = None
       ELSE \E c \in SessionsOf(SelectedEmployee) : Activate(c) /\ UNCHANGED shown
    /\ UNCHANGED <<choice, lists, sending, calls>>

\* A load that fails empties the display.
LoadAnswers ==
    /\ load # None /\ load' = None /\ shown' \in {load, None}
    /\ UNCHANGED <<choice, lists, activeSession, switched, sending, calls>>

\* loadSessions: the first conversation is opened unless one is open.
ListSessions ==
    \/ /\ listed' = existing
       /\ IF activeSession = None /\ existing # {}
          THEN \E c \in existing : Activate(c) /\ UNCHANGED shown
          ELSE UNCHANGED display
    \/ listed' = {} /\ UNCHANGED display

ListingAnswers ==
    /\ listing /\ listing' = FALSE /\ ListSessions
    /\ UNCHANGED <<choice, existing, sending, calls>>

EmployeesAnswer ==
    /\ loadingEmployees /\ loadingEmployees' = FALSE
    /\ activeEmployees' \in SUBSET Employees
    /\ UNCHANGED <<selectedId, activeCategory, lists, display, sending, calls>>

-----------------------------------------------------------------------------
(* What the user does.  The effects of a render run before the next event. *)

RefetchEmployees ==
    /\ ~Following /\ ~loadingEmployees /\ activeEmployees = {} /\ loadingEmployees' = TRUE
    /\ UNCHANGED <<activeEmployees, selectedId, activeCategory, lists, display, sending, calls>>

SelectEmployee(e) ==
    /\ ~Following /\ e \in VisibleEmployees /\ selectedId' = e
    /\ UNCHANGED <<activeEmployees, loadingEmployees, activeCategory, lists, display, sending, calls>>

\* The event "agenthive:selected-agent" of the frame around the page.
SelectedAgent(e) ==
    /\ ~Following /\ selectedId' = e /\ activeCategory' = "all"
    /\ UNCHANGED <<activeEmployees, loadingEmployees, lists, display, sending, calls>>

SetActiveCategory(c) ==
    /\ ~Following /\ activeCategory' = c
    /\ UNCHANGED <<activeEmployees, loadingEmployees, selectedId, lists, display, sending, calls>>

SelectSession(c) ==
    /\ ~Following /\ c \in SessionsOf(SelectedEmployee) /\ Activate(c)
    /\ UNCHANGED <<choice, lists, shown, sending, calls>>

\* startConversation selects the employee and asks for a conversation.
StartConversation(k, message) ==
    /\ selectedId' = SelectedEmployee
    /\ calls' = [calls EXCEPT ![k] = [NoCall EXCEPT !.phase = "opening", !.message = message,
                     !.employee = SelectedEmployee, !.origin = activeSession]]
    /\ UNCHANGED <<activeEmployees, loadingEmployees, activeCategory, lists, display, sending>>

NewTask(k) ==
    /\ ~Following /\ calls[k] = NoCall /\ SelectedEmployee # None
    /\ StartConversation(k, FALSE)

Send(k) ==
    /\ ~Following /\ calls[k] = NoCall /\ SelectedEmployee \in Runnable /\ ~sending
    /\ IF Agent(activeSession) = SelectedEmployee
       THEN /\ sending' = TRUE
            /\ calls' = [calls EXCEPT ![k] = [NoCall EXCEPT !.phase = "streaming", !.message = TRUE,
                             !.employee = SelectedEmployee, !.session = activeSession]]
            /\ UNCHANGED <<choice, lists, display>>
       ELSE StartConversation(k, TRUE)

-----------------------------------------------------------------------------
(* What is answered. *)

\* A new conversation is listed and opened, and the call goes on with it.
Created(k, c, next) ==
    /\ c \notin existing
    /\ existing' = existing \cup {c} /\ listed' = listed \cup {c}
    /\ activeSession' = c /\ load' = c /\ calls' = [calls EXCEPT ![k] = next]
    /\ switched' = \E j \in Calls \ {k} : Live(j) /\ calls[j].session # c

\* Variant: a message whose conversation was opened goes to the one open before.
Opened_GoesToOrigin(k) ==
    /\ calls[k].phase = "opening"
    /\ \E c \in Conversations :
          /\ AgentOf[c] = calls[k].employee /\ shown' = None
          /\ Created(k, c, IF calls[k].message
                           THEN [calls[k] EXCEPT !.phase = "streaming",
                                 !.session = IF activeSession = None THEN c ELSE activeSession]
                           ELSE NoCall)
    /\ sending' = (sending \/ calls[k].message)
    /\ UNCHANGED <<choice, listing>>

Opened(k) ==
    /\ calls[k].phase = "opening"
    /\ \E c \in Conversations :
          /\ AgentOf[c] = calls[k].employee /\ shown' = None
          /\ Created(k, c, IF calls[k].message
                           THEN [calls[k] EXCEPT !.phase = "streaming", !.session = c]
                           ELSE NoCall)
    /\ sending' = (sending \/ calls[k].message)
    /\ UNCHANGED <<choice, listing>>

\* createSession returns null, and sendMessage goes on without a session: with the
\* one its closure has, or with one that ensureSession creates.
OpeningRefused(k) ==
    /\ calls[k].phase = "opening"
    /\ sending' = (sending \/ calls[k].message)
    /\ \/ ~calls[k].message /\ calls' = [calls EXCEPT ![k] = NoCall]
       \/ /\ calls[k].message /\ calls[k].origin = None
          /\ calls' = [calls EXCEPT ![k].phase = "ensuring", ![k].refused = TRUE]
       \/ /\ calls[k].message /\ calls[k].origin # None
          /\ calls' = [calls EXCEPT ![k].phase = "streaming", ![k].refused = TRUE,
                                    ![k].session = calls[k].origin]
    /\ switched' = (switched \/ (calls[k].message /\ calls[k].origin \notin {None, activeSession}))
    /\ UNCHANGED <<choice, lists, activeSession, load, shown>>

Done(k) == calls' = [calls EXCEPT ![k] = NoCall] /\ sending' = FALSE

Goto(k, phase) == calls' = [calls EXCEPT ![k].phase = phase] /\ UNCHANGED sending

\* Variant: a refused conversation leaves the page sending.
Ensured_StillSending(k) ==
    /\ calls[k].phase = "ensuring"
    /\ \/ /\ \E c \in Conversations :
                /\ AgentOf[c] = None
                /\ Created(k, c, [calls[k] EXCEPT !.phase = "streaming", !.session = c])
          /\ UNCHANGED <<choice, listing, shown, sending>>
       \/ calls' = [calls EXCEPT ![k] = NoCall] /\ UNCHANGED <<choice, lists, display, sending>>

\* ensureSession: the conversation it creates belongs to no employee.
Ensured(k) ==
    /\ calls[k].phase = "ensuring"
    /\ \/ /\ \E c \in Conversations :
                /\ AgentOf[c] = None
                /\ Created(k, c, [calls[k] EXCEPT !.phase = "streaming", !.session = c])
          /\ UNCHANGED <<choice, listing, shown, sending>>
       \/ Done(k) /\ UNCHANGED <<choice, lists, display>>

StreamEnds(k) ==
    /\ calls[k].phase = "streaming"
    /\ Goto(k, "refetching") \/ Done(k)
    /\ UNCHANGED <<choice, lists, display>>

\* The saved transcript of the message's conversation is displayed, whichever is open.
Refetched(k) ==
    /\ calls[k].phase = "refetching"
    /\ \/ shown' = calls[k].session /\ Goto(k, "listing")
       \/ UNCHANGED shown /\ Done(k)
    /\ UNCHANGED <<choice, lists, activeSession, load, switched>>

Relisted(k) ==
    /\ calls[k].phase = "listing" /\ ListSessions /\ Done(k)
    /\ UNCHANGED <<choice, existing, listing>>

-----------------------------------------------------------------------------
Command ==
    \/ RefetchEmployees
    \/ \E e \in Employees : SelectEmployee(e) \/ SelectedAgent(e)
    \/ \E c \in Categories \cup {"all"} : SetActiveCategory(c)
    \/ \E c \in listed : SelectSession(c)
    \/ \E k \in Calls : NewTask(k) \/ Send(k)

CallAnswers(k) == Opened(k) \/ OpeningRefused(k) \/ Ensured(k) \/ Refetched(k) \/ Relisted(k)

Answer == ListingAnswers \/ EmployeesAnswer \/ LoadAnswers \/ \E k \in Calls : CallAnswers(k)

DeskNext == Command \/ FollowSelection \/ Answer \/ \E k \in Calls : StreamEnds(k)

DeskSpec == DeskInit /\ [][DeskNext]_desk

-----------------------------------------------------------------------------
\* A message written for one employee never reaches another: it goes to a conversation
\* of that employee or, if opening one was refused, to one that is nobody's, whoever
\* was selected and whatever was opened, listed or refused in between.
RightEmployee ==
    \A k \in Calls : LET c == calls[k].session IN
        c # None => Agent(c) = calls[k].employee \/ (Agent(c) = None /\ calls[k].refused)

\* When the effects have run and the load has ended, the transcript beside an employee
\* is one of that employee's, unless the conversation was left while a message was
\* being sent to it, whose transcript is then displayed.
TranscriptIsEmployees ==
    ~Following /\ load = None /\ ~switched /\ SelectedEmployee # None /\ shown # None
        => Agent(shown) = SelectedEmployee

\* The selection, which looks at the open conversation, and the effect that opens the
\* conversation of the selection do not chase each other: the effect has nothing left
\* to do when it has run.
FollowsAtOnce == [][FollowSelection => ~Following']_desk

\* The page is "sending" only on behalf of a message still on its way, whichever of the
\* overlapping ones set and cleared the flag; a refusal does not leave it set, which
\* would lock the page, for it has no button to stop.
SendingIsSomeones ==
    sending => \E k \in Calls :
                  calls[k].message /\ calls[k].phase \in {"ensuring", "streaming", "refetching", "listing"}
=============================================================================
