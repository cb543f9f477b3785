------------------------ MODULE EmployeeDesk_proofs ------------------------
(***************************************************************************)
(* Proofs about the page of the digital employees, for any employees,       *)
(* conversations and number of overlapping calls.  A call that is refused a *)
(* conversation goes on with the one its closure has (origin); RightEmployee *)
(* rests on the effect that runs before the click: a call that had to open  *)
(* a conversation found none open.                                          *)
(***************************************************************************)
EXTENDS EmployeeDesk, TLAPS

\* What a call knows in each of its phases.
CallsKnow ==
    \A k \in Calls : LET call == calls[k] IN
        /\ call.phase = "opening" => call.session = None
        /\ call.phase = "opening" /\ call.message => call.origin = None
        /\ call.phase = "ensuring" => call.session = None /\ call.refused = TRUE

DeskInv == DeskTypeOK /\ CallsKnow /\ RightEmployee

CallRecord == [phase : Phases, message : BOOLEAN, employee : Employees \cup {None},
               session : Session, origin : Session, refused : BOOLEAN]

\* What DeskInv says of one call.
GoodCall(call) ==
    /\ call \in CallRecord
    /\ call.phase # "idle" => call.employee # None
    /\ call.phase = "opening" => call.session = None
    /\ call.phase = "opening" /\ call.message => call.origin = None
    /\ call.phase = "ensuring" => call.session = None /\ call.refused = TRUE
    /\ call.session # None =>
          Agent(call.session) = call.employee \/ (Agent(call.session) = None /\ call.refused)

\* What DeskTypeOK says of the rest.
RestTypeOK ==
    /\ activeEmployees \subseteq Employees /\ loadingEmployees \in BOOLEAN
    /\ selectedId \in Employees \cup {None} /\ activeCategory \in Categories \cup {"all"}
    /\ listed \subseteq existing /\ existing \subseteq Conversations /\ listing \in BOOLEAN
    /\ {activeSession, load, shown} \subseteq Session
    /\ sending \in BOOLEAN /\ switched \in BOOLEAN

CallsGood == calls \in [Calls -> CallRecord] /\ \A k \in Calls : GoodCall(calls[k])

LEMMA InvByParts == DeskInv <=> RestTypeOK /\ CallsGood
  BY DEF DeskInv, DeskTypeOK, CallsKnow, RightEmployee, RestTypeOK, CallsGood, GoodCall, CallRecord

LEMMA NoCallIsGood == GoodCall(NoCall)
  BY DEF GoodCall, NoCall, CallRecord, Phases, Session

\* A step that changes one call, to a good one, keeps the calls good.
LEMMA OneCall ==
    ASSUME CallsGood, NEW k \in Calls, NEW call, GoodCall(call),
           calls' = [calls EXCEPT ![k] = call]
    PROVE  CallsGood'
  <1>1. call \in CallRecord
    BY DEF GoodCall
  <1>2. calls' \in [Calls -> CallRecord]
    BY <1>1 DEF CallsGood
  <1>3. \A j \in Calls : calls'[j] = IF j = k THEN call ELSE calls[j]
    BY DEF CallsGood
  <1>4. \A j \in Calls : GoodCall(calls'[j])
    BY <1>3 DEF CallsGood
  <1>5. \A c : GoodCall(c) <=> GoodCall(c)'
    BY DEF GoodCall, Agent
  <1> QED
    BY <1>2, <1>4, <1>5 DEF CallsGood, GoodCall, Agent

LEMMA SameCalls == CallsGood /\ UNCHANGED calls => CallsGood'
  BY DEF CallsGood, GoodCall, Agent

LEMMA DeskStarts == DeskInit => DeskInv
  <1> SUFFICES ASSUME DeskInit PROVE RestTypeOK /\ CallsGood
    BY InvByParts
  <1>1. RestTypeOK
    BY DEF DeskInit, RestTypeOK, Session
  <1>2. NoCall \in CallRecord
    BY NoCallIsGood DEF GoodCall
  <1>3. CallsGood
    BY <1>2, NoCallIsGood DEF DeskInit, CallsGood
  <1> QED BY <1>1, <1>3

-----------------------------------------------------------------------------
\* The selected employee is listed.
LEMMA SelectedIsListed ==
    ASSUME RestTypeOK PROVE SelectedEmployee \in Employees \cup {None}
  <1>1. VisibleEmployees \subseteq activeEmployees
    BY DEF VisibleEmployees
  <1>2. \A S : S # {} => FirstOf(S) \in S
    BY DEF FirstOf
  <1>3. CASE selectedId \in VisibleEmployees
    BY <1>1, <1>3 DEF SelectedEmployee, RestTypeOK
  <1>4. CASE selectedId \notin VisibleEmployees /\ Agent(activeSession) \in VisibleEmployees
    BY <1>1, <1>4 DEF SelectedEmployee, RestTypeOK
  <1>5. CASE selectedId \notin VisibleEmployees /\ Agent(activeSession) \notin VisibleEmployees
    <2> DEFINE v == FirstOf(VisibleEmployees)
    <2> DEFINE a == FirstOf(activeEmployees)
    <2>1. SelectedEmployee = IF VisibleEmployees # {} THEN v
                             ELSE IF activeEmployees # {} THEN a ELSE None
      BY <1>5 DEF SelectedEmployee
    <2>2. VisibleEmployees # {} => v \in VisibleEmployees
      BY <1>2
    <2>3. activeEmployees # {} => a \in activeEmployees
      BY <1>2
    <2> HIDE DEF v, a
    <2> QED
      BY <1>1, <2>1, <2>2, <2>3 DEF RestTypeOK
  <1> QED BY <1>3, <1>4, <1>5

LEMMA OpeningKeepsType ==
    ASSUME RestTypeOK, NEW c \in Session, Activate(c)
    PROVE  activeSession' \in Session /\ load' \in Session /\ switched' \in BOOLEAN
  BY DEF Activate

LEMMA ListingKeepsType ==
    ASSUME RestTypeOK, ListSessions, UNCHANGED existing
    PROVE  /\ listed' \subseteq existing' /\ shown' \in Session
           /\ activeSession' \in Session /\ load' \in Session /\ switched' \in BOOLEAN
  <1>1. CASE UNCHANGED display
    BY <1>1 DEF ListSessions, display, RestTypeOK
  <1>2. ASSUME NEW c \in existing, listed' = existing, Activate(c), UNCHANGED shown
        PROVE  /\ listed' \subseteq existing' /\ shown' \in Session
               /\ activeSession' \in Session /\ load' \in Session /\ switched' \in BOOLEAN
    <2>1. c \in Session
      BY DEF RestTypeOK, Session
    <2> QED BY <1>2, <2>1, OpeningKeepsType DEF RestTypeOK
  <1> QED BY <1>1, <1>2 DEF ListSessions

\* Steps that leave the calls alone.
LEMMA PageKeepsDesk ==
    ASSUME RestTypeOK, CallsGood,
           \/ FollowSelection \/ LoadAnswers \/ ListingAnswers \/ EmployeesAnswer
           \/ RefetchEmployees
           \/ \E e \in Employees : SelectEmployee(e) \/ SelectedAgent(e)
           \/ \E c \in Categories \cup {"all"} : SetActiveCategory(c)
           \/ \E c \in listed : SelectSession(c)
    PROVE  RestTypeOK' /\ CallsGood'
  <1> USE DEF choice, lists, display
  <1>1. CASE FollowSelection
    <2>1. None \in Session /\ SessionsOf(SelectedEmployee) \subseteq Session
      BY DEF Session, SessionsOf, RestTypeOK
    <2>2. /\ activeSession' \in Session /\ load' \in Session
          /\ switched' \in BOOLEAN /\ shown' \in Session
      BY <1>1, <2>1, OpeningKeepsType DEF FollowSelection, RestTypeOK
    <2>3. UNCHANGED <<choice, lists, sending, calls>>
      BY <1>1 DEF FollowSelection
    <2> QED BY <2>2, <2>3, SameCalls DEF RestTypeOK
  <1>2. CASE LoadAnswers
    BY <1>2, SameCalls DEF LoadAnswers, RestTypeOK, Session
  <1>3. CASE ListingAnswers
    <2>1. UNCHANGED <<choice, existing, sending, calls>> /\ listing' = FALSE /\ ListSessions
      BY <1>3 DEF ListingAnswers
    <2> QED BY <2>1, ListingKeepsType, SameCalls DEF RestTypeOK
  <1>4. CASE EmployeesAnswer
    BY <1>4, SameCalls DEF EmployeesAnswer, RestTypeOK
  <1>5. CASE RefetchEmployees
    BY <1>5, SameCalls DEF RefetchEmployees, RestTypeOK
  <1>6. ASSUME NEW e \in Employees, SelectEmployee(e) \/ SelectedAgent(e)
        PROVE  RestTypeOK' /\ CallsGood'
    BY <1>6, SameCalls DEF SelectEmployee, SelectedAgent, RestTypeOK
  <1>7. ASSUME NEW c \in Categories \cup {"all"}, SetActiveCategory(c)
        PROVE  RestTypeOK' /\ CallsGood'
    BY <1>7, SameCalls DEF SetActiveCategory, RestTypeOK
  <1>8. ASSUME NEW c \in listed, SelectSession(c)
        PROVE  RestTypeOK' /\ CallsGood'
    <2>1. c \in Session
      BY DEF RestTypeOK, Session
    <2>2. UNCHANGED <<choice, lists, shown, sending, calls>> /\ Activate(c)
      BY <1>8 DEF SelectSession
    <2> QED BY <2>1, <2>2, OpeningKeepsType, SameCalls DEF RestTypeOK
  <1> QED
    BY <1>1, <1>2, <1>3, <1>4, <1>5, <1>6, <1>7, <1>8

-----------------------------------------------------------------------------
\* A call begins: with the open conversation, or, if that is not the employee's,
\* with none, for then none is open.
LEMMA CommandKeepsCall ==
    ASSUME RestTypeOK, CallsGood, NEW k \in Calls, NewTask(k) \/ Send(k)
    PROVE  RestTypeOK' /\ CallsGood'
  <1> USE DEF choice, lists, display
  <1>1. SelectedEmployee \in Employees
    <2>1. SelectedEmployee # None
      BY DeskAssumption DEF NewTask, Send
    <2> QED BY <2>1, SelectedIsListed
  <1>2. activeSession \in Session
    BY DEF RestTypeOK
  <1>3. ASSUME NEW m \in BOOLEAN, StartConversation(k, m), m => activeSession = None
        PROVE  RestTypeOK' /\ CallsGood'
    <2> DEFINE call == [NoCall EXCEPT !.phase = "opening", !.message = m,
                           !.employee = SelectedEmployee, !.origin = activeSession]
    <2>1. GoodCall(call)
      BY <1>1, <1>2, <1>3, DeskAssumption DEF GoodCall, NoCall, CallRecord, Phases, Session
    <2>2. calls' = [calls EXCEPT ![k] = call]
      BY <1>3 DEF StartConversation
    <2> HIDE DEF call
    <2>3. CallsGood'
      BY <2>1, <2>2, OneCall
    <2>4. RestTypeOK'
      BY <1>1, <1>3 DEF StartConversation, RestTypeOK
    <2> QED BY <2>3, <2>4
  <1>4. CASE NewTask(k)
    BY <1>3, <1>4 DEF NewTask
  <1>5. CASE Send(k) /\ Agent(activeSession) # SelectedEmployee
    <2>1. activeSession = None /\ StartConversation(k, TRUE)
      BY <1>1, <1>5, DeskAssumption DEF Send, Following
    <2> QED BY <1>3, <2>1
  <1>6. CASE Send(k) /\ Agent(activeSession) = SelectedEmployee
    <2> DEFINE call == [NoCall EXCEPT !.phase = "streaming", !.message = TRUE,
                           !.employee = SelectedEmployee, !.session = activeSession]
    <2>1. GoodCall(call)
      BY <1>1, <1>2, <1>6, DeskAssumption DEF GoodCall, NoCall, CallRecord, Phases, Session
    <2>2. /\ calls' = [calls EXCEPT ![k] = call] /\ sending' = TRUE
          /\ UNCHANGED <<choice, lists, display>>
      BY <1>6 DEF Send
    <2> HIDE DEF call
    <2> QED BY <2>1, <2>2, OneCall DEF RestTypeOK
  <1> QED BY <1>4, <1>5, <1>6

\* A conversation is created for a call that goes on with it.
LEMMA CreatedKeepsCall ==
    ASSUME RestTypeOK, CallsGood, NEW k \in Calls, NEW c \in Conversations, NEW next,
           GoodCall(next), Created(k, c, next), UNCHANGED <<choice, listing>>,
           shown' \in Session, sending' \in BOOLEAN
    PROVE  RestTypeOK' /\ CallsGood'
  <1>1. CallsGood'
    BY OneCall DEF Created
  <1>2. /\ existing' = existing \cup {c} /\ listed' = listed \cup {c}
        /\ activeSession' = c /\ load' = c /\ switched' \in BOOLEAN
    BY DEF Created
  <1>3. c \in Session
    BY DEF Session
  <1> QED BY <1>1, <1>2, <1>3 DEF RestTypeOK, choice

LEMMA OpeningKeepsCall ==
    ASSUME RestTypeOK, CallsGood, NEW k \in Calls, Opened(k) \/ OpeningRefused(k)
    PROVE  RestTypeOK' /\ CallsGood'
  <1> DEFINE call == calls[k]
  <1>1. GoodCall(call) /\ call.phase = "opening"
    BY DEF CallsGood, Opened, OpeningRefused
  <1>2. /\ call \in CallRecord /\ call.session = None /\ call.employee \in Employees
        /\ call.message => call.origin = None
    BY <1>1 DEF GoodCall, CallRecord
  <1>3. CASE Opened(k)
    <2>1. PICK c \in Conversations :
             /\ AgentOf[c] = call.employee /\ shown' = None
             /\ Created(k, c, IF call.message
                              THEN [call EXCEPT !.phase = "streaming", !.session = c]
                              ELSE NoCall)
      BY <1>3 DEF Opened
    <2> DEFINE went == [call EXCEPT !.phase = "streaming", !.session = c]
    <2>2. c \in Session /\ c # None
      BY DeskAssumption DEF Session
    <2>3. GoodCall(went)
      BY <1>2, <2>1, <2>2, DeskAssumption DEF GoodCall, CallRecord, Phases, Agent
    <2> DEFINE next == IF call.message THEN went ELSE NoCall
    <2>4. GoodCall(next)
      BY <2>3, NoCallIsGood
    <2>5. Created(k, c, next) /\ shown' = None
      BY <2>1
    <2>6. sending' \in BOOLEAN /\ UNCHANGED <<choice, listing>> /\ None \in Session
      BY <1>2, <1>3 DEF Opened, RestTypeOK, CallRecord, Session
    <2> HIDE DEF next, went, call
    <2> QED BY <2>4, <2>5, <2>6, CreatedKeepsCall
  <1>4. CASE OpeningRefused(k)
    <2> DEFINE went == [call EXCEPT !.phase = "ensuring", !.refused = TRUE]
    <2>1. GoodCall(went)
      BY <1>2, DeskAssumption DEF GoodCall, CallRecord, Phases
    <2>2. /\ sending' \in BOOLEAN /\ switched' \in BOOLEAN
          /\ UNCHANGED <<choice, lists, activeSession, load, shown>>
      BY <1>2, <1>4 DEF OpeningRefused, RestTypeOK, CallRecord
    <2>3. RestTypeOK'
      BY <2>2 DEF RestTypeOK, choice, lists
    <2>4. CASE call.message
      <3>1. calls' = [calls EXCEPT ![k] = went]
        BY <1>2, <1>4, <2>4 DEF OpeningRefused
      <3> HIDE DEF went, call
      <3> QED BY <2>1, <2>3, <3>1, OneCall
    <2>5. CASE ~call.message
      <3>1. calls' = [calls EXCEPT ![k] = NoCall]
        BY <1>4, <2>5 DEF OpeningRefused
      <3> QED BY <2>3, <3>1, OneCall, NoCallIsGood
    <2> QED BY <2>4, <2>5
  <1> QED BY <1>3, <1>4

LEMMA AnswerKeepsCall ==
    ASSUME RestTypeOK, CallsGood, NEW k \in Calls,
           Ensured(k) \/ StreamEnds(k) \/ Refetched(k) \/ Relisted(k)
    PROVE  RestTypeOK' /\ CallsGood'
  <1> DEFINE call == calls[k]
  <1> USE DEF choice, lists, display
  <1>0. GoodCall(call) /\ call \in CallRecord /\ call.phase # "idle"
    BY DEF CallsGood, GoodCall, Ensured, StreamEnds, Refetched, Relisted
  <1>1. ASSUME Done(k) PROVE CallsGood' /\ sending' \in BOOLEAN
    BY <1>1, OneCall, NoCallIsGood DEF Done
  <1>2. ASSUME NEW p \in {"refetching", "listing"}, Goto(k, p), call.phase # "ensuring"
        PROVE  CallsGood' /\ sending' \in BOOLEAN
    <2> DEFINE went == [call EXCEPT !.phase = p]
    <2>1. GoodCall(went)
      BY <1>0, <1>2 DEF GoodCall, CallRecord, Phases
    <2>2. calls' = [calls EXCEPT ![k] = went] /\ UNCHANGED sending
      BY <1>2 DEF Goto
    <2> HIDE DEF went
    <2> QED BY <2>1, <2>2, OneCall DEF RestTypeOK
  <1>3. CASE Ensured(k)
    <2>1. ASSUME NEW c \in Conversations, AgentOf[c] = None,
                 Created(k, c, [call EXCEPT !.phase = "streaming", !.session = c]),
                 UNCHANGED <<choice, listing, shown, sending>>
          PROVE  RestTypeOK' /\ CallsGood'
      <3> DEFINE next == [call EXCEPT !.phase = "streaming", !.session = c]
      <3>1. call.phase = "ensuring"
        BY <1>3 DEF Ensured
      <3>2. GoodCall(next)
        BY <1>0, <2>1, <3>1, DeskAssumption DEF GoodCall, CallRecord, Phases, Session, Agent
      <3>3. Created(k, c, next) /\ shown' \in Session /\ sending' \in BOOLEAN
        BY <2>1 DEF RestTypeOK
      <3> HIDE DEF next
      <3> QED BY <2>1, <3>2, <3>3, CreatedKeepsCall
    <2>2. CASE Done(k) /\ UNCHANGED <<choice, lists, display>>
      BY <1>1, <2>2 DEF RestTypeOK
    <2> QED BY <1>3, <2>1, <2>2 DEF Ensured
  <1>4. CASE StreamEnds(k)
    <2>1. CallsGood' /\ sending' \in BOOLEAN
      BY <1>1, <1>2, <1>4 DEF StreamEnds
    <2> QED BY <1>4, <2>1 DEF StreamEnds, RestTypeOK
  <1>5. CASE Refetched(k)
    <2>1. CallsGood' /\ sending' \in BOOLEAN
      BY <1>1, <1>2, <1>5 DEF Refetched
    <2>2. shown' \in Session
      BY <1>0, <1>5 DEF Refetched, RestTypeOK, CallRecord
    <2> QED BY <1>5, <2>1, <2>2 DEF Refetched, RestTypeOK
  <1>6. CASE Relisted(k)
    <2>1. CallsGood' /\ sending' \in BOOLEAN
      BY <1>1, <1>6 DEF Relisted
    <2>2. ListSessions /\ UNCHANGED <<choice, existing, listing>>
      BY <1>6 DEF Relisted
    <2> QED BY <2>1, <2>2, ListingKeepsType DEF RestTypeOK
  <1> QED BY <1>3, <1>4, <1>5, <1>6

LEMMA StepKeepsDesk == DeskInv /\ [DeskNext]_desk => DeskInv'
  <1> SUFFICES ASSUME RestTypeOK, CallsGood, [DeskNext]_desk PROVE RestTypeOK' /\ CallsGood'
    <2>1. DeskInv' <=> RestTypeOK' /\ CallsGood'
      BY InvByParts, PTL
    <2> QED BY <2>1, InvByParts
  <1>1. CASE UNCHANGED desk
    BY <1>1, SameCalls DEF desk, choice, lists, display, RestTypeOK
  <1>2. CASE Command
    BY <1>2, PageKeepsDesk, CommandKeepsCall DEF Command
  <1>3. CASE FollowSelection
    BY <1>3, PageKeepsDesk
  <1>4. CASE Answer
    BY <1>4, PageKeepsDesk, OpeningKeepsCall, AnswerKeepsCall DEF Answer, CallAnswers
  <1>5. CASE \E k \in Calls : StreamEnds(k)
    BY <1>5, AnswerKeepsCall
  <1> QED
    BY <1>1, <1>2, <1>3, <1>4, <1>5 DEF DeskNext

LEMMA DeskInvariant == DeskSpec => []DeskInv
  BY DeskStarts, StepKeepsDesk, PTL DEF DeskSpec

\* The page's state is well-typed for any number of calls in flight
\* (useDigitalEmployeesController and useChatConsole), and every call has an employee.
THEOREM DeskTypeCorrect == DeskSpec => []DeskTypeOK
  BY DeskInvariant, PTL DEF DeskInv

\* send of useDigitalEmployeesController: whatever is selected, opened or refused
\* while conversations are being opened, a message reaches no other employee.
THEOREM MessagesReachTheirEmployee == DeskSpec => []RightEmployee
  BY DeskInvariant, PTL DEF DeskInv

-----------------------------------------------------------------------------
(* The selection and the open conversation do not chase each other. *)

LEMMA VisibleAreEmployees ==
    ASSUME RestTypeOK
    PROVE  VisibleEmployees \subseteq Employees /\ None \notin VisibleEmployees
  BY DeskAssumption DEF VisibleEmployees, RestTypeOK

\* Who is selected when neither the user's choice nor the open conversation says so.
DefaultEmployee ==
    IF VisibleEmployees # {} THEN FirstOf(VisibleEmployees)
    ELSE IF activeEmployees # {} THEN FirstOf(activeEmployees) ELSE None

LEMMA SelectionCases ==
    SelectedEmployee =
       IF selectedId \in VisibleEmployees THEN selectedId
       ELSE IF Agent(activeSession) \in VisibleEmployees THEN Agent(activeSession)
       ELSE DefaultEmployee
  <1>1. CASE selectedId \in VisibleEmployees
    BY <1>1 DEF SelectedEmployee
  <1>2. CASE selectedId \notin VisibleEmployees /\ Agent(activeSession) \in VisibleEmployees
    BY <1>2 DEF SelectedEmployee
  <1>3. CASE selectedId \notin VisibleEmployees /\ Agent(activeSession) \notin VisibleEmployees
    BY <1>3 DEF SelectedEmployee, DefaultEmployee
  <1> QED BY <1>1, <1>2, <1>3

LEMMA SelectionCasesNext ==
    (SelectedEmployee =
        IF selectedId \in VisibleEmployees THEN selectedId
        ELSE IF Agent(activeSession) \in VisibleEmployees THEN Agent(activeSession)
        ELSE DefaultEmployee)'
  BY SelectionCases, PTL

\* The conversation that is opened for the selected employee leaves the selection as it is.
LEMMA SelectionStays ==
    ASSUME RestTypeOK, Following, UNCHANGED choice,
           Agent(activeSession') \in {SelectedEmployee, None}
    PROVE  SelectedEmployee' = SelectedEmployee
  <1>1. VisibleEmployees' = VisibleEmployees /\ selectedId' = selectedId
    BY DEF choice, VisibleEmployees
  <1>2. DefaultEmployee' = DefaultEmployee
    BY <1>1 DEF choice, DefaultEmployee
  <1>3. SelectedEmployee' =
           IF selectedId' \in VisibleEmployees' THEN selectedId'
           ELSE IF Agent(activeSession') \in VisibleEmployees' THEN Agent(activeSession')
           ELSE DefaultEmployee'
    BY SelectionCasesNext DEF Agent
  <1>4. Agent(activeSession) # SelectedEmployee
    BY DEF Following
  <1>5. CASE selectedId \in VisibleEmployees
    BY <1>1, <1>3, <1>5, SelectionCases
  <1>6. CASE selectedId \notin VisibleEmployees
    <2>1. SelectedEmployee = DefaultEmployee
      BY <1>4, <1>6, SelectionCases
    <2>2. Agent(activeSession') \in VisibleEmployees => Agent(activeSession') = SelectedEmployee
      BY VisibleAreEmployees
    <2> QED
      BY <1>1, <1>2, <1>3, <1>6, <2>1, <2>2
  <1> QED BY <1>5, <1>6

\* When the effect has run it has nothing left to do.
LEMMA FollowingEnds ==
    ASSUME RestTypeOK, FollowSelection
    PROVE  ~Following'
  <1>1. Following /\ UNCHANGED choice /\ UNCHANGED lists
    BY DEF FollowSelection
  <1>2. CASE SessionsOf(SelectedEmployee) = {}
    <2>1. activeSession' = None
      BY <1>2 DEF FollowSelection, Activate
    <2>2. SelectedEmployee' = SelectedEmployee
      BY <1>1, <2>1, SelectionStays DEF Agent
    <2>3. SessionsOf(SelectedEmployee)' = {}
      BY <1>1, <1>2, <2>2 DEF SessionsOf, lists
    <2> QED
      BY <2>1, <2>3 DEF Following
  <1>3. CASE SessionsOf(SelectedEmployee) # {}
    <2>1. PICK c \in SessionsOf(SelectedEmployee) : activeSession' = c
      BY <1>3 DEF FollowSelection, Activate
    <2>2. c # None /\ AgentOf[c] = SelectedEmployee
      BY DeskAssumption DEF SessionsOf, RestTypeOK
    <2>3. Agent(activeSession') = SelectedEmployee
      BY <2>1, <2>2 DEF Agent
    <2>4. SelectedEmployee' = SelectedEmployee
      BY <1>1, <2>3, SelectionStays
    <2> QED
      BY <2>3, <2>4 DEF Following, Agent
  <1> QED BY <1>2, <1>3

\* Opening the conversation of the selected employee does not select another one
\* (the effect of useDigitalEmployeesController), for any employees and conversations.
THEOREM DeskFollowsAtOnce == DeskSpec => FollowsAtOnce
  <1>1. DeskInv => RestTypeOK
    BY InvByParts
  <1>2. DeskInv /\ [DeskNext]_desk => (FollowSelection => ~Following')
    BY <1>1, FollowingEnds
  <1> QED
    BY <1>2, DeskInvariant, PTL DEF DeskSpec, FollowsAtOnce

-----------------------------------------------------------------------------
(* What is displayed. *)

\* The load under way is the open conversation's; nothing else is displayed when it has
\* ended; and a message on its way is one to the open conversation, unless that was left.
Settled ==
    /\ load \in {None, activeSession}
    /\ load = None /\ ~switched => shown \in {activeSession, None}
    /\ ~switched => \A k \in Calls : Live(k) => calls[k].session = activeSession

LEMMA ActivateSettles ==
    ASSUME NEW c, c # None \/ shown' = None, Activate(c), UNCHANGED calls
    PROVE  Settled'
  BY DEF Activate, Settled, Live

LEMMA UntouchedSettles ==
    ASSUME Settled, UNCHANGED <<display, calls>>
    PROVE  Settled'
  BY DEF Settled, Live, display

LEMMA CreatedSettles ==
    ASSUME CallsGood, NEW k \in Calls, NEW c \in Conversations, NEW next,
           Created(k, c, next), next.phase = "idle" \/ next.session = c
    PROVE  Settled'
  <1>1. c # None
    BY DeskAssumption
  <1>2. \A j \in Calls : calls'[j] = IF j = k THEN next ELSE calls[j]
    BY DEF Created, CallsGood
  <1>3. /\ activeSession' = c /\ load' = c
        /\ switched' = \E j \in Calls \ {k} : Live(j) /\ calls[j].session # c
    BY DEF Created
  <1>4. ASSUME ~switched', NEW j \in Calls, Live(j)' PROVE calls'[j].session = c
    BY <1>2, <1>3, <1>4 DEF Live
  <1> QED
    BY <1>1, <1>3, <1>4 DEF Settled

\* A call goes on, or ends.
LEMMA CallSettles ==
    ASSUME Settled, CallsGood, NEW k \in Calls, NEW next,
           calls' = [calls EXCEPT ![k] = next],
           UNCHANGED <<activeSession, load>>, switched => switched',
           shown' = shown \/ (Live(k) /\ shown' = calls[k].session),
           \/ next.phase \notin {"streaming", "refetching"}
           \/ next.session = activeSession \/ switched'
           \/ Live(k) /\ next.session = calls[k].session
    PROVE  Settled'
  <1>1. \A j \in Calls : calls'[j] = IF j = k THEN next ELSE calls[j]
    BY DEF CallsGood
  <1>2. ASSUME ~switched', NEW j \in Calls, Live(j)' PROVE calls'[j].session = activeSession
    BY <1>1, <1>2 DEF Live, Settled
  <1>3. ASSUME load' = None, ~switched' PROVE shown' \in {activeSession, None}
    BY <1>3 DEF Settled
  <1> QED
    BY <1>2, <1>3 DEF Settled

LEMMA ListingSettles ==
    ASSUME RestTypeOK, ListSessions, UNCHANGED calls, Settled
    PROVE  Settled'
  <1>1. ASSUME NEW c \in existing, Activate(c) PROVE Settled'
    BY <1>1, ActivateSettles, DeskAssumption DEF RestTypeOK
  <1> QED
    BY <1>1, UntouchedSettles DEF ListSessions

\* Relisted ends its call, whatever conversation the list opens.
LEMMA RelistedSettles ==
    ASSUME RestTypeOK, CallsGood, Settled, NEW k \in Calls, Relisted(k)
    PROVE  Settled'
  <1>1. calls' = [calls EXCEPT ![k] = NoCall] /\ ListSessions
    BY DEF Relisted, Done
  <1>2. \A j \in Calls : calls'[j] = IF j = k THEN NoCall ELSE calls[j]
    BY <1>1 DEF CallsGood
  <1>3. \A j \in Calls : Live(j)' => Live(j) /\ calls'[j].session = calls[j].session
    BY <1>2 DEF Live, NoCall
  <1>4. ASSUME NEW c \in existing, Activate(c) PROVE Settled'
    <2>1. c # None
      BY DeskAssumption DEF RestTypeOK
    <2> QED BY <1>3, <1>4, <2>1 DEF Activate, Settled
  <1>5. CASE UNCHANGED display
    BY <1>3, <1>5 DEF display, Settled
  <1> QED
    BY <1>1, <1>4, <1>5 DEF ListSessions

\* Steps that leave the calls alone.
LEMMA PageSettles ==
    ASSUME RestTypeOK, Settled,
           \/ FollowSelection \/ LoadAnswers \/ ListingAnswers \/ EmployeesAnswer
           \/ RefetchEmployees
           \/ \E e \in Employees : SelectEmployee(e) \/ SelectedAgent(e)
           \/ \E c \in Categories \cup {"all"} : SetActiveCategory(c)
           \/ \E c \in listed : SelectSession(c)
    PROVE  Settled'
  <1>0. \A e : \A c \in SessionsOf(e) : c # None
    BY DeskAssumption DEF SessionsOf, RestTypeOK
  <1>1. CASE FollowSelection
    BY <1>0, <1>1, ActivateSettles DEF FollowSelection
  <1>2. CASE LoadAnswers
    BY <1>2 DEF LoadAnswers, Settled, Live
  <1>3. CASE ListingAnswers
    BY <1>3, ListingSettles DEF ListingAnswers
  <1>4. CASE EmployeesAnswer \/ RefetchEmployees
    BY <1>4, UntouchedSettles DEF EmployeesAnswer, RefetchEmployees
  <1>5. ASSUME NEW e \in Employees, SelectEmployee(e) \/ SelectedAgent(e) PROVE Settled'
    BY <1>5, UntouchedSettles DEF SelectEmployee, SelectedAgent
  <1>6. ASSUME NEW c \in Categories \cup {"all"}, SetActiveCategory(c) PROVE Settled'
    BY <1>6, UntouchedSettles DEF SetActiveCategory
  <1>7. ASSUME NEW c \in listed, SelectSession(c) PROVE Settled'
    BY <1>0, <1>7, ActivateSettles DEF SelectSession
  <1> QED
    BY <1>1, <1>2, <1>3, <1>4, <1>5, <1>6, <1>7

\* A call begins.
LEMMA CommandSettles ==
    ASSUME CallsGood, Settled, NEW k \in Calls, NewTask(k) \/ Send(k)
    PROVE  Settled'
  <1>1. ASSUME NEW m, StartConversation(k, m) PROVE Settled'
    <2> DEFINE call == [NoCall EXCEPT !.phase = "opening", !.message = m,
                           !.employee = SelectedEmployee, !.origin = activeSession]
    <2>1. calls' = [calls EXCEPT ![k] = call] /\ UNCHANGED display
      BY <1>1 DEF StartConversation
    <2>2. call.phase = "opening"
      BY DEF NoCall
    <2> HIDE DEF call
    <2> QED BY <2>1, <2>2, CallSettles DEF display
  <1>2. CASE Send(k) /\ Agent(activeSession) = SelectedEmployee
    <2> DEFINE call == [NoCall EXCEPT !.phase = "streaming", !.message = TRUE,
                           !.employee = SelectedEmployee, !.session = activeSession]
    <2>1. calls' = [calls EXCEPT ![k] = call] /\ UNCHANGED display
      BY <1>2 DEF Send
    <2>2. call.session = activeSession
      BY DEF NoCall
    <2> HIDE DEF call
    <2> QED BY <2>1, <2>2, CallSettles DEF display
  <1> QED BY <1>1, <1>2 DEF NewTask, Send

LEMMA OpeningSettles ==
    ASSUME CallsGood, Settled, NEW k \in Calls, Opened(k) \/ OpeningRefused(k)
    PROVE  Settled'
  <1> DEFINE call == calls[k]
  <1>1. /\ call \in CallRecord /\ call.session = None
        /\ call.message => call.origin = None
    BY DEF CallsGood, GoodCall, Opened, OpeningRefused
  <1>2. CASE Opened(k)
    <2>1. PICK c \in Conversations :
             Created(k, c, IF call.message
                           THEN [call EXCEPT !.phase = "streaming", !.session = c]
                           ELSE NoCall)
      BY <1>2 DEF Opened
    <2> DEFINE next == IF call.message
                       THEN [call EXCEPT !.phase = "streaming", !.session = c] ELSE NoCall
    <2>2. next.phase = "idle" \/ next.session = c
      BY <1>1 DEF NoCall, CallRecord
    <2>3. Created(k, c, next)
      BY <2>1
    <2> HIDE DEF next, call
    <2> QED BY <2>2, <2>3, CreatedSettles
  <1>3. CASE OpeningRefused(k)
    <2> DEFINE went == [call EXCEPT !.phase = "ensuring", !.refused = TRUE]
    <2>1. went.phase = "ensuring" /\ NoCall.phase = "idle"
      BY <1>1 DEF CallRecord, NoCall
    <2>2. calls' = [calls EXCEPT ![k] = went] \/ calls' = [calls EXCEPT ![k] = NoCall]
      BY <1>1, <1>3 DEF OpeningRefused
    <2>3. UNCHANGED <<activeSession, load, shown>> /\ (switched => switched')
      BY <1>3 DEF OpeningRefused
    <2> HIDE DEF went
    <2> QED BY <2>1, <2>2, <2>3, CallSettles
  <1> QED BY <1>2, <1>3

LEMMA AnswerSettles ==
    ASSUME RestTypeOK, CallsGood, Settled, NEW k \in Calls,
           Ensured(k) \/ StreamEnds(k) \/ Refetched(k) \/ Relisted(k)
    PROVE  Settled'
  <1> DEFINE call == calls[k]
  <1>0. call \in CallRecord
    BY DEF CallsGood
  <1>1. ASSUME Done(k), UNCHANGED <<activeSession, load, shown, switched>> PROVE Settled'
    <2>1. NoCall.phase = "idle"
      BY DEF NoCall
    <2> QED BY <1>1, <2>1, CallSettles DEF Done
  <1>2. ASSUME NEW p, Goto(k, p), UNCHANGED <<activeSession, load, switched>>, Live(k),
               shown' \in {shown, call.session}
        PROVE  Settled'
    <2> DEFINE went == [call EXCEPT !.phase = p]
    <2>1. calls' = [calls EXCEPT ![k] = went] /\ went.session = call.session
      BY <1>0, <1>2 DEF Goto, CallRecord
    <2> HIDE DEF went
    <2> QED BY <1>2, <2>1, CallSettles
  <1>3. CASE Ensured(k)
    <2>1. ASSUME NEW c \in Conversations,
                 Created(k, c, [call EXCEPT !.phase = "streaming", !.session = c])
          PROVE  Settled'
      <3> DEFINE next == [call EXCEPT !.phase = "streaming", !.session = c]
      <3>1. next.session = c /\ Created(k, c, next)
        BY <1>0, <2>1 DEF CallRecord
      <3> HIDE DEF next
      <3> QED BY <3>1, CreatedSettles
    <2> QED BY <1>1, <1>3, <2>1 DEF Ensured, display
  <1>4. CASE StreamEnds(k)
    BY <1>1, <1>2, <1>4 DEF StreamEnds, display, Live
  <1>5. CASE Refetched(k)
    BY <1>1, <1>2, <1>5 DEF Refetched, Live
  <1> QED BY <1>3, <1>4, <1>5, RelistedSettles

LEMMA StepSettles == DeskInv /\ Settled /\ [DeskNext]_desk => Settled'
  <1> SUFFICES ASSUME RestTypeOK, CallsGood, Settled, [DeskNext]_desk PROVE Settled'
    BY InvByParts
  <1>1. CASE UNCHANGED desk
    BY <1>1, UntouchedSettles DEF desk
  <1>2. CASE Command
    BY <1>2, PageSettles, CommandSettles DEF Command
  <1>3. CASE FollowSelection
    BY <1>3, PageSettles
  <1>4. CASE Answer
    BY <1>4, PageSettles, OpeningSettles, AnswerSettles DEF Answer, CallAnswers
  <1>5. CASE \E k \in Calls : StreamEnds(k)
    BY <1>5, AnswerSettles
  <1> QED
    BY <1>1, <1>2, <1>3, <1>4, <1>5 DEF DeskNext

\* What useChatConsole displays beside an employee: no overlap of loads, lists, openings
\* and messages leaves another employee's transcript there, for any number of calls.
THEOREM DeskTranscriptIsEmployees == DeskSpec => []TranscriptIsEmployees
  <1>1. DeskInit => Settled
    BY DEF DeskInit, Settled, Live, NoCall
  <1>2. Settled => TranscriptIsEmployees
    BY DEF Settled, TranscriptIsEmployees, Following
  <1> QED
    BY <1>1, <1>2, StepSettles, DeskInvariant, PTL DEF DeskSpec

-----------------------------------------------------------------------------
(* On whose behalf the page is sending. *)

Sent(call) == call.message /\ call.phase \in {"ensuring", "streaming", "refetching", "listing"}

LEMMA SomeoneSent == SendingIsSomeones <=> (sending => \E k \in Calls : Sent(calls[k]))
  BY DEF SendingIsSomeones, Sent

LEMMA SomeoneSentNext == (SendingIsSomeones <=> (sending => \E k \in Calls : Sent(calls[k])))'
  BY SomeoneSent, PTL

\* A call that is not yet, or still, a message on its way changes.
LEMMA OthersStillSend ==
    ASSUME CallsGood, SendingIsSomeones, NEW k \in Calls, NEW next,
           calls' = [calls EXCEPT ![k] = next], sending' \in BOOLEAN,
           sending' => Sent(next) \/ (sending /\ ~Sent(calls[k]))
    PROVE  SendingIsSomeones'
  <1>1. \A j \in Calls : calls'[j] = IF j = k THEN next ELSE calls[j]
    BY DEF CallsGood
  <1>2. ASSUME sending' PROVE \E j \in Calls : Sent(calls'[j])
    <2>1. CASE Sent(next)
      BY <1>1, <2>1
    <2>2. CASE sending /\ ~Sent(calls[k])
      <3>1. PICK j \in Calls : Sent(calls[j])
        BY <2>2, SomeoneSent
      <3> QED BY <1>1, <2>2, <3>1
    <2> QED BY <1>2, <2>1, <2>2
  <1> QED
    BY <1>2, SomeoneSentNext DEF Sent

LEMMA QuietlyStillSends ==
    ASSUME SendingIsSomeones, UNCHANGED <<sending, calls>> PROVE SendingIsSomeones'
  BY DEF SendingIsSomeones

LEMMA CallStillSends ==
    ASSUME RestTypeOK, CallsGood, SendingIsSomeones, NEW k \in Calls,
           NewTask(k) \/ Send(k) \/ CallAnswers(k) \/ StreamEnds(k)
    PROVE  SendingIsSomeones'
  <1> DEFINE call == calls[k]
  <1>0. call \in CallRecord /\ sending \in BOOLEAN /\ call.message \in BOOLEAN
    BY DEF CallsGood, CallRecord, RestTypeOK
  <1>1. ASSUME Done(k) PROVE SendingIsSomeones'
    BY <1>1 DEF Done, SendingIsSomeones
  <1>2. ASSUME NEW p \in {"refetching", "listing"}, Goto(k, p), Live(k)
        PROVE  SendingIsSomeones'
    <2> DEFINE went == [call EXCEPT !.phase = p]
    <2>1. calls' = [calls EXCEPT ![k] = went] /\ UNCHANGED sending
      BY <1>2 DEF Goto
    <2>2. Sent(call) => Sent(went)
      BY <1>0, <1>2 DEF Sent, CallRecord
    <2>3. sending' \in BOOLEAN
      BY <1>0, <2>1
    <2> HIDE DEF went
    <2> QED BY <2>1, <2>2, <2>3, OthersStillSend
  <1>3. ASSUME NEW m, StartConversation(k, m), calls[k] = NoCall PROVE SendingIsSomeones'
    <2>1. ~Sent(calls[k])
      BY <1>3 DEF Sent, NoCall
    <2>2. sending' = sending /\ sending' \in BOOLEAN
      BY <1>0, <1>3 DEF StartConversation
    <2>3. PICK next : calls' = [calls EXCEPT ![k] = next]
      BY <1>3 DEF StartConversation
    <2> QED BY <2>1, <2>2, <2>3, OthersStillSend
  <1>4. CASE NewTask(k)
    BY <1>3, <1>4 DEF NewTask
  <1>5. CASE Send(k)
    <2>1. CASE Agent(activeSession) = SelectedEmployee
      <3> DEFINE next == [NoCall EXCEPT !.phase = "streaming", !.message = TRUE,
                             !.employee = SelectedEmployee, !.session = activeSession]
      <3>1. calls' = [calls EXCEPT ![k] = next] /\ sending' = TRUE
        BY <1>5, <2>1 DEF Send
      <3>2. Sent(next)
        BY DEF Sent, NoCall
      <3> HIDE DEF next
      <3> QED BY <3>1, <3>2, OthersStillSend
    <2>2. CASE Agent(activeSession) # SelectedEmployee
      BY <1>3, <1>5, <2>2 DEF Send
    <2> QED BY <2>1, <2>2
  <1>6. CASE Opened(k)
    <2>1. PICK c \in Conversations :
             Created(k, c, IF call.message
                           THEN [call EXCEPT !.phase = "streaming", !.session = c]
                           ELSE NoCall)
      BY <1>6 DEF Opened
    <2> DEFINE next == IF call.message
                       THEN [call EXCEPT !.phase = "streaming", !.session = c] ELSE NoCall
    <2>2. calls' = [calls EXCEPT ![k] = next]
      BY <2>1 DEF Created
    <2>3. call.message => Sent(next)
      BY <1>0 DEF Sent, CallRecord
    <2>4. ~Sent(call)
      BY <1>6 DEF Opened, Sent
    <2>5. sending' = (sending \/ call.message)
      BY <1>6 DEF Opened
    <2>6. sending' \in BOOLEAN
      BY <1>0, <2>5
    <2> HIDE DEF next
    <2> QED BY <1>0, <2>2, <2>3, <2>4, <2>5, <2>6, OthersStillSend
  <1>7. CASE OpeningRefused(k)
    <2>1. PICK next :
             calls' = [calls EXCEPT ![k] = next] /\ (call.message => Sent(next))
      <3> DEFINE ensuring == [call EXCEPT !.phase = "ensuring", !.refused = TRUE]
      <3> DEFINE going == [call EXCEPT !.phase = "streaming", !.refused = TRUE,
                                       !.session = call.origin]
      <3>1. call.message => Sent(ensuring) /\ Sent(going)
        BY <1>0 DEF Sent, CallRecord
      <3>2. \/ ~call.message /\ calls' = [calls EXCEPT ![k] = NoCall]
            \/ calls' = [calls EXCEPT ![k] = ensuring]
            \/ calls' = [calls EXCEPT ![k] = going]
        BY <1>7 DEF OpeningRefused
      <3> HIDE DEF ensuring, going
      <3> QED BY <3>1, <3>2
    <2>2. ~Sent(call) /\ sending' = (sending \/ call.message)
      BY <1>7 DEF OpeningRefused, Sent
    <2>3. sending' \in BOOLEAN
      BY <1>0, <2>2
    <2> QED BY <1>0, <2>1, <2>2, <2>3, OthersStillSend
  <1>8. CASE Ensured(k)
    <2>1. ASSUME NEW c \in Conversations, UNCHANGED sending, call.phase = "ensuring",
                 Created(k, c, [call EXCEPT !.phase = "streaming", !.session = c])
          PROVE  SendingIsSomeones'
      <3> DEFINE next == [call EXCEPT !.phase = "streaming", !.session = c]
      <3>1. calls' = [calls EXCEPT ![k] = next]
        BY <2>1 DEF Created
      <3>2. Sent(call) => Sent(next)
        BY <1>0 DEF Sent, CallRecord
      <3>3. sending' \in BOOLEAN
        BY <1>0, <2>1
      <3> HIDE DEF next
      <3> QED BY <2>1, <3>1, <3>2, <3>3, OthersStillSend
    <2> QED BY <1>1, <1>8, <2>1 DEF Ensured
  <1>9. CASE Refetched(k)
    BY <1>1, <1>2, <1>9 DEF Refetched, Live
  <1>10. CASE Relisted(k)
    BY <1>1, <1>10 DEF Relisted
  <1>11. CASE StreamEnds(k)
    BY <1>1, <1>2, <1>11 DEF StreamEnds, Live
  <1> QED
    BY <1>4, <1>5, <1>6, <1>7, <1>8, <1>9, <1>10, <1>11 DEF CallAnswers

\* sending of useChatConsole: messages that overlap, refusals and conversations opened in
\* between never leave the page "sending" for nobody, for any number of calls.
THEOREM DeskSendingIsSomeones == DeskSpec => []SendingIsSomeones
  <1>1. DeskInit => SendingIsSomeones
    BY DEF DeskInit, SendingIsSomeones
  <1>2. DeskInv /\ SendingIsSomeones /\ [DeskNext]_desk => SendingIsSomeones'
    <2> SUFFICES ASSUME RestTypeOK, CallsGood, SendingIsSomeones, [DeskNext]_desk
                 PROVE  SendingIsSomeones'
      BY InvByParts
    <2>1. CASE UNCHANGED desk
      BY <2>1, QuietlyStillSends DEF desk
    <2>2. CASE \E k \in Calls : NewTask(k) \/ Send(k) \/ CallAnswers(k) \/ StreamEnds(k)
      BY <2>2, CallStillSends
    <2>3. CASE \/ FollowSelection \/ LoadAnswers \/ ListingAnswers \/ EmployeesAnswer
               \/ RefetchEmployees
               \/ \E e \in Employees : SelectEmployee(e) \/ SelectedAgent(e)
               \/ \E c \in Categories \cup {"all"} : SetActiveCategory(c)
               \/ \E c \in listed : SelectSession(c)
      BY <2>3, QuietlyStillSends DEF FollowSelection, LoadAnswers, ListingAnswers,
         EmployeesAnswer, RefetchEmployees, SelectEmployee, SelectedAgent, SetActiveCategory,
         SelectSession
    <2> QED
      BY <2>1, <2>2, <2>3 DEF DeskNext, Command, Answer
  <1> QED
    BY <1>1, <1>2, DeskInvariant, PTL DEF DeskSpec
=============================================================================
