------------------------------ MODULE Console ------------------------------
(***************************************************************************)
(* The console: the session of a tab and the page it displays.  Of the      *)
(* pages, the chat console, the knowledge page and the media page are       *)
(* modelled in full; one is mounted at a time, exactly while the content    *)
(* area displays it to a user who is signed in.  Unmounted, by a navigation *)
(* or by the end of the session, it forgets everything; the calls it has in *)
(* flight still reach the backend, and so do those of other tabs and users: *)
(* a page that is mounted finds the backend in any state.                   *)
(***************************************************************************)
EXTENDS ConsoleSession, ChatConsole, KnowledgePage, MediaBoard

CONSTANT MaxEvents   \* bound on what users, lifetimes and faults set going

ASSUME EventsAssumption == MaxEvents \in Nat

VARIABLE events

console == <<session, chat, knowledge, media, events>>

Displays(page) == authState = "authenticated" /\ Content = page
Opens(page) == ~Displays(page) /\ Displays(page)'
Closes(page) == Displays(page) /\ ~Displays(page)'

\* What is behind a page is left out of the state while it is not displayed.
ConsoleInit ==
    /\ SessionInit
    /\ ChatMounted /\ existing = {} /\ blank = {}
    /\ KnowledgeMounted /\ bases = {}
    /\ MediaMounted /\ jobs = NoJobs
    /\ events = 0

ChatFollows ==
    CASE Opens("chatConsole") ->
            existing' \in SUBSET Conversations /\ blank' \in SUBSET existing'
            /\ UNCHANGED <<lists, display, creating, send>>
      [] Closes("chatConsole") ->
            /\ existing' = {} /\ blank' = {} /\ listed' = {} /\ listing' = TRUE
            /\ activeSession' = None /\ load' = None /\ messages' = Empty
            /\ creating' = 0 /\ send' = Idle /\ switched' = FALSE
      [] OTHER -> UNCHANGED chat

KnowledgeFollows ==
    CASE Opens("knowledgeBases") ->
            bases' \in SUBSET Bases /\ UNCHANGED <<baseLoads, selection, actions>>
      [] Closes("knowledgeBases") ->
            /\ bases' = {} /\ baseList' = {} /\ baseLoads' = 1
            /\ selectedBaseId' = NoBase /\ panelBase' = NoBase
            /\ latest' = 0 /\ pending' = {}
            /\ shown' = NoBase /\ asked' = NoBase /\ loading' = FALSE
            /\ working' = {} /\ creatingBase' = FALSE /\ deleting' = {}
      [] OTHER -> UNCHANGED knowledge

MediaFollows ==
    CASE Opens("mediaGeneration") ->
            jobs' \in Boards
            /\ UNCHANGED <<board, loads, calls, actionJobId, saving>>
      [] Closes("mediaGeneration") ->
            /\ jobs' = NoJobs /\ board' = NoJobs /\ loads' = <<LoadFor("page")>>
            /\ calls' = <<>> /\ actionJobId' = "nothing" /\ saving' = FALSE
      [] OTHER -> UNCHANGED media

Spend == events < MaxEvents /\ events' = events + 1
Free == UNCHANGED events

PagesFollow == ChatFollows /\ KnowledgeFollows /\ MediaFollows

-----------------------------------------------------------------------------
InChat(A) == Displays("chatConsole") /\ A /\ UNCHANGED <<session, knowledge, media>>
InKnowledge(A) == Displays("knowledgeBases") /\ A /\ UNCHANGED <<session, chat, media>>
InMedia(A) == Displays("mediaGeneration") /\ A /\ UNCHANGED <<session, chat, knowledge>>

CanWriteKnowledge == CanAccess(authUser, {"knowledge:write"}, {})

\* What a user, the life of a session or a fault sets going.
SessionEvent ==
    (SessionCommand \/ Navigate \/ PageCalls \/ EndOfSession) /\ PagesFollow /\ Spend
ChatEvent == InChat(ChatCommand) /\ Spend
KnowledgeEvent ==
    InKnowledge(KnowledgeRead \/ (CanWriteKnowledge /\ KnowledgeWrite)) /\ Spend
MediaEvent == InMedia(MediaCommand \/ MediaFail) /\ Spend

\* What follows from it.
SessionStep == (Answer \/ RequestAnswer \/ RunEffects) /\ PagesFollow /\ Free
ChatStep == InChat(ChatAnswer \/ Stream) /\ Free
KnowledgeStep == InKnowledge(KnowledgeAnswer) /\ Free
MediaStep ==
    InMedia(MediaServe \/ MediaDisplay \/ MediaCall \/ PollTick \/ \E j \in Jobs : JobEnds(j))
    /\ Free

ConsoleNext ==
    \/ SessionEvent \/ ChatEvent \/ KnowledgeEvent \/ MediaEvent
    \/ SessionStep \/ ChatStep \/ KnowledgeStep \/ MediaStep

\* A call of a page that stays displayed is answered, or given up after 30
\* seconds; an interval ticks.
PageFairness ==
    /\ WF_chat(SendAnswer)
    /\ WF_knowledge(DocumentsAnswer)
    /\ WF_media(Displays("mediaGeneration") /\ OldestLoad)
    /\ WF_media(OldestCall)
    /\ WF_media(PollTick)

ConsoleSpec == ConsoleInit /\ [][ConsoleNext]_console /\ SessionFairness /\ PageFairness

-----------------------------------------------------------------------------
ConsoleTypeOK ==
    /\ SessionTypeOK /\ ChatTypeOK /\ KnowledgeTypeOK /\ MediaTypeOK
    /\ events \in 0..MaxEvents
=============================================================================
