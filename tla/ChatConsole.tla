---------------------------- MODULE ChatConsole ----------------------------
(***************************************************************************)
(* The chat page of the console: the hook useChatConsole and the buttons of *)
(* ChatPage.  Conversations are listed, opened and created; a message is    *)
(* sent and its answer streamed into a bubble that the saved transcript     *)
(* replaces in the end.  Every await of the hook ends an action.            *)
(*                                                                          *)
(* Of what is displayed the model keeps whose saved transcript it is, the   *)
(* bubble of the answer that is being streamed, and whether an answer       *)
(* without content is among it: the page shows dots in its place.           *)
(***************************************************************************)
EXTENDS Integers

CONSTANTS
    Conversations,  \* chat sessions
    None            \* no chat session

ASSUME ChatAssumption == None \notin Conversations

VARIABLES
    existing,   \* the backend: the user's chat sessions
    blank,      \* the backend: those with an answer that came without content
    listed,     \* the sessions in the side bar
    listing,    \* loadSessions of the mount, or of a retry, is in flight
    activeSession,
    load,       \* the session of the effect's load that is not cancelled
    messages,   \* what is displayed
    creating,   \* calls of createSession in flight
    send,       \* the call of sendMessage
    switched    \* history: the open conversation is not the one a message was being sent to

display == <<activeSession, load, messages, switched>>
lists == <<listed, listing>>
savedChats == <<existing, blank>>
chat == <<savedChats, lists, display, creating, send>>

Empty == [of |-> None, answer |-> "none", blank |-> FALSE]

\* What is saved of a conversation; an answer that was streamed without content
\* may have some when it is saved, an agent's final text for one.
Transcripts(c) ==
    {t \in [of : {c}, answer : {"none"}, blank : BOOLEAN] : t.blank => c \in blank}

Idle == [phase |-> "idle", session |-> None, origin |-> None, aborted |-> FALSE]

Phases == {"idle", "creating", "streaming", "refetching", "listing", "restoring"}
Bubbles == {"none", "thinking", "partial", "done", "stopped"}

ChatTypeOK ==
    /\ listed \subseteq existing
    /\ existing \subseteq Conversations /\ blank \subseteq Conversations
    /\ listing \in BOOLEAN /\ switched \in BOOLEAN
    /\ {activeSession, load} \subseteq Conversations \cup {None}
    /\ messages \in [of : Conversations \cup {None}, answer : Bubbles, blank : BOOLEAN]
    /\ creating \in Nat
    /\ send \in [phase : Phases, session : Conversations \cup {None},
                 origin : Conversations \cup {None}, aborted : BOOLEAN]

\* The page is mounted.
ChatMounted ==
    /\ listed = {} /\ listing = TRUE
    /\ activeSession = None /\ load = None /\ messages = Empty
    /\ creating = 0 /\ send = Idle /\ switched = FALSE

ChatInit ==
    existing \in SUBSET Conversations /\ blank \in SUBSET existing /\ ChatMounted

-----------------------------------------------------------------------------
(* Which conversation is open. *)

\* Variant: the load that is under way is not cancelled.
Activate_KeepsLoad(c) ==
    /\ activeSession' = c /\ load' = (IF load = None THEN c ELSE load)
    /\ switched' = (send.phase \notin {"idle", "creating"} /\ c # send.session)

\* Opening a conversation cancels the load of the one before and starts its own.
Activate(c) ==
    /\ activeSession' = c /\ load' = c
    /\ switched' = (send.phase \notin {"idle", "creating"} /\ c # send.session)

\* The first conversation of the list is opened unless one is open.
ListSessions ==
    /\ listed' = existing
    /\ IF activeSession = None /\ existing # {}
       THEN \E c \in existing : Activate(c) /\ UNCHANGED messages
       ELSE UNCHANGED display

ListingAnswers ==
    /\ listing /\ listing' = FALSE
    /\ ListSessions \/ (listed' = {} /\ UNCHANGED display)
    /\ UNCHANGED <<savedChats, creating, send>>

RefetchSessions ==
    /\ ~listing /\ listed = {}
    /\ listing' = TRUE
    /\ UNCHANGED <<savedChats, listed, display, creating, send>>

\* A load that fails empties the display.
LoadAnswers ==
    /\ load # None /\ load' = None
    /\ messages' \in Transcripts(load) \cup {Empty}
    /\ UNCHANGED <<savedChats, lists, activeSession, creating, send, switched>>

SelectSession(c) ==
    /\ c \in listed /\ Activate(c)
    /\ UNCHANGED <<savedChats, lists, messages, creating, send>>

CreateSession ==
    /\ creating' = creating + 1
    /\ UNCHANGED <<savedChats, lists, display, send>>

Created(c) ==
    /\ c \notin existing
    /\ existing' = existing \cup {c} /\ listed' = listed \cup {c}
    /\ Activate(c)

CreateAnswers ==
    /\ creating > 0 /\ creating' = creating - 1
    /\ \/ \E c \in Conversations : Created(c) /\ messages' = Empty
       \/ UNCHANGED <<existing, listed, display>>
    /\ UNCHANGED <<blank, listing, send>>

-----------------------------------------------------------------------------
(* Sending a message. *)

Goto(phase) == send' = [send EXCEPT !.phase = phase]
Bubble(answer) == messages' = [messages EXCEPT !.answer = answer]

Still == UNCHANGED <<existing, lists, activeSession, load, creating, switched>>
Quiet == Still /\ UNCHANGED blank

\* One message at a time: the page does not send while another is being sent.
SendMessage ==
    /\ send.phase = "idle"
    /\ send' = [phase |-> IF activeSession = None THEN "creating" ELSE "streaming",
                session |-> activeSession, origin |-> activeSession, aborted |-> FALSE]
    /\ IF activeSession = None THEN UNCHANGED messages ELSE Bubble("thinking")
    /\ Quiet

StopGeneration ==
    /\ send.phase # "idle" /\ ~send.aborted
    /\ send' = [send EXCEPT !.aborted = TRUE]
    /\ Quiet /\ UNCHANGED messages

\* ensureSession; the conversation it creates is opened.
EnsureAnswers ==
    /\ send.phase = "creating"
    /\ \/ \E c \in Conversations :
             /\ Created(c) /\ Bubble("thinking")
             /\ send' = [send EXCEPT !.phase = "streaming", !.session = c]
             /\ UNCHANGED <<blank, listing, creating>>
       \/ send' = Idle /\ Quiet /\ UNCHANGED messages

\* A delta goes nowhere when the bubble is not displayed any more.
StreamDelta ==
    /\ send.phase = "streaming" /\ ~send.aborted
    /\ messages.answer = "thinking" /\ Bubble("partial")
    /\ Quiet /\ UNCHANGED send

\* The answer the backend saves may be without content: of a provider that
\* answers with nothing.
MaySaveBlank == blank' \in {blank, blank \cup {send.session}}

\* "done" ends the bubble, whether or not there was a delta before it.
Done ==
    IF messages.answer = "thinking"
    THEN /\ messages' = [messages EXCEPT !.answer = "done", !.blank = TRUE]
         /\ blank' = blank \cup {send.session}
    ELSE messages.answer = "partial" /\ Bubble("done") /\ UNCHANGED blank

\* The stream ends: after "done", which goes nowhere when the bubble is not
\* displayed any more, or after an "error" event, which is lost.
StreamEnds ==
    /\ send.phase = "streaming" /\ ~send.aborted
    /\ Done \/ (UNCHANGED messages /\ MaySaveBlank)
    /\ Goto("refetching")
    /\ Still

\* Variant: the bubble of a stopped answer is left as it is.
GiveUp_KeepsBubble ==
    /\ UNCHANGED messages
    /\ IF send.aborted /\ send.origin # None THEN Goto("restoring") ELSE send' = Idle

\* Variant: the state "sending" is not reset when nothing is to be restored.
GiveUp_StillSending ==
    /\ CASE send.aborted /\ messages.answer = "thinking" -> Bubble("stopped")
         [] ~send.aborted /\ messages.answer \in {"thinking", "partial"} -> Bubble("none")
         [] OTHER -> UNCHANGED messages
    /\ IF send.aborted /\ send.origin # None THEN Goto("restoring") ELSE UNCHANGED send

\* The exception handler: after a stop an empty bubble says so and the saved
\* transcript is asked for; after a failure the bubble goes.
GiveUp ==
    /\ CASE send.aborted /\ messages.answer = "thinking" -> Bubble("stopped")
         [] ~send.aborted /\ messages.answer \in {"thinking", "partial"} -> Bubble("none")
         [] OTHER -> UNCHANGED messages
    /\ IF send.aborted /\ send.origin # None THEN Goto("restoring") ELSE send' = Idle

StreamFails ==
    send.phase = "streaming" /\ ~send.aborted /\ GiveUp /\ MaySaveBlank /\ Still

StreamAborts ==
    send.phase = "streaming" /\ send.aborted /\ GiveUp /\ MaySaveBlank /\ Still

\* The saved transcript of the conversation the message went to is displayed,
\* whichever is open.
RefetchAnswers ==
    /\ send.phase = "refetching"
    /\ \/ messages' \in Transcripts(send.session) /\ Goto("listing")
       \/ GiveUp
    /\ Quiet

\* loadSessions at the end of sendMessage.
RelistAnswers ==
    /\ send.phase = "listing" /\ send' = Idle
    /\ ListSessions \/ (listed' = {} /\ UNCHANGED display)
    /\ UNCHANGED <<savedChats, listing, creating>>

RestoreAnswers ==
    /\ send.phase = "restoring" /\ send' = Idle
    /\ messages' \in Transcripts(send.origin) \cup {messages}
    /\ Quiet

-----------------------------------------------------------------------------
ChatCommand ==
    \/ RefetchSessions \/ CreateSession \/ SendMessage \/ StopGeneration
    \/ \E c \in listed : SelectSession(c)

\* The answers to calls that give up after a time.
SendAnswer ==
    EnsureAnswers \/ StreamAborts \/ RefetchAnswers \/ RelistAnswers \/ RestoreAnswers

Stream == StreamDelta \/ StreamEnds \/ StreamFails

ChatAnswer == ListingAnswers \/ LoadAnswers \/ CreateAnswers \/ SendAnswer

ChatNext == ChatCommand \/ ChatAnswer \/ Stream

ChatSpec == ChatInit /\ [][ChatNext]_chat

-----------------------------------------------------------------------------
\* When no message is being sent, no bubble waits for an answer that will never
\* come, whatever was stopped, refused or lost; and dots are displayed in the
\* place of an answer only if the backend has one that came without content.
NoEndlessThinking ==
    send.phase = "idle" => messages.answer # "thinking" /\ (messages.blank => blank # {})

\* Once its load has ended, the transcript on display is the open conversation's,
\* whatever was opened, created, listed or sent before; but a conversation that
\* was opened while a message was being sent to another one gives way to the
\* transcript of that one.
TranscriptSettles ==
    load = None /\ ~switched => messages.of \in {activeSession, None}

\* What was stopped comes to an end, and so does every phase of sending but
\* the stream itself, which has no time limit: the page can send again.
SendEnds ==
    /\ send.aborted ~> send.phase = "idle"
    /\ send.phase \in {"creating", "refetching", "listing", "restoring"}
          ~> send.phase \in {"idle", "streaming"}
=============================================================================
