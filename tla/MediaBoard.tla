----------------------------- MODULE MediaBoard -----------------------------
(***************************************************************************)
(* The board of media generation jobs in the console                        *)
(* (useMediaPageController).  The list of jobs is loaded when the page is   *)
(* mounted, on demand, after every action, and every five seconds while the *)
(* board displays a job that is queued or running.  A load is served at one *)
(* time and displayed at another, so loads overtake each other.             *)
(***************************************************************************)
EXTENDS Integers, Sequences, SequencesExt

CONSTANT Jobs

ASSUME JobAssumption == Jobs \cap {"page", "poll", "create", "batch", "nothing"} = {}

VARIABLES
    jobs,         \* the backend: queued or running is "active", the others "finished"
    board,        \* what is displayed of it
    loads,        \* the loads in flight: who waits for each, and what was served
    calls,        \* the actions in flight: a job's, "create" or "batch"
    actionJobId,  \* the job whose buttons are disabled, or "batch"
    saving        \* createJob is under way

media == <<jobs, board, loads, calls, actionJobId, saving>>

Statuses == {"none", "active", "finished"}
Boards == [Jobs -> Statuses]
Unserved == [j \in Jobs |-> "unserved"]
NoJobs == [j \in Jobs |-> "none"]

MediaTypeOK ==
    /\ jobs \in Boards /\ board \in Boards
    /\ loads \in Seq([for : Jobs \cup {"page", "poll", "create", "batch"},
                       copy : Boards \cup {Unserved}])
    /\ calls \in Seq(Jobs \cup {"create", "batch"})
    /\ actionJobId \in Jobs \cup {"batch", "nothing"}
    /\ saving \in BOOLEAN

LoadFor(who) == [for |-> who, copy |-> Unserved]

MediaMounted ==
    /\ board = NoJobs
    /\ loads = <<LoadFor("page")>>
    /\ calls = <<>> /\ actionJobId = "nothing" /\ saving = FALSE

MediaInit == jobs \in Boards /\ MediaMounted

-----------------------------------------------------------------------------
HasActiveMediaJobs(b) == \E j \in Jobs : b[j] = "active"

Polling(ls) == \E i \in DOMAIN ls : ls[i].for = "poll"

\* The effect that polls is torn down with the last active job; a poll it has
\* in flight then keeps nobody waiting.
Retired(ls) ==
    [i \in DOMAIN ls |-> IF ls[i].for = "poll" THEN [ls[i] EXCEPT !.for = "page"] ELSE ls[i]]

ServeLoad(i) ==
    /\ loads[i].copy = Unserved
    /\ loads' = [loads EXCEPT ![i].copy = jobs]
    /\ UNCHANGED <<jobs, board, calls, actionJobId, saving>>

\* The finally of the action that waits for the load.
Release(who) ==
    /\ actionJobId' = (IF who \in Jobs \cup {"batch"} THEN "nothing" ELSE actionJobId)
    /\ saving' = (saving /\ who # "create")

\* Variant: what a poll brings is not displayed.
DisplayLoad_SilentPoll(i) ==
    /\ loads[i].copy # Unserved
    /\ board' = (IF loads[i].for = "poll" THEN board ELSE loads[i].copy)
    /\ loads' = RemoveAt(loads, i)
    /\ Release(loads[i].for)
    /\ UNCHANGED <<jobs, calls>>

DisplayLoad(i) ==
    /\ loads[i].copy # Unserved
    /\ board' = loads[i].copy
    /\ LET rest == RemoveAt(loads, i)
       IN loads' = (IF HasActiveMediaJobs(board') THEN rest ELSE Retired(rest))
    /\ Release(loads[i].for)
    /\ UNCHANGED <<jobs, calls>>

\* Variant: an action whose load failed leaves its buttons disabled.
LoadFails_StaysBusy(i) ==
    /\ loads' = RemoveAt(loads, i)
    /\ UNCHANGED <<jobs, board, calls, actionJobId, saving>>

LoadFails(i) ==
    /\ loads' = RemoveAt(loads, i)
    /\ Release(loads[i].for)
    /\ UNCHANGED <<jobs, board, calls>>

\* The interval of five seconds; a tick that finds the last one's load in
\* flight does nothing.
PollTick ==
    /\ HasActiveMediaJobs(board) /\ ~Polling(loads)
    /\ loads' = Append(loads, LoadFor("poll"))
    /\ UNCHANGED <<jobs, board, calls, actionJobId, saving>>

Refresh ==
    /\ loads' = Append(loads, LoadFor("page"))
    /\ UNCHANGED <<jobs, board, calls, actionJobId, saving>>

-----------------------------------------------------------------------------
\* The buttons of a job are disabled while it is the one that was acted on last.
StartJobAction(j) ==
    /\ board[j] # "none" /\ actionJobId # j
    /\ calls' = Append(calls, j) /\ actionJobId' = j
    /\ UNCHANGED <<jobs, board, loads, saving>>

StartBatchPoll ==
    /\ HasActiveMediaJobs(board) /\ actionJobId # "batch"
    /\ calls' = Append(calls, "batch") /\ actionJobId' = "batch"
    /\ UNCHANGED <<jobs, board, loads, saving>>

StartCreate ==
    /\ ~saving /\ saving' = TRUE
    /\ calls' = Append(calls, "create")
    /\ UNCHANGED <<jobs, board, loads, actionJobId>>

\* What a call does to the jobs: a new one is queued, an active one may end,
\* one that failed may be retried.
Changes(who) ==
    \/ UNCHANGED jobs
    \/ /\ who \in Jobs /\ jobs[who] # "none"
       /\ jobs' \in {[jobs EXCEPT ![who] = s] : s \in {"active", "finished"}}
    \/ /\ who = "create"
       /\ \E j \in Jobs : jobs[j] = "none" /\ jobs' = [jobs EXCEPT ![j] = "active"]

\* An action that succeeds waits for a load of the list, one that fails does not.
CallAnswers(i) ==
    /\ calls' = RemoveAt(calls, i)
    /\ \/ /\ Changes(calls[i])
          /\ loads' = Append(loads, LoadFor(calls[i]))
          /\ UNCHANGED <<actionJobId, saving>>
       \/ /\ Release(calls[i])
          /\ UNCHANGED <<jobs, loads>>
    /\ UNCHANGED board

\* A worker of the backend, or the provider's callback, ends a job.
JobEnds(j) ==
    /\ jobs[j] = "active"
    /\ jobs' = [jobs EXCEPT ![j] = "finished"]
    /\ UNCHANGED <<board, loads, calls, actionJobId, saving>>

-----------------------------------------------------------------------------
MediaCommand ==
    \/ Refresh \/ StartBatchPoll \/ StartCreate
    \/ \E j \in Jobs : StartJobAction(j)

MediaServe == \E i \in DOMAIN loads : ServeLoad(i)
MediaDisplay == \E i \in DOMAIN loads : DisplayLoad(i)
MediaFail == \E i \in DOMAIN loads : LoadFails(i)
MediaCall == \E i \in DOMAIN calls : CallAnswers(i)

MediaNext ==
    \/ MediaCommand \/ MediaServe \/ MediaDisplay \/ MediaFail \/ MediaCall \/ PollTick
    \/ \E j \in Jobs : JobEnds(j)

MediaSpec == MediaInit /\ [][MediaNext]_media

\* A call is answered or given up within 30 seconds, so the oldest does not
\* wait for ever behind younger ones.
OldestLoad == loads # <<>> /\ (ServeLoad(1) \/ DisplayLoad(1))
OldestCall == calls # <<>> /\ CallAnswers(1)

-----------------------------------------------------------------------------
\* A board that displays a job under way catches up with the backend: it does
\* not stop polling while something is left to poll for, however loads fail,
\* overtake each other or are still in flight when the next tick comes.
BoardCatchesUp ==
    HasActiveMediaJobs(board) ~> board = jobs \/ ~HasActiveMediaJobs(board)

\* Buttons and the form are not disabled for ever, whatever becomes of the
\* action they were disabled for and of the load that follows it.
ActionsEnd ==
    /\ actionJobId # "nothing" ~> actionJobId = "nothing"
    /\ saving ~> ~saving
=============================================================================
