------------------------------ MODULE MediaJob ------------------------------
(***************************************************************************)
(* One media generation job (app/services/media_generation_*.py): the row   *)
(* of media_generation_jobs, the budget ledger of its reservations, the     *)
(* Celery tasks about it, and the sessions that work on it.                 *)
(*                                                                          *)
(* A session (an API request, the provider's webhook, a worker's task)      *)
(* loads the row once and decides on that copy: the session's identity map  *)
(* hands out the same object again (expire_on_commit = False).  Its commit  *)
(* updates the columns it has changed and nothing checks that the row is    *)
(* still the one it loaded.  Each action below is what happens between two  *)
(* points where other sessions may run.                                     *)
(*                                                                          *)
(* Data kept: of the columns, status, external_job_id and metadata_json;    *)
(* of the metadata, the budget reservation and the two queue entries.  Of   *)
(* a reservation's scopes one is kept.  Access rights, module licence,      *)
(* provider and model policy are checks that pass or raise.                 *)
(***************************************************************************)
EXTENDS Integers, FiniteSets

CONSTANTS
    Workers,          \* Celery worker processes
    Requests,         \* API and webhook requests in flight
    MaxReservations,  \* bound of the model on budget reservations
    MaxSubmits,       \* bound of the model on jobs the provider accepts
    MaxTasks,         \* bound of the model on waiting tasks of a kind
    Crashes           \* sessions may die half-way

ASSUME MediaAssumption ==
    /\ Workers \cap Requests = {}
    /\ MaxReservations \in Nat \ {0}
    /\ MaxSubmits \in Nat /\ MaxTasks \in Nat
    /\ Crashes \in BOOLEAN

VARIABLES
    job,        \* the row
    ledger,     \* closing events of each reservation
    reserved,   \* reservations made so far
    tasks,      \* tasks waiting in the broker
    submits,    \* jobs the provider has accepted, numbered from 1
    owner,      \* the reservation under which each was submitted
    pc,         \* what each session does next
    copy,       \* the row as each session has it
    named,      \* the provider's job that the answer or callback it holds names
    held,       \* the reservation a retry has just made
    overtaken,  \* history: some commit was over a row changed since its load
    died,       \* history: some session has died half-way
    refused     \* history: a worker's task for the current attempt was refused

Sessions == Workers \cup Requests
row  == <<job, ledger, reserved>>
sess == <<copy, named, held>>
provider == <<submits, owner>>
history == <<overtaken, died, refused>>
vars == <<row, tasks, provider, pc, sess, history>>

Terminal   == {"succeeded", "failed", "canceled"}
Retryable_AnyTerminal == Terminal  \* Variant: a succeeded job may be retried
Retryable  == {"failed", "canceled"}
Cancelable == {"queued", "running"}
Status     == Terminal \cup Cancelable

Transitions == [queued    |-> {"running", "failed", "canceled"},
                running   |-> {"succeeded", "failed", "canceled"},
                succeeded |-> {},
                failed    |-> {},
                canceled  |-> {}]

CanMove(from, to) == from = to \/ to \in Transitions[from]

\* What a provider reports (_normalize_provider_status).
Reported == {"running"} \cup Terminal

None == 0
ExternalIds == 0..MaxSubmits

Meta == [resv  : 1..MaxReservations,          \* budget_reservation
         queue : Status \cup {"none"},        \* queue.status_at_enqueue
         poll  : ExternalIds]                 \* poll_queue.external_job_id

Jobs == [status : Status, ext : ExternalIds, meta : Meta]

NewJob == [status |-> "queued", ext |-> None,
           meta   |-> [resv |-> 1, queue |-> "none", poll |-> None]]

Labels == {"idle", "execute", "submit", "poll", "apply", "callback", "cancel",
           "retry", "requeue", "update", "enqueue", "enqueued",
           "enqueue_poll", "poll_enqueued"}

TypeOK ==
    /\ job \in Jobs
    /\ ledger \in [1..MaxReservations -> [settle : Nat, release : Nat]]
    /\ reserved \in 1..MaxReservations
    /\ tasks \in [execute : 0..MaxTasks, poll : 0..MaxTasks]
    /\ submits \in ExternalIds
    /\ owner \in [ExternalIds -> 1..MaxReservations]
    /\ pc \in [Sessions -> Labels]
    /\ copy \in [Sessions -> Jobs]
    /\ named \in [Sessions -> ExternalIds]
    /\ held \in [Sessions -> 1..MaxReservations]
    /\ overtaken \in BOOLEAN /\ died \in BOOLEAN /\ refused \in BOOLEAN

\* create_media_generation_job has reserved the budget and inserted the row.
Init ==
    /\ job = NewJob
    /\ ledger = [r \in 1..MaxReservations |-> [settle |-> 0, release |-> 0]]
    /\ reserved = 1
    /\ tasks = [execute |-> 0, poll |-> 0]
    /\ submits = 0
    /\ owner = [n \in ExternalIds |-> 1]
    /\ pc = [s \in Sessions |-> "idle"]
    /\ copy = [s \in Sessions |-> NewJob]
    /\ named = [s \in Sessions |-> None]
    /\ held = [s \in Sessions |-> 1]
    /\ overtaken = FALSE /\ died = FALSE /\ refused = FALSE

-----------------------------------------------------------------------------
Goto(s, l) == pc' = [pc EXCEPT ![s] = l]

\* The session ends; what it held is gone.
End(s) ==
    /\ Goto(s, "idle")
    /\ copy' = [copy EXCEPT ![s] = NewJob]
    /\ named' = [named EXCEPT ![s] = None]
    /\ held' = [held EXCEPT ![s] = 1]

Load(s, l) ==
    /\ pc[s] = "idle"
    /\ Goto(s, l)
    /\ copy' = [copy EXCEPT ![s] = job]

\* An UPDATE names the columns whose value differs from the loaded one; m is
\* the metadata column, or job.meta when the session has not changed it.
Column(new, loaded, stored) == IF new = loaded THEN stored ELSE new

Updated(s, st, e, m) ==
    [status |-> Column(st, copy[s].status, job.status),
     ext    |-> Column(e, copy[s].ext, job.ext),
     meta   |-> m]

\* Leaving the active states closes the reservation the session knows of: it
\* is settled on success and released otherwise.  The ledger's own commit
\* flushes the row, so the two happen together.
ClosingEvent(st) == IF st = "succeeded" THEN "settle" ELSE "release"

Closes(s, st) ==
    IF copy[s].status \in Terminal \/ st \notin Terminal
    THEN UNCHANGED ledger
    ELSE ledger' = [ledger EXCEPT ![copy[s].meta.resv][ClosingEvent(st)] = @ + 1]

Overtakes(s) == overtaken' = (overtaken \/ copy[s] # job)

\* The session commits a row with these columns, and ends.
Commit(s, st, e, m) ==
    /\ job' = Updated(s, st, e, m)
    /\ Closes(s, st)
    /\ Overtakes(s)
    /\ End(s)
    /\ refused' = (refused /\ job'.meta.resv = job.meta.resv)
    /\ UNCHANGED <<reserved, tasks, provider, died>>

\* The session ends without having changed anything.
Quit(s) == End(s) /\ UNCHANGED <<row, tasks, provider, history>>

-----------------------------------------------------------------------------
(* Execution: a worker's task, or POST /generations/{id}/run. *)

MayExecute == job.status \in Cancelable
MayPoll    == job.status = "running" /\ job.ext # None

\* A task that finds the job in another status fails and is gone.
TakeExecute(w) ==
    /\ tasks.execute > 0
    /\ tasks' = [tasks EXCEPT !.execute = @ - 1]
    /\ pc[w] = "idle"
    /\ IF MayExecute THEN Load(w, "execute") ELSE UNCHANGED <<pc, copy>>
    /\ UNCHANGED <<row, provider, named, held, history>>

TakePoll(w) ==
    /\ tasks.poll > 0
    /\ tasks' = [tasks EXCEPT !.poll = @ - 1]
    /\ pc[w] = "idle"
    /\ IF MayPoll THEN Load(w, "poll") ELSE UNCHANGED <<pc, copy>>
    /\ UNCHANGED <<row, provider, named, held, history>>

\* A queued job is committed as running and read back before the provider is
\* called; a running one is submitted again as it is.
StartRunning(s) ==
    /\ pc[s] = "execute"
    /\ Goto(s, "submit")
    /\ IF copy[s].status = "queued"
       THEN /\ \E m \in {copy[s].meta, job.meta} :
                   job' = Updated(s, "running", copy[s].ext, m)
            /\ copy' = [copy EXCEPT ![s] = job']
            /\ Overtakes(s)
       ELSE UNCHANGED <<job, copy, overtaken>>
    /\ UNCHANGED <<ledger, reserved, tasks, provider, named, held, died, refused>>

\* What execution and polling require (access, licence, a provider, the model
\* policy) may be withdrawn after the task was sent, and no adapter be found:
\* the call raises, nothing is committed, and a worker's task is gone.
Raises(s) ==
    /\ pc[s] \in {"execute", "submit", "poll"}
    /\ End(s)
    /\ refused' = \/ refused
                  \/ s \in Workers /\ pc[s] = "execute" /\ copy[s].meta.resv = job.meta.resv
    /\ UNCHANGED <<row, tasks, provider, overtaken, died>>

\* provider.submit: the answer may name the provider's job or not.  What else
\* it says matters when it is applied, and is left open until then.
Submit(s) ==
    /\ pc[s] = "submit"
    /\ submits < MaxSubmits
    /\ submits' = submits + 1
    /\ owner' = [owner EXCEPT ![submits'] = copy[s].meta.resv]
    /\ Goto(s, "apply")
    /\ \E e \in {None, submits'} : named' = [named EXCEPT ![s] = e]
    /\ UNCHANGED <<row, tasks, copy, held, history>>

NewExt(s) == IF named[s] = None THEN copy[s].ext ELSE named[s]

\* update_media_generation_job_status with the provider's answer, checked
\* against the copy: the transition is applied, with or without metadata that
\* differs from the stored one, or refused.
Apply(s, st) ==
    \/ /\ CanMove(copy[s].status, st)
       /\ \E m \in {copy[s].meta, job.meta} : Commit(s, st, NewExt(s), m)
    \/ ~CanMove(copy[s].status, st) /\ Quit(s)

\* A call that raises, or whose outputs cannot be archived, counts as failed
\* although it may have started a job.
ApplySubmit(s) == pc[s] = "apply" /\ \E st \in Reported : Apply(s, st)

\* The provider is not reached or refuses.
SubmitFails(s) == pc[s] = "submit" /\ Apply(s, "failed")

\* provider.poll; a poll that raises leaves the job running.
ApplyPoll(s) == pc[s] = "poll" /\ \E st \in Reported : Apply(s, st)

-----------------------------------------------------------------------------
(* The provider's webhook. *)

\* A callback names the job and perhaps the provider's id of it, which must be
\* the stored one if there is a stored one.  Callbacks about a job that is
\* terminal, and transitions the table forbids, change nothing.
Matches(e) == e = None \/ job.ext = None \/ e = job.ext

Callback(r, e) ==
    /\ job.status \notin Terminal
    /\ Matches(e)
    /\ Load(r, "callback")
    /\ named' = [named EXCEPT ![r] = e]
    /\ UNCHANGED <<row, tasks, provider, held, history>>

\* After the outputs have been archived; if they cannot be, nothing changes.
ApplyCallback(r) ==
    /\ pc[r] = "callback"
    /\ \/ \E st \in Status :
             /\ CanMove(copy[r].status, st)
             /\ Commit(r, st, NewExt(r), copy[r].meta)
       \/ Quit(r)

-----------------------------------------------------------------------------
(* Requests of users and operators. *)

\* A request loads the row and goes on only if what it asks for is possible.
Open(r) ==
    /\ \/ MayExecute /\ Load(r, "execute")
       \/ MayPoll /\ Load(r, "poll")
       \/ job.status \in Cancelable /\ Load(r, "cancel")
       \/ job.status \in Retryable /\ Load(r, "retry")
       \/ Load(r, "update")
       \/ /\ job.status \in Cancelable
          /\ job.meta.queue # job.status       \* no active queue entry
          /\ Load(r, "enqueue")
       \/ /\ MayPoll
          /\ job.meta.poll # job.ext
          /\ Load(r, "enqueue_poll")
    /\ UNCHANGED <<row, tasks, provider, named, held, history>>

Cancel(r) ==
    /\ pc[r] = "cancel"
    /\ Commit(r, "canceled", copy[r].ext, copy[r].meta)

\* retry_media_generation_job commits a new reservation first, then the row.
ReserveAgain(r) ==
    /\ pc[r] = "retry"
    /\ \/ /\ reserved < MaxReservations
          /\ reserved' = reserved + 1
          /\ held' = [held EXCEPT ![r] = reserved']
          /\ Goto(r, "requeue")
          /\ UNCHANGED <<job, ledger, tasks, provider, copy, named, history>>
       \/ Quit(r)                               \* the budget denies it

\* Variants: no reservation in the new metadata, the old one kept, the queue
\* entry of the earlier attempt kept.
Requeued_Unreserved(r) == [copy[r].meta EXCEPT !.resv = None, !.queue = "none"]
Requeued_OldReservation(r) == [copy[r].meta EXCEPT !.queue = "none"]
Requeued_KeepsQueue(r) == [copy[r].meta EXCEPT !.resv = held[r]]

Requeued(r) == [copy[r].meta EXCEPT !.resv = held[r], !.queue = "none"]

Requeue(r) == pc[r] = "requeue" /\ Commit(r, "queued", None, Requeued(r))

\* PATCH /generations/{id}/status, with or without metadata; it may name the
\* job that the provider accepted last.
UpdateStatus(r) ==
    /\ pc[r] = "update"
    /\ \/ \E st \in Status, e \in {copy[r].ext, submits},
             m \in {copy[r].meta, job.meta} :
             CanMove(copy[r].status, st) /\ Commit(r, st, e, m)
       \/ Quit(r)

\* The task is sent before the queue entry is committed.
Send(r) ==
    /\ \/ /\ pc[r] = "enqueue" /\ tasks.execute < MaxTasks
          /\ tasks' = [tasks EXCEPT !.execute = @ + 1]
          /\ Goto(r, "enqueued")
       \/ /\ pc[r] = "enqueue_poll" /\ tasks.poll < MaxTasks
          /\ tasks' = [tasks EXCEPT !.poll = @ + 1]
          /\ Goto(r, "poll_enqueued")
    /\ UNCHANGED <<row, provider, sess, history>>

\* The broker is unavailable: rolled back, nothing was sent.
SendFails(r) == pc[r] \in {"enqueue", "enqueue_poll"} /\ Quit(r)

RecordEnqueue(r) ==
    \/ /\ pc[r] = "enqueued"
       /\ Commit(r, copy[r].status, copy[r].ext,
                 [copy[r].meta EXCEPT !.queue = copy[r].status])
    \/ /\ pc[r] = "poll_enqueued"
       /\ Commit(r, copy[r].status, copy[r].ext,
                 [copy[r].meta EXCEPT !.poll = copy[r].ext])

\* A process dies, or its transaction is rolled back; its task is not
\* delivered again (tasks are acknowledged when they are taken).
Die(s) ==
    /\ Crashes /\ pc[s] # "idle"
    /\ End(s)
    /\ died' = TRUE
    /\ UNCHANGED <<row, tasks, provider, overtaken, refused>>

-----------------------------------------------------------------------------
\* What a session that has begun does next.
Step(s) ==
    \/ StartRunning(s) \/ Submit(s) \/ SubmitFails(s)
    \/ ApplySubmit(s) \/ ApplyPoll(s) \/ ApplyCallback(s)
    \/ Cancel(s) \/ ReserveAgain(s) \/ Requeue(s) \/ UpdateStatus(s)
    \/ Send(s) \/ SendFails(s) \/ RecordEnqueue(s)

Take(w) == TakeExecute(w) \/ TakePoll(w)

Next ==
    \/ \E s \in Sessions : Step(s) \/ Raises(s) \/ Die(s)
    \/ \E w \in Workers : Take(w)
    \/ \E r \in Requests :
          \/ Open(r)
          \/ \E e \in 0..submits : Callback(r, e)

Spec == Init /\ [][Next]_vars

\* Sessions run on, and idle workers take tasks.
FairSpec ==
    /\ Spec
    /\ \A s \in Sessions : WF_vars(Step(s))
    /\ \A w \in Workers : WF_vars(TakeExecute(w)) /\ WF_vars(TakePoll(w))

-----------------------------------------------------------------------------
\* No commit has been over a change its session had not seen: what a version
\* column on the row would guarantee.
Ordered == ~overtaken

\* Every way to finish an attempt closes its reservation exactly once, and in
\* the way that fits: however executions, polls, duplicated and late callbacks,
\* cancellations, retries, operators' updates and crashes interleave, as long
\* as no session commits over a change it has not seen.
ClosedOnceIfOrdered ==
    Ordered =>
        /\ \A r \in 1..MaxReservations : ledger[r].settle + ledger[r].release <= 1
        /\ LET current == ledger[job.meta.resv] IN
              /\ current.settle = 1 <=> job.status = "succeeded"
              /\ current.release = 1 <=> job.status \in {"failed", "canceled"}

\* A terminal job is reopened by a retry, under a reservation of its own, and
\* by nothing else.
FinalUnlessRetried ==
    [][job.status \in Terminal /\ job'.status # job.status /\ ~overtaken'
         => /\ job.status # "succeeded" /\ job'.status = "queued"
            /\ \A s \in Sessions : copy[s].meta.resv # job'.meta.resv]_vars

\* A job that counts as enqueued does get executed: its queue entry stands for
\* a task that is still to come, never for one of an earlier attempt.  But for
\* crashes and stale commits, it is stuck only where a worker took the task of
\* this attempt and a check refused it.
EnqueuedIsTaken ==
    (job.status = "queued" /\ job.meta.queue = "queued")
        ~> (job.status # "queued" \/ overtaken \/ died \/ refused)

\* The table of transitions leaves CANCELED no way out; only a retry reopens
\* the job.
CanceledIsFinal ==
    [][job.status = "canceled" => job'.status \in {"canceled", "queued"}]_vars

\* A callback that names a provider's job changes the status only of the
\* attempt that started this job.
CallbackOfThisAttempt ==
    [][\A r \in Requests :
          ApplyCallback(r) /\ named[r] # None /\ job'.status # job.status
              => owner[named[r]] = copy[r].meta.resv]_vars
=============================================================================
