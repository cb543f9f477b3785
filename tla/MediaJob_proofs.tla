--------------------------- MODULE MediaJob_proofs ---------------------------
(***************************************************************************)
(* Proofs about media generation jobs, for any number of workers, requests, *)
(* reservations and submissions.  The billing of a job is inductive         *)
(* together with who may know which reservation: the row, the copies of the *)
(* sessions and the counter bound what has been reserved, and what a retry  *)
(* has just reserved is known to nobody else until it commits the row.      *)
(***************************************************************************)
EXTENDS MediaJob, TLAPS

-----------------------------------------------------------------------------
(* Types. *)

SessTyped ==
    /\ pc \in [Sessions -> Labels]
    /\ copy \in [Sessions -> Jobs]
    /\ named \in [Sessions -> ExternalIds]
    /\ held \in [Sessions -> 1..MaxReservations]

Ledgers == [1..MaxReservations -> [settle : Nat, release : Nat]]

LEMMA Constants ==
    /\ None \in ExternalIds /\ 1 \in 1..MaxReservations
    /\ NewJob \in Jobs
    /\ Reported \subseteq Status /\ Workers \subseteq Sessions /\ Requests \subseteq Sessions
  <1>1. None \in ExternalIds /\ 1 \in 1..MaxReservations
    BY MediaAssumption DEF None, ExternalIds
  <1>2. NewJob \in Jobs
    BY <1>1 DEF NewJob, Jobs, Meta, Status, Cancelable
  <1> QED
    BY <1>1, <1>2 DEF Reported, Status, Cancelable, Sessions

LEMMA Bounds == MaxReservations \in Nat \ {0} /\ MaxSubmits \in Nat /\ MaxTasks \in Nat
  BY MediaAssumption

LEMMA InitTyped == Init => TypeOK
  <1> SUFFICES ASSUME Init PROVE TypeOK
    OBVIOUS
  <1> HIDE DEF NewJob, Jobs, None, ExternalIds
  <1>1. job \in Jobs /\ reserved \in 1..MaxReservations
    BY Constants DEF Init
  <1>2. ledger \in [1..MaxReservations -> [settle : Nat, release : Nat]]
    BY DEF Init
  <1>3. tasks \in [execute : 0..MaxTasks, poll : 0..MaxTasks] /\ submits \in ExternalIds
    BY MediaAssumption DEF Init, ExternalIds
  <1>4. owner \in [ExternalIds -> 1..MaxReservations]
    BY Constants DEF Init
  <1>5. /\ pc \in [Sessions -> Labels] /\ copy \in [Sessions -> Jobs]
        /\ named \in [Sessions -> ExternalIds] /\ held \in [Sessions -> 1..MaxReservations]
    BY Constants DEF Init, Labels
  <1> QED
    BY <1>1, <1>2, <1>3, <1>4, <1>5 DEF Init, TypeOK

\* What an UPDATE makes of the row.
LEMMA UpdatedTyped ==
    ASSUME TypeOK, NEW s \in Sessions, NEW st \in Status, NEW e \in ExternalIds, NEW m \in Meta
    PROVE  Updated(s, st, e, m) \in Jobs
  <1>1. job.status \in Status /\ job.ext \in ExternalIds
    BY DEF TypeOK, Jobs
  <1>2. /\ Column(st, copy[s].status, job.status) \in Status
        /\ Column(e, copy[s].ext, job.ext) \in ExternalIds
    BY <1>1 DEF Column
  <1> QED
    BY <1>2 DEF Updated, Jobs

\* A closing writes one event, about the reservation the session knows of.
LEMMA ClosingWrites ==
    ASSUME TypeOK, NEW s \in Sessions, NEW st,
           Closes(s, st), copy[s].status \notin Terminal, st \in Terminal
    PROVE  /\ ledger' \in Ledgers
           /\ \A r \in 1..MaxReservations \ {copy[s].meta.resv} : ledger'[r] = ledger[r]
           /\ LET before == ledger[copy[s].meta.resv]
                  after == ledger'[copy[s].meta.resv]
              IN /\ after.settle = before.settle + (IF st = "succeeded" THEN 1 ELSE 0)
                 /\ after.release = before.release + (IF st = "succeeded" THEN 0 ELSE 1)
  <1> DEFINE r == copy[s].meta.resv
  <1>1. r \in 1..MaxReservations
    BY DEF TypeOK, Jobs, Meta
  <1>2. ledger \in Ledgers
    BY DEF TypeOK, Ledgers
  <1>3. ledger' = [ledger EXCEPT ![r][ClosingEvent(st)] = @ + 1]
    BY DEF Closes
  <1> HIDE DEF r
  <1>4. CASE st = "succeeded"
    <2>1. ledger' = [ledger EXCEPT ![r]["settle"] = @ + 1]
      BY <1>3, <1>4 DEF ClosingEvent
    <2> QED
      BY <1>1, <1>2, <1>4, <2>1 DEF Ledgers, r
  <1>5. CASE st # "succeeded"
    <2>1. ledger' = [ledger EXCEPT ![r]["release"] = @ + 1]
      BY <1>3, <1>5 DEF ClosingEvent
    <2> QED
      BY <1>1, <1>2, <1>5, <2>1 DEF Ledgers, r
  <1> QED BY <1>4, <1>5

LEMMA ClosesTyped ==
    ASSUME TypeOK, NEW s \in Sessions, NEW st, Closes(s, st)
    PROVE  ledger' \in Ledgers
  <1>1. CASE UNCHANGED ledger
    BY <1>1 DEF TypeOK, Ledgers
  <1>2. CASE copy[s].status \notin Terminal /\ st \in Terminal
    BY <1>2, ClosingWrites
  <1> QED
    BY <1>1, <1>2 DEF Closes

LEMMA EndTyped ==
    ASSUME TypeOK, NEW s \in Sessions, End(s)
    PROVE  SessTyped'
  <1> HIDE DEF NewJob, Jobs, None, ExternalIds
  <1> QED
    BY Constants DEF TypeOK, End, Goto, SessTyped, Labels

\* Metadata a session may write: its own, or the row's.
LEMMA MetaTyped ==
    ASSUME TypeOK, NEW s \in Sessions
    PROVE  /\ copy[s].meta \in Meta /\ job.meta \in Meta
           /\ copy[s].status \in Status /\ copy[s].ext \in ExternalIds
           /\ NewExt(s) \in ExternalIds
  <1>1. copy[s] \in Jobs /\ job \in Jobs /\ named[s] \in ExternalIds
    BY DEF TypeOK
  <1> QED
    BY <1>1 DEF Jobs, NewExt

LEMMA CommitTyped ==
    ASSUME TypeOK, NEW s \in Sessions, NEW st \in Status, NEW e \in ExternalIds, NEW m \in Meta,
           Commit(s, st, e, m)
    PROVE  TypeOK'
  <1>1. job' \in Jobs
    BY UpdatedTyped DEF Commit
  <1>2. ledger' \in Ledgers
    BY ClosesTyped DEF Commit
  <1>3. SessTyped'
    BY EndTyped DEF Commit
  <1>4. overtaken' \in BOOLEAN
    BY DEF Commit, Overtakes, TypeOK
  <1>5. UNCHANGED <<reserved, tasks, provider, died>>
    BY DEF Commit
  <1>6. refused' \in BOOLEAN
    BY DEF Commit, TypeOK
  <1> QED
    BY <1>1, <1>2, <1>3, <1>4, <1>5, <1>6 DEF TypeOK, Ledgers, SessTyped, provider

LEMMA QuitTyped ==
    ASSUME TypeOK, NEW s \in Sessions, Quit(s)
    PROVE  TypeOK'
  BY EndTyped DEF Quit, TypeOK, SessTyped, row, provider, history

LEMMA ApplyTyped ==
    ASSUME TypeOK, NEW s \in Sessions, NEW st \in Status, Apply(s, st)
    PROVE  TypeOK'
  <1>1. ASSUME NEW m \in {copy[s].meta, job.meta}, Commit(s, st, NewExt(s), m) PROVE TypeOK'
    BY <1>1, MetaTyped, CommitTyped
  <1> QED
    BY <1>1, QuitTyped DEF Apply

LEMMA LoadTyped ==
    ASSUME TypeOK, NEW s \in Sessions, NEW l \in Labels, Load(s, l),
           UNCHANGED <<row, provider, held, history>>,
           tasks' \in [execute : 0..MaxTasks, poll : 0..MaxTasks],
           named' \in [Sessions -> ExternalIds]
    PROVE  TypeOK'
  BY DEF Load, Goto, TypeOK, row, provider, history

\* A session goes on without touching the row.
LEMMA GoOnTyped ==
    ASSUME TypeOK, NEW s \in Sessions, NEW l \in Labels, Goto(s, l),
           UNCHANGED <<job, ledger, copy, history>>,
           reserved' \in 1..MaxReservations, submits' \in ExternalIds,
           owner' \in [ExternalIds -> 1..MaxReservations],
           tasks' \in [execute : 0..MaxTasks, poll : 0..MaxTasks],
           named' \in [Sessions -> ExternalIds],
           held' \in [Sessions -> 1..MaxReservations]
    PROVE  TypeOK'
  BY DEF Goto, TypeOK, history

\* The tasks in the broker.
LEMMA TasksTyped ==
    ASSUME TypeOK
    PROVE  /\ \A k \in {"execute", "poll"} : tasks[k] \in 0..MaxTasks
           /\ \A k \in {"execute", "poll"}, n \in 0..MaxTasks :
                 [tasks EXCEPT ![k] = n] \in [execute : 0..MaxTasks, poll : 0..MaxTasks]
  BY DEF TypeOK

LEMMA TakeTyped ==
    ASSUME TypeOK, NEW w \in Workers, Take(w)
    PROVE  TypeOK'
  <1>1. ASSUME NEW k \in {"execute", "poll"}, NEW l \in Labels,
               tasks[k] > 0, tasks' = [tasks EXCEPT ![k] = tasks[k] - 1],
               Load(w, l) \/ UNCHANGED <<pc, copy>>,
               UNCHANGED <<row, provider, named, held, history>>
        PROVE  TypeOK'
    <2>1. tasks[k] - 1 \in 0..MaxTasks
      BY <1>1, TasksTyped, MediaAssumption
    <2>2. tasks' \in [execute : 0..MaxTasks, poll : 0..MaxTasks]
      BY <1>1, <2>1, TasksTyped
    <2>3. named' \in [Sessions -> ExternalIds] /\ w \in Sessions
      BY <1>1, Constants DEF TypeOK
    <2>4. CASE Load(w, l)
      BY <1>1, <2>2, <2>3, <2>4, LoadTyped
    <2>5. CASE UNCHANGED <<pc, copy>>
      BY <1>1, <2>2, <2>5 DEF TypeOK, row, provider, history
    <2> QED BY <1>1, <2>4, <2>5
  <1>2. CASE TakeExecute(w)
    <2>1. /\ tasks["execute"] > 0 /\ tasks' = [tasks EXCEPT !["execute"] = tasks["execute"] - 1]
          /\ Load(w, "execute") \/ UNCHANGED <<pc, copy>>
          /\ UNCHANGED <<row, provider, named, held, history>>
      BY <1>2 DEF TakeExecute
    <2>2. "execute" \in Labels
      BY DEF Labels
    <2> QED
      BY ONLY <1>1, <2>1, <2>2
  <1>3. CASE TakePoll(w)
    <2>1. /\ tasks["poll"] > 0 /\ tasks' = [tasks EXCEPT !["poll"] = tasks["poll"] - 1]
          /\ Load(w, "poll") \/ UNCHANGED <<pc, copy>>
          /\ UNCHANGED <<row, provider, named, held, history>>
      BY <1>3 DEF TakePoll
    <2>2. "poll" \in Labels
      BY DEF Labels
    <2> QED
      BY ONLY <1>1, <2>1, <2>2
  <1> QED BY <1>2, <1>3 DEF Take

\* Requests and callbacks that come in.
LEMMA ArrivalTyped ==
    ASSUME TypeOK, NEW r \in Requests, Open(r) \/ (\E e \in 0..submits : Callback(r, e))
    PROVE  TypeOK'
  <1>1. r \in Sessions
    BY Constants
  <1>2. CASE Open(r)
    <2>1. \E l \in {"execute", "poll", "cancel", "retry", "update", "enqueue", "enqueue_poll"} :
             Load(r, l)
      BY <1>2 DEF Open
    <2>2. UNCHANGED <<row, tasks, provider, named, held, history>>
      BY <1>2 DEF Open
    <2> QED
      BY <1>1, <2>1, <2>2, LoadTyped DEF Labels, TypeOK
  <1>3. ASSUME NEW e \in 0..submits, Callback(r, e) PROVE TypeOK'
    <2>1. e \in ExternalIds
      BY MediaAssumption DEF TypeOK, ExternalIds
    <2>2. /\ named' \in [Sessions -> ExternalIds] /\ Load(r, "callback")
          /\ UNCHANGED <<row, tasks, provider, held, history>>
      BY <1>3, <2>1 DEF Callback, TypeOK
    <2> QED
      BY <1>1, <2>2, LoadTyped DEF Labels, TypeOK
  <1> QED BY <1>2, <1>3

LEMMA RequeuedTyped ==
    ASSUME TypeOK, NEW r \in Sessions
    PROVE  Requeued(r) \in Meta /\ Requeued(r).resv = held[r]
  <1>1. copy[r].meta \in Meta /\ held[r] \in 1..MaxReservations
    BY MetaTyped DEF TypeOK
  <1> QED
    BY <1>1 DEF Requeued, Meta

\* Submissions and reservations are numbered within the bounds.
LEMMA NumberingTyped ==
    ASSUME TypeOK, NEW s \in Sessions, Submit(s) \/ ReserveAgain(s)
    PROVE  TypeOK'
  <1>1. CASE Submit(s)
    <2>0. submits < MaxSubmits /\ submits' = submits + 1 /\ submits \in ExternalIds
      BY <1>1 DEF Submit, TypeOK
    <2>1. submits' = submits + 1 /\ submits' \in ExternalIds
      BY ONLY <2>0, Bounds DEF ExternalIds
    <2>2. copy[s].meta.resv \in 1..MaxReservations
      BY DEF TypeOK, Jobs, Meta
    <2>3. owner' \in [ExternalIds -> 1..MaxReservations]
      BY <1>1, <2>2 DEF Submit, TypeOK
    <2>4. named' \in [Sessions -> ExternalIds]
      BY <1>1, <2>1, Constants DEF Submit, TypeOK
    <2>5. Goto(s, "apply") /\ UNCHANGED <<row, tasks, copy, held, history>>
      BY <1>1 DEF Submit
    <2> QED
      BY <2>1, <2>3, <2>4, <2>5, GoOnTyped DEF Labels, TypeOK, row
  <1>2. CASE ReserveAgain(s)
    <2>1. CASE Quit(s)
      BY <2>1, QuitTyped
    <2>2. CASE reserved < MaxReservations /\ ~Quit(s)
      <3>0. /\ reserved < MaxReservations /\ reserved' = reserved + 1
            /\ held' = [held EXCEPT ![s] = reserved'] /\ reserved \in 1..MaxReservations
            /\ held \in [Sessions -> 1..MaxReservations]
        BY <1>2, <2>2 DEF ReserveAgain, TypeOK
      <3>1. reserved' \in 1..MaxReservations /\ held' \in [Sessions -> 1..MaxReservations]
        BY ONLY <3>0, Bounds
      <3>2. Goto(s, "requeue") /\ UNCHANGED <<job, ledger, tasks, provider, copy, named, history>>
        BY <1>2, <2>2 DEF ReserveAgain
      <3> QED
        BY <3>1, <3>2, GoOnTyped DEF Labels, TypeOK, provider
    <2> QED BY <1>2, <2>1, <2>2 DEF ReserveAgain
  <1> QED BY <1>1, <1>2

LEMMA StartRunningTyped ==
    ASSUME TypeOK, NEW s \in Sessions, StartRunning(s)
    PROVE  TypeOK'
  <1>1. Goto(s, "submit") /\ UNCHANGED <<ledger, reserved, tasks, provider, named, held, died, refused>>
    BY DEF StartRunning
  <1>2. job' \in Jobs /\ copy' \in [Sessions -> Jobs] /\ overtaken' \in BOOLEAN
    <2>1. CASE copy[s].status = "queued"
      <3>1. PICK m \in {copy[s].meta, job.meta} : job' = Updated(s, "running", copy[s].ext, m)
        BY <2>1 DEF StartRunning
      <3>2. job' \in Jobs
        BY <3>1, MetaTyped, UpdatedTyped DEF Status, Cancelable
      <3> QED
        BY <2>1, <3>2 DEF StartRunning, Overtakes, TypeOK
    <2>2. CASE copy[s].status # "queued"
      BY <2>2 DEF StartRunning, TypeOK
    <2> QED BY <2>1, <2>2
  <1> QED
    BY <1>1, <1>2 DEF Goto, TypeOK, Labels, provider

LEMMA SendTyped ==
    ASSUME TypeOK, NEW r \in Sessions, Send(r)
    PROVE  TypeOK'
  <1>1. /\ UNCHANGED <<row, provider, sess, history>>
        /\ \E l \in Labels : Goto(r, l)
    BY DEF Send, Labels
  <1>2. ASSUME NEW k \in {"execute", "poll"}, tasks[k] < MaxTasks,
               tasks' = [tasks EXCEPT ![k] = tasks[k] + 1]
        PROVE  tasks' \in [execute : 0..MaxTasks, poll : 0..MaxTasks]
    <2>1. tasks[k] + 1 \in 0..MaxTasks
      BY ONLY <1>2, TasksTyped, TypeOK, Bounds
    <2> QED BY <1>2, <2>1, TasksTyped
  <1>3. \E k \in {"execute", "poll"} :
           tasks[k] < MaxTasks /\ tasks' = [tasks EXCEPT ![k] = tasks[k] + 1]
    BY DEF Send
  <1>4. tasks' \in [execute : 0..MaxTasks, poll : 0..MaxTasks]
    BY <1>2, <1>3
  <1> QED
    BY <1>1, <1>4, GoOnTyped DEF TypeOK, row, provider, sess

-----------------------------------------------------------------------------
(* What sessions do to the row. *)

\* A session that cancels or retries has loaded a job that allows it.
Labelled ==
    \A s \in Sessions :
        /\ pc[s] = "cancel" => copy[s].status \in Cancelable
        /\ pc[s] \in {"retry", "requeue"} => copy[s].status \in Retryable

\* Every commit but a retry's makes a transition of the table, from the status the
\* session loaded, and leaves the reservation alone.
CommitsTransition(s) ==
    \E st \in Status, e \in ExternalIds, m \in Meta :
        /\ Commit(s, st, e, m)
        /\ CanMove(copy[s].status, st)
        /\ m.resv \in {copy[s].meta.resv, job.meta.resv}

LEMMA ApplyShape ==
    ASSUME TypeOK, NEW s \in Sessions, NEW st \in Status, Apply(s, st)
    PROVE  CommitsTransition(s) \/ Quit(s)
  BY MetaTyped DEF Apply, CommitsTransition

LEMMA StepShapes ==
    ASSUME TypeOK, Labelled, NEW s \in Sessions, Step(s)
    PROVE  \/ StartRunning(s) \/ Submit(s) \/ ReserveAgain(s) \/ Requeue(s) \/ Send(s)
           \/ CommitsTransition(s) \/ Quit(s)
  <1> USE MetaTyped
  <1>1. CASE SubmitFails(s)
    BY <1>1, ApplyShape DEF SubmitFails, Status, Terminal
  <1>2. CASE ApplySubmit(s) \/ ApplyPoll(s)
    BY <1>2, ApplyShape, Constants DEF ApplySubmit, ApplyPoll
  <1>3. CASE ApplyCallback(s)
    BY <1>3 DEF ApplyCallback, CommitsTransition
  <1>4. CASE Cancel(s)
    <2>1. "canceled" \in Status /\ CanMove(copy[s].status, "canceled")
      BY <1>4 DEF Cancel, Labelled, Status, Terminal, Cancelable, CanMove, Transitions
    <2> QED
      BY <1>4, <2>1 DEF Cancel, CommitsTransition
  <1>5. CASE UpdateStatus(s)
    <2>1. submits \in ExternalIds
      BY DEF TypeOK
    <2> QED
      BY <1>5, <2>1 DEF UpdateStatus, CommitsTransition
  <1>6. CASE SendFails(s)
    BY <1>6 DEF SendFails
  <1>7. CASE RecordEnqueue(s)
    <2>1. CanMove(copy[s].status, copy[s].status)
      BY DEF CanMove
    <2>2. ASSUME NEW m \in Meta, Commit(s, copy[s].status, copy[s].ext, m),
                 m.resv = copy[s].meta.resv
          PROVE  CommitsTransition(s)
      BY <2>1, <2>2 DEF CommitsTransition
    <2>3. /\ [copy[s].meta EXCEPT !.queue = copy[s].status] \in Meta
          /\ [copy[s].meta EXCEPT !.queue = copy[s].status].resv = copy[s].meta.resv
          /\ [copy[s].meta EXCEPT !.poll = copy[s].ext] \in Meta
          /\ [copy[s].meta EXCEPT !.poll = copy[s].ext].resv = copy[s].meta.resv
      BY DEF Meta
    <2> QED
      BY <1>7, <2>2, <2>3 DEF RecordEnqueue
  <1> QED
    BY <1>1, <1>2, <1>3, <1>4, <1>5, <1>6, <1>7 DEF Step

LEMMA StepTyped ==
    ASSUME TypeOK, Labelled, NEW s \in Sessions, Step(s)
    PROVE  TypeOK'
  <1>1. CASE Requeue(s)
    BY <1>1, RequeuedTyped, CommitTyped, Constants DEF Requeue, Status, Cancelable
  <1>2. CASE CommitsTransition(s)
    BY <1>2, CommitTyped DEF CommitsTransition
  <1> QED
    BY <1>1, <1>2, StepShapes, StartRunningTyped, NumberingTyped, SendTyped, QuitTyped

LEMMA NextTyped == TypeOK /\ Labelled /\ [Next]_vars => TypeOK'
  <1> SUFFICES ASSUME TypeOK, Labelled, [Next]_vars PROVE TypeOK'
    OBVIOUS
  <1>1. ASSUME NEW s \in Sessions, Die(s) PROVE TypeOK'
    BY <1>1, EndTyped DEF Die, TypeOK, SessTyped, row, provider
  <1>3. ASSUME NEW s \in Sessions, Raises(s) PROVE TypeOK'
    <2>1. refused' \in BOOLEAN
      BY <1>3 DEF Raises, TypeOK
    <2> QED
      BY <1>3, <2>1, EndTyped DEF Raises, TypeOK, SessTyped, row, provider
  <1>2. CASE UNCHANGED vars
    BY <1>2 DEF vars, row, provider, sess, history, TypeOK
  <1> QED
    BY <1>1, <1>2, <1>3, StepTyped, TakeTyped, ArrivalTyped DEF Next

\* The next label of a session that neither cancels nor retries.
LEMMA LabelledMove ==
    ASSUME TypeOK, Labelled, NEW s \in Sessions, NEW l \in Labels, Goto(s, l),
           \A t \in Sessions \ {s} : copy'[t] = copy[t],
           l = "cancel" => copy'[s].status \in Cancelable,
           l \in {"retry", "requeue"} => copy'[s].status \in Retryable
    PROVE  Labelled'
  BY DEF Labelled, Goto, TypeOK

LEMMA EndLabelled ==
    ASSUME TypeOK, Labelled, NEW s \in Sessions, End(s)
    PROVE  Labelled'
  BY LabelledMove DEF End, TypeOK, Labels

LEMMA LoadLabelled ==
    ASSUME TypeOK, Labelled, NEW s \in Sessions, NEW l \in Labels, Load(s, l),
           l = "cancel" => job.status \in Cancelable,
           l \in {"retry", "requeue"} => job.status \in Retryable
    PROVE  Labelled'
  <1>1. copy'[s] = job /\ \A t \in Sessions \ {s} : copy'[t] = copy[t]
    BY DEF Load, TypeOK
  <1> QED
    BY <1>1, LabelledMove DEF Load

LEMMA NextLabelled == TypeOK /\ Labelled /\ [Next]_vars => Labelled'
  <1> SUFFICES ASSUME TypeOK, Labelled, [Next]_vars PROVE Labelled'
    OBVIOUS
  <1>1. ASSUME NEW s \in Sessions, Step(s) PROVE Labelled'
    <2>1. CASE StartRunning(s)
      <3>1. Goto(s, "submit") /\ \A t \in Sessions \ {s} : copy'[t] = copy[t]
        BY <2>1 DEF StartRunning, TypeOK
      <3> QED
        BY <3>1, LabelledMove DEF Labels
    <2>2. CASE Submit(s) \/ Send(s)
      <3>1. /\ \E l \in {"apply", "enqueued", "poll_enqueued"} : Goto(s, l)
            /\ UNCHANGED copy
        BY <2>2 DEF Submit, Send, sess
      <3> QED
        BY <3>1, LabelledMove DEF Labels
    <2>3. CASE ReserveAgain(s)
      <3>1. CASE Quit(s)
        BY <3>1, EndLabelled DEF Quit
      <3>2. CASE ~Quit(s)
        <4>1. Goto(s, "requeue") /\ UNCHANGED copy /\ copy[s].status \in Retryable
          BY <2>3, <3>2 DEF ReserveAgain, Labelled
        <4> QED
          BY <4>1, LabelledMove DEF Labels
      <3> QED BY <3>1, <3>2
    <2>4. CASE Requeue(s) \/ CommitsTransition(s) \/ Quit(s)
      BY <2>4, EndLabelled DEF Requeue, CommitsTransition, Commit, Quit
    <2> QED
      BY <1>1, <2>1, <2>2, <2>3, <2>4, StepShapes
  <1>2. ASSUME NEW s \in Sessions, Die(s) \/ Raises(s) PROVE Labelled'
    BY <1>2, EndLabelled DEF Die, Raises
  <1>3. ASSUME NEW w \in Workers, Take(w) PROVE Labelled'
    <2>1. Load(w, "execute") \/ Load(w, "poll") \/ UNCHANGED <<pc, copy>>
      BY <1>3 DEF Take, TakeExecute, TakePoll
    <2>2. CASE UNCHANGED <<pc, copy>>
      BY <2>2 DEF Labelled
    <2> QED
      BY <2>1, <2>2, LoadLabelled, Constants DEF Labels
  <1>4. ASSUME NEW r \in Requests, Open(r) PROVE Labelled'
    <2>1. \/ \E l \in {"execute", "poll", "update", "enqueue", "enqueue_poll"} : Load(r, l)
          \/ job.status \in Cancelable /\ Load(r, "cancel")
          \/ job.status \in Retryable /\ Load(r, "retry")
      BY <1>4 DEF Open
    <2> QED
      BY <2>1, LoadLabelled, Constants DEF Labels
  <1>5. ASSUME NEW r \in Requests, NEW e, Callback(r, e) PROVE Labelled'
    BY <1>5, LoadLabelled, Constants DEF Callback, Labels
  <1>6. CASE UNCHANGED vars
    BY <1>6 DEF vars, sess, Labelled
  <1> QED
    BY <1>1, <1>2, <1>3, <1>4, <1>5, <1>6 DEF Next

-----------------------------------------------------------------------------
(* Who knows of which reservation. *)

Unused(r) == ledger[r].settle = 0 /\ ledger[r].release = 0

\* The reservation a retry has made before it commits the row.
Fresh(r) ==
    /\ r \in 2..reserved /\ Unused(r) /\ job.meta.resv # r
    /\ \A s \in Sessions : copy[s].meta.resv # r

Reservations ==
    /\ job.meta.resv <= reserved
    /\ \A s \in Sessions : copy[s].meta.resv <= reserved
    /\ \A r \in 1..MaxReservations : r > reserved => Unused(r)
    /\ \A s \in Sessions : pc[s] = "requeue" =>
          /\ Fresh(held[s])
          /\ \A t \in Sessions \ {s} : pc[t] = "requeue" => held[t] # held[s]

\* What the counter bounds.
LEMMA ResvRange ==
    ASSUME TypeOK, Reservations
    PROVE  /\ reserved \in 1..MaxReservations /\ job.meta.resv \in 1..reserved
           /\ \A s \in Sessions : copy[s].meta.resv \in 1..reserved
  <1>1. reserved \in 1..MaxReservations /\ job.meta.resv \in 1..MaxReservations
    BY DEF TypeOK, Jobs, Meta
  <1>2. \A s \in Sessions : copy[s].meta.resv \in 1..MaxReservations
    BY DEF TypeOK, Jobs, Meta
  <1>3. job.meta.resv <= reserved /\ \A s \in Sessions : copy[s].meta.resv <= reserved
    BY DEF Reservations
  <1> QED
    BY ONLY <1>1, <1>2, <1>3, Bounds

\* The row, and a session's new copy of it, name a reservation that was known before.
LEMMA KnownReservations ==
    ASSUME TypeOK, Reservations, NEW s \in Sessions,
           UNCHANGED reserved,
           job'.meta.resv \in {job.meta.resv, copy[s].meta.resv},
           copy'[s].meta.resv \in {1, job.meta.resv, copy[s].meta.resv},
           \A t \in Sessions \ {s} : copy'[t] = copy[t] /\ held'[t] = held[t] /\ pc'[t] = pc[t],
           pc'[s] # "requeue",
           \A r \in 1..MaxReservations \ {copy[s].meta.resv} : ledger'[r] = ledger[r]
    PROVE  Reservations'
  <1>1. /\ job.meta.resv \in 1..reserved /\ reserved \in 1..MaxReservations
        /\ \A t \in Sessions : copy[t].meta.resv \in 1..reserved
    BY ResvRange
  <1>2. job'.meta.resv \in 1..reserved /\ \A t \in Sessions : copy'[t].meta.resv \in 1..reserved
    BY <1>1
  <1>3. ASSUME NEW r \in 1..MaxReservations, r > reserved PROVE Unused(r)'
    <2>1. r # copy[s].meta.resv /\ ledger'[r] = ledger[r]
      BY <1>1, <1>3
    <2>2. Unused(r)
      BY <1>3 DEF Reservations
    <2> QED
      BY <2>1, <2>2 DEF Unused
  <1>4. ASSUME NEW t \in Sessions, pc'[t] = "requeue", NEW h, h = held[t]
        PROVE  /\ held'[t] = h /\ Fresh(h)'
               /\ \A u \in Sessions \ {t} : pc'[u] = "requeue" => held'[u] # h
    <2>1. t # s /\ pc[t] = "requeue" /\ held'[t] = h
      BY <1>4
    <2>2. Fresh(h) /\ \A u \in Sessions \ {t} : pc[u] = "requeue" => held[u] # h
      BY <1>4, <2>1 DEF Reservations
    <2>3. /\ h \in 2..reserved /\ Unused(h) /\ job.meta.resv # h
          /\ \A u \in Sessions : copy[u].meta.resv # h
      BY <2>2 DEF Fresh
    <2>4. h # 1 /\ h \in 1..MaxReservations
      BY <2>3, <1>1, Bounds
    <2>5. Unused(h)'
      BY <2>3, <2>4 DEF Unused
    <2>6. Fresh(h)'
      BY <2>3, <2>4, <2>5 DEF Fresh
    <2> QED
      BY <2>1, <2>2, <2>6
  <1>5. ASSUME NEW t \in Sessions, pc'[t] = "requeue"
        PROVE  /\ Fresh(held[t])'
               /\ \A u \in Sessions \ {t} : pc'[u] = "requeue" => held'[u] # held'[t]
    <2>1. PICK h : h = held[t]
      OBVIOUS
    <2> QED
      BY <1>4, <1>5, <2>1 DEF Fresh, Unused
  <1> QED
    BY <1>1, <1>2, <1>3, <1>5 DEF Reservations

LEMMA EndForgets ==
    ASSUME TypeOK, NEW s \in Sessions, End(s)
    PROVE  /\ copy'[s].meta.resv = 1 /\ pc'[s] = "idle"
           /\ \A t \in Sessions \ {s} : copy'[t] = copy[t] /\ held'[t] = held[t] /\ pc'[t] = pc[t]
  BY DEF End, Goto, TypeOK, NewJob

LEMMA UpdatedResv ==
    ASSUME NEW s, NEW st, NEW e, NEW m
    PROVE  /\ Updated(s, st, e, m).meta = m
           /\ Updated(s, st, e, m).status = Column(st, copy[s].status, job.status)
  BY DEF Updated

\* A closing is about no reservation but the session's own.
LEMMA ClosesOwn ==
    ASSUME TypeOK, NEW s \in Sessions, NEW st, Closes(s, st)
    PROVE  \A r \in 1..MaxReservations \ {copy[s].meta.resv} : ledger'[r] = ledger[r]
  BY ClosingWrites DEF Closes

\* A retry reserves under a number that nobody has seen.
LEMMA ReserveAgainKeeps ==
    ASSUME TypeOK, Reservations, NEW s \in Sessions, ReserveAgain(s), ~Quit(s)
    PROVE  Reservations'
  <1>0. PICK n : n = reserved + 1
    OBVIOUS
  <1>1. /\ reserved < MaxReservations /\ reserved' = n
        /\ held' = [held EXCEPT ![s] = n] /\ pc' = [pc EXCEPT ![s] = "requeue"]
        /\ UNCHANGED <<job, ledger, copy>>
    BY <1>0 DEF ReserveAgain, Goto
  <1>2. /\ job.meta.resv \in 1..reserved /\ reserved \in 1..MaxReservations
        /\ \A t \in Sessions : copy[t].meta.resv \in 1..reserved
    BY ResvRange
  <1>3. n \in 2..MaxReservations /\ n > reserved
    BY <1>0, <1>1, <1>2, Bounds
  <1>4. Fresh(n)'
    <2>1. Unused(n)
      BY <1>3 DEF Reservations
    <2>2. n \in 2..reserved' /\ job.meta.resv # n /\ \A t \in Sessions : copy[t].meta.resv # n
      BY <1>1, <1>2, <1>3
    <2> QED
      BY <1>1, <2>1, <2>2 DEF Fresh, Unused
  <1>5. ASSUME NEW t \in Sessions \ {s}, pc'[t] = "requeue", NEW h, h = held[t]
        PROVE  Fresh(h)' /\ held'[t] = h /\ h # n /\ pc[t] = "requeue"
    <2>1. pc[t] = "requeue" /\ held'[t] = h
      BY <1>1, <1>5 DEF TypeOK
    <2>2. Fresh(h)
      BY <1>5, <2>1 DEF Reservations
    <2>3. h \in 2..reserved /\ h # n /\ h \in 2..reserved'
      BY <1>1, <1>2, <1>3, <2>2 DEF Fresh
    <2> QED
      BY <1>1, <2>1, <2>2, <2>3 DEF Fresh, Unused
  <1>6. held'[s] = n
    BY <1>1 DEF TypeOK
  <1>7. ASSUME NEW t \in Sessions, pc'[t] = "requeue"
        PROVE  /\ Fresh(held[t])'
               /\ \A u \in Sessions \ {t} : pc'[u] = "requeue" => held'[u] # held'[t]
    <2>1. CASE t = s
      BY <1>4, <1>5, <1>6, <2>1 DEF Fresh, Unused
    <2>2. CASE t # s
      <3>1. PICK h : h = held[t]
        OBVIOUS
      <3>2. Fresh(h)' /\ held'[t] = h /\ h # n /\ pc[t] = "requeue"
        BY <1>5, <1>7, <2>2, <3>1
      <3>3. ASSUME NEW u \in Sessions \ {t}, pc'[u] = "requeue" PROVE held'[u] # h
        BY <1>5, <1>6, <3>1, <3>2, <3>3 DEF Reservations
      <3> QED
        BY <3>2, <3>3 DEF Fresh, Unused
    <2> QED BY <2>1, <2>2
  <1>8. /\ job'.meta.resv <= reserved' /\ \A t \in Sessions : copy'[t].meta.resv <= reserved'
        /\ \A r \in 1..MaxReservations : r > reserved' => Unused(r)'
    <2>1. \A k \in 1..reserved : k <= reserved'
      BY <1>1, <1>2, <1>3
    <2>2. \A r \in 1..MaxReservations : r > reserved' => r > reserved
      BY <1>1, <1>2, <1>3
    <2> QED
      BY <1>1, <1>2, <2>1, <2>2 DEF Reservations, Unused
  <1> QED
    BY <1>7, <1>8 DEF Reservations

\* The retry's commit makes its reservation known.
LEMMA RequeueKeeps ==
    ASSUME TypeOK, Reservations, Labelled, NEW s \in Sessions, Requeue(s)
    PROVE  Reservations'
  <1>1. copy[s].status \in Retryable /\ pc[s] = "requeue"
    BY DEF Requeue, Labelled
  <1>2. UNCHANGED <<ledger, reserved>>
    BY <1>1 DEF Requeue, Commit, Closes, Retryable, Terminal
  <1>3. PICK n : n = held[s]
    OBVIOUS
  <1>4. job'.meta.resv = n
    BY <1>3, RequeuedTyped, UpdatedResv DEF Requeue, Commit
  <1>5. /\ copy'[s].meta.resv = 1 /\ pc'[s] = "idle"
        /\ \A t \in Sessions \ {s} : copy'[t] = copy[t] /\ held'[t] = held[t] /\ pc'[t] = pc[t]
    BY EndForgets DEF Requeue, Commit
  <1>6. n \in 2..reserved
    BY <1>1, <1>3 DEF Reservations, Fresh
  <1>7. reserved \in Nat /\ 1 <= reserved /\ n <= reserved
    BY <1>6 DEF TypeOK
  <1>8. ASSUME NEW t \in Sessions, pc'[t] = "requeue", NEW h, h = held[t]
        PROVE  /\ held'[t] = h /\ Fresh(h)'
               /\ \A u \in Sessions \ {t} : pc'[u] = "requeue" => held'[u] # h
    <2>1. t # s /\ pc[t] = "requeue" /\ held'[t] = h
      BY <1>5, <1>8
    <2>2. Fresh(h) /\ \A u \in Sessions \ {t} : pc[u] = "requeue" => held[u] # h
      BY <1>8, <2>1 DEF Reservations
    <2>3. h # 1 /\ h # n
      BY <1>1, <1>3, <1>7, <2>1, <2>2 DEF Fresh
    <2>4. Fresh(h)'
      BY <1>2, <1>4, <1>5, <2>2, <2>3 DEF Fresh, Unused
    <2> QED
      BY <1>5, <2>1, <2>2, <2>4
  <1>9. ASSUME NEW t \in Sessions, pc'[t] = "requeue"
        PROVE  /\ Fresh(held[t])'
               /\ \A u \in Sessions \ {t} : pc'[u] = "requeue" => held'[u] # held'[t]
    <2>1. PICK h : h = held[t]
      OBVIOUS
    <2> QED
      BY <1>8, <1>9, <2>1 DEF Fresh, Unused
  <1>10. /\ job'.meta.resv <= reserved'
         /\ \A t \in Sessions : copy'[t].meta.resv <= reserved'
         /\ \A r \in 1..MaxReservations : r > reserved' => Unused(r)'
    BY <1>2, <1>4, <1>5, <1>7 DEF Reservations, Unused
  <1> QED
    BY <1>9, <1>10 DEF Reservations

LEMMA NextReservations ==
    TypeOK /\ Labelled /\ Reservations /\ [Next]_vars => Reservations'
  <1> SUFFICES ASSUME TypeOK, Labelled, Reservations, [Next]_vars PROVE Reservations'
    OBVIOUS
  <1>1. ASSUME NEW s \in Sessions, Quit(s) \/ Die(s) \/ Raises(s) PROVE Reservations'
    <2>1. End(s) /\ UNCHANGED row
      BY <1>1 DEF Quit, Die, Raises
    <2> QED
      BY <2>1, EndForgets, KnownReservations DEF row
  <1>2. ASSUME NEW s \in Sessions, NEW l \in Labels \ {"requeue"}, Load(s, l),
               UNCHANGED <<row, held>>
        PROVE  Reservations'
    <2>1. /\ copy'[s] = job /\ pc'[s] = l
          /\ \A t \in Sessions \ {s} : copy'[t] = copy[t] /\ pc'[t] = pc[t]
      BY <1>2 DEF Load, Goto, TypeOK
    <2> QED
      BY <1>2, <2>1, KnownReservations DEF row
  <1>3. ASSUME NEW s \in Sessions, CommitsTransition(s) PROVE Reservations'
    <2>1. PICK st \in Status, e \in ExternalIds, m \in Meta :
             Commit(s, st, e, m) /\ m.resv \in {copy[s].meta.resv, job.meta.resv}
      BY <1>3 DEF CommitsTransition
    <2>2. job'.meta = m /\ End(s) /\ Closes(s, st) /\ UNCHANGED reserved
      BY <2>1, UpdatedResv DEF Commit
    <2> QED
      BY <2>1, <2>2, EndForgets, ClosesOwn, KnownReservations
  <1>4. ASSUME NEW s \in Sessions, StartRunning(s) PROVE Reservations'
    <2>1. /\ UNCHANGED <<ledger, reserved, held>> /\ pc'[s] = "submit"
          /\ \A t \in Sessions \ {s} : copy'[t] = copy[t] /\ pc'[t] = pc[t]
      BY <1>4 DEF StartRunning, Goto, TypeOK
    <2>2. CASE copy[s].status = "queued"
      <3>1. PICK m \in {copy[s].meta, job.meta} : job' = Updated(s, "running", copy[s].ext, m)
        BY <1>4, <2>2 DEF StartRunning
      <3>2. job'.meta = m /\ copy'[s] = job'
        BY <1>4, <2>2, <3>1, UpdatedResv DEF StartRunning, TypeOK
      <3> QED
        BY <2>1, <3>2, KnownReservations
    <2>3. CASE copy[s].status # "queued"
      <3>1. UNCHANGED <<job, copy>>
        BY <1>4, <2>3 DEF StartRunning
      <3> QED
        BY <2>1, <3>1, KnownReservations
    <2> QED BY <2>2, <2>3
  <1>5. ASSUME NEW s \in Sessions, Submit(s) \/ Send(s) PROVE Reservations'
    <2>1. /\ UNCHANGED <<row, copy, held>> /\ pc'[s] # "requeue"
          /\ \A t \in Sessions \ {s} : pc'[t] = pc[t]
      BY <1>5 DEF Submit, Send, sess, Goto, TypeOK
    <2> QED
      BY <2>1, KnownReservations DEF row
  <1>6. ASSUME NEW s \in Sessions, Step(s) PROVE Reservations'
    BY <1>1, <1>3, <1>4, <1>5, <1>6, StepShapes, ReserveAgainKeeps, RequeueKeeps
  <1>7. ASSUME UNCHANGED <<row, copy, held, pc>> PROVE Reservations'
    BY <1>7 DEF row, Reservations, Fresh, Unused
  <1>8. ASSUME NEW w \in Workers, Take(w) PROVE Reservations'
    <2>1. \/ \E l \in {"execute", "poll"} : Load(w, l) /\ UNCHANGED <<row, held>>
          \/ UNCHANGED <<row, copy, held, pc>>
      BY <1>8 DEF Take, TakeExecute, TakePoll
    <2> QED
      BY <2>1, <1>2, <1>7, Constants DEF Labels
  <1>9. ASSUME NEW r \in Requests, Open(r) \/ (\E e \in 0..submits : Callback(r, e))
        PROVE  Reservations'
    <2>1. \E l \in {"execute", "poll", "cancel", "retry", "update", "enqueue", "enqueue_poll",
                    "callback"} : Load(r, l) /\ UNCHANGED <<row, held>>
      BY <1>9 DEF Open, Callback
    <2> QED
      BY <2>1, <1>2, Constants DEF Labels
  <1>10. CASE UNCHANGED vars
    BY <1>7, <1>10 DEF vars, sess
  <1> QED
    BY <1>1, <1>6, <1>8, <1>9, <1>10 DEF Next

-----------------------------------------------------------------------------
(* The bill of the job. *)

\* The events of the job's reservation say how the job has ended.
LedgerOfJob ==
    /\ \A r \in 1..MaxReservations : ledger[r].settle + ledger[r].release <= 1
    /\ ledger[job.meta.resv].settle = (IF job.status = "succeeded" THEN 1 ELSE 0)
    /\ ledger[job.meta.resv].release = (IF job.status \in Retryable THEN 1 ELSE 0)

\* A commit over a row the session has seen: the status moves as the session meant.
LEMMA SeenCommit ==
    ASSUME TypeOK, NEW s \in Sessions, NEW st, NEW e, NEW m,
           Commit(s, st, e, m), ~overtaken'
    PROVE  copy[s] = job /\ job'.status = st /\ job'.meta = m /\ Closes(s, st)
  <1>1. copy[s] = job
    BY DEF Commit, Overtakes
  <1>2. job' = Updated(s, st, e, m) /\ Closes(s, st)
    BY DEF Commit
  <1>3. Column(st, copy[s].status, job.status) = st
    BY <1>1 DEF Column
  <1>4. Updated(s, st, e, m).meta = m /\ Updated(s, st, e, m).status = st
    BY <1>3, UpdatedResv
  <1> QED
    BY ONLY <1>1, <1>2, <1>4

LEMMA TransitionKeepsLedger ==
    ASSUME TypeOK, LedgerOfJob, NEW s \in Sessions, CommitsTransition(s), ~overtaken'
    PROVE  LedgerOfJob'
  <1>1. PICK st \in Status, e \in ExternalIds, m \in Meta :
           /\ Commit(s, st, e, m) /\ CanMove(copy[s].status, st)
           /\ m.resv \in {copy[s].meta.resv, job.meta.resv}
    BY DEF CommitsTransition
  <1>2. /\ copy[s] = job /\ job'.status = st /\ job'.meta.resv = job.meta.resv
        /\ Closes(s, st) /\ CanMove(job.status, st)
    BY <1>1, SeenCommit
  <1>3. job.meta.resv \in 1..MaxReservations /\ job.status \in Status
    BY DEF TypeOK, Jobs, Meta
  <1>4. CASE job.status \in Terminal
    <2>1. st = job.status /\ UNCHANGED ledger
      BY <1>2, <1>4 DEF CanMove, Transitions, Terminal, Closes
    <2> QED
      BY <1>2, <2>1 DEF LedgerOfJob
  <1>5. CASE job.status \notin Terminal /\ st \notin Terminal
    <2>1. UNCHANGED ledger
      BY <1>2, <1>5 DEF Closes
    <2> QED
      BY <1>2, <1>5, <2>1 DEF LedgerOfJob, Terminal, Retryable
  <1>6. CASE job.status \notin Terminal /\ st \in Terminal
    <2>1. ledger[job.meta.resv].settle = 0 /\ ledger[job.meta.resv].release = 0
      BY <1>6 DEF LedgerOfJob, Terminal, Retryable
    <2>2. /\ \A r \in 1..MaxReservations \ {job.meta.resv} : ledger'[r] = ledger[r]
          /\ ledger'[job.meta.resv].settle = (IF st = "succeeded" THEN 1 ELSE 0)
          /\ ledger'[job.meta.resv].release = (IF st = "succeeded" THEN 0 ELSE 1)
      BY <1>2, <1>6, <2>1, ClosingWrites
    <2>3. \A r \in 1..MaxReservations : ledger'[r].settle + ledger'[r].release <= 1
      BY <2>2 DEF LedgerOfJob
    <2> QED
      BY <1>2, <1>6, <2>2, <2>3 DEF LedgerOfJob, Terminal, Retryable
  <1> QED BY <1>4, <1>5, <1>6

LEMMA RequeueKeepsLedger ==
    ASSUME TypeOK, Labelled, Reservations, LedgerOfJob, NEW s \in Sessions, Requeue(s),
           ~overtaken'
    PROVE  LedgerOfJob'
  <1>1. copy[s].status \in Retryable /\ Fresh(held[s])
    BY DEF Requeue, Labelled, Reservations
  <1>0. Commit(s, "queued", None, Requeued(s)) /\ Requeued(s).resv = held[s]
    BY RequeuedTyped DEF Requeue
  <1>2. /\ job'.status = "queued" /\ job'.meta.resv = held[s] /\ UNCHANGED ledger
    <2>1. job'.status = "queued" /\ job'.meta = Requeued(s) /\ Closes(s, "queued")
      BY <1>0, SeenCommit
    <2> QED
      BY <1>0, <2>1 DEF Closes, Terminal
  <1>3. ledger[held[s]].settle = 0 /\ ledger[held[s]].release = 0
    BY <1>1 DEF Fresh, Unused
  <1> QED
    BY <1>2, <1>3 DEF LedgerOfJob, Retryable

LEMMA StartRunningKeepsLedger ==
    ASSUME TypeOK, LedgerOfJob, NEW s \in Sessions, StartRunning(s), ~overtaken'
    PROVE  LedgerOfJob'
  <1>1. CASE copy[s].status = "queued"
    <2>1. PICK m \in {copy[s].meta, job.meta} : job' = Updated(s, "running", copy[s].ext, m)
      BY <1>1 DEF StartRunning
    <2>2. copy[s] = job
      BY <1>1 DEF StartRunning, Overtakes
    <2>3. /\ job'.meta = job.meta /\ job'.status = "running" /\ job.status = "queued"
          /\ UNCHANGED ledger
      BY <1>1, <2>1, <2>2, UpdatedResv DEF StartRunning, Column
    <2> QED
      BY <2>3 DEF LedgerOfJob, Retryable
  <1>2. CASE copy[s].status # "queued"
    BY <1>2 DEF StartRunning, LedgerOfJob
  <1> QED BY <1>1, <1>2

\* Nobody else writes the row or the ledger.
LEMMA RowWriters ==
    ASSUME TypeOK, Labelled, [Next]_vars
    PROVE  \/ UNCHANGED <<job, ledger, overtaken>>
           \/ \E s \in Sessions : StartRunning(s) \/ Requeue(s) \/ CommitsTransition(s)
  <1>1. ASSUME NEW s \in Sessions, Step(s)
        PROVE  \/ UNCHANGED <<job, ledger, overtaken>>
               \/ StartRunning(s) \/ Requeue(s) \/ CommitsTransition(s)
    BY <1>1, StepShapes DEF Submit, Send, ReserveAgain, Quit, row, history
  <1>2. ASSUME NEW s \in Sessions, Die(s) \/ Raises(s)
        PROVE  UNCHANGED <<job, ledger, overtaken>>
    BY <1>2 DEF Die, Raises, row
  <1>3. ASSUME NEW w \in Workers, Take(w) PROVE UNCHANGED <<job, ledger, overtaken>>
    BY <1>3 DEF Take, TakeExecute, TakePoll, row, history
  <1>4. ASSUME NEW r \in Requests, Open(r) \/ (\E e \in 0..submits : Callback(r, e))
        PROVE  UNCHANGED <<job, ledger, overtaken>>
    BY <1>4 DEF Open, Callback, row, history
  <1>5. CASE UNCHANGED vars
    BY <1>5 DEF vars, row, history
  <1> QED
    BY <1>1, <1>2, <1>3, <1>4, <1>5 DEF Next

LEMMA OnceOvertaken ==
    ASSUME TypeOK, Labelled, [Next]_vars, ~overtaken'
    PROVE  ~overtaken
  <1>1. CASE UNCHANGED overtaken
    BY <1>1
  <1>2. ASSUME NEW s \in Sessions, StartRunning(s) \/ Requeue(s) \/ CommitsTransition(s)
        PROVE  ~overtaken
    BY <1>2 DEF StartRunning, Requeue, CommitsTransition, Commit, Overtakes
  <1> QED
    BY <1>1, <1>2, RowWriters

IndInv == TypeOK /\ Labelled /\ Reservations /\ (Ordered => LedgerOfJob)

LEMMA InitIndInv == Init => IndInv
  <1> SUFFICES ASSUME Init PROVE IndInv
    OBVIOUS
  <1>1. TypeOK
    BY InitTyped
  <1>2. /\ job.status = "queued" /\ job.meta.resv = 1 /\ reserved = 1
        /\ \A s \in Sessions : copy[s].meta.resv = 1 /\ pc[s] = "idle"
        /\ \A r \in 1..MaxReservations : ledger[r].settle = 0 /\ ledger[r].release = 0
    BY DEF Init, NewJob
  <1>3. Labelled
    BY <1>2 DEF Labelled
  <1>4. Reservations
    BY <1>2 DEF Reservations, Unused
  <1>5. LedgerOfJob
    BY <1>2, Constants DEF LedgerOfJob, Retryable
  <1> QED
    BY <1>1, <1>3, <1>4, <1>5 DEF IndInv

LEMMA NextIndInv == IndInv /\ [Next]_vars => IndInv'
  <1> SUFFICES ASSUME IndInv, [Next]_vars PROVE IndInv'
    OBVIOUS
  <1>1. TypeOK' /\ Labelled' /\ Reservations'
    BY NextTyped, NextLabelled, NextReservations DEF IndInv
  <1>2. ASSUME ~overtaken' PROVE LedgerOfJob'
    <2>1. LedgerOfJob /\ TypeOK /\ Labelled /\ Reservations
      BY <1>2, OnceOvertaken DEF IndInv, Ordered
    <2>2. CASE UNCHANGED <<job, ledger, overtaken>>
      BY <2>1, <2>2 DEF LedgerOfJob
    <2> QED
      BY <1>2, <2>1, <2>2, RowWriters, StartRunningKeepsLedger, RequeueKeepsLedger,
         TransitionKeepsLedger
  <1> QED
    BY <1>1, <1>2 DEF IndInv, Ordered

LEMMA MediaInvariant == Spec => []IndInv
  BY InitIndInv, NextIndInv, PTL DEF Spec

\* Every variable stays in its type.
THEOREM MediaTypes == Spec => []TypeOK
  <1>1. IndInv => TypeOK
    BY DEF IndInv
  <1> QED
    BY <1>1, MediaInvariant, PTL

\* Each attempt of a job is billed once and as it ended, whoever ends it (worker, poll,
\* callback, cancellation, operator), as long as no session commits over a row it has not
\* seen (update_media_generation_job_status and the closings of the budget it makes).
THEOREM MediaClosedOnce == Spec => []ClosedOnceIfOrdered
  <1>1. IndInv => ClosedOnceIfOrdered
    <2> SUFFICES ASSUME IndInv, Ordered PROVE ClosedOnceIfOrdered
      BY DEF ClosedOnceIfOrdered
    <2>1. LedgerOfJob
      BY DEF IndInv
    <2> QED
      BY <2>1 DEF LedgerOfJob, ClosedOnceIfOrdered, Retryable
  <1> QED
    BY <1>1, MediaInvariant, PTL

\* Only a retry reopens a job that has ended, and it does so under a reservation that no
\* session has seen (retry_media_generation_job).
THEOREM MediaFinalUnlessRetried == Spec => FinalUnlessRetried
  <1> DEFINE Final ==
        job.status \in Terminal /\ job'.status # job.status /\ ~overtaken'
          => /\ job.status # "succeeded" /\ job'.status = "queued"
             /\ \A s \in Sessions : copy[s].meta.resv # job'.meta.resv
  <1>1. IndInv /\ [Next]_vars => Final
    <2> SUFFICES ASSUME IndInv, [Next]_vars,
                        job.status \in Terminal, job'.status # job.status, ~overtaken'
                 PROVE  /\ job.status # "succeeded" /\ job'.status = "queued"
                        /\ \A s \in Sessions : copy[s].meta.resv # job'.meta.resv
      OBVIOUS
    <2>1. TypeOK /\ Labelled /\ Reservations
      BY DEF IndInv
    <2>2. PICK s \in Sessions : StartRunning(s) \/ Requeue(s) \/ CommitsTransition(s)
      BY <2>1, RowWriters
    <2>3. ~StartRunning(s)
      BY DEF StartRunning, Overtakes, Terminal
    <2>4. ~CommitsTransition(s)
      <3> SUFFICES ASSUME CommitsTransition(s) PROVE FALSE
        OBVIOUS
      <3>1. PICK st \in Status, e \in ExternalIds, m \in Meta :
               Commit(s, st, e, m) /\ CanMove(copy[s].status, st)
        BY DEF CommitsTransition
      <3>2. CanMove(job.status, st) /\ job'.status = st
        BY <2>1, <3>1, SeenCommit
      <3> QED
        BY <3>2 DEF CanMove, Transitions, Terminal
    <2>5. Requeue(s)
      BY <2>2, <2>3, <2>4
    <2>6. /\ copy[s] = job /\ job'.status = "queued" /\ job'.meta.resv = held[s]
          /\ copy[s].status \in Retryable /\ Fresh(held[s])
      BY <2>1, <2>5, SeenCommit, RequeuedTyped DEF Requeue, Labelled, Reservations
    <2> QED
      BY <2>6 DEF Retryable, Fresh
  <1>2. Spec => [][Final]_vars
    BY <1>1, MediaInvariant, PTL DEF Spec
  <1> QED
    BY <1>2 DEF FinalUnlessRetried
=============================================================================
