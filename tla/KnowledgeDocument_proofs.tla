------------------------ MODULE KnowledgeDocument_proofs ------------------------
(***************************************************************************)
(* Proofs about KnowledgeDocument, for any documents and any number of      *)
(* overlapping sessions.                                                    *)
(***************************************************************************)
EXTENDS KnowledgeDocument, TLAPS

-----------------------------------------------------------------------------
(* The inductive invariant. *)

\* Where a session goes on with the row it read, and where it has deleted chunks.
Reading == {"clear", "clearing", "save", "complete", "start", "parse", "replacing",
            "insert", "embed"}
Deleted == {"clearing", "save", "replacing", "insert", "embed"}

Work == [pc : Pcs, op : Ops, doc : Documents \cup {NoDocument}, copy : Status \cup {"none"},
         doomed : SUBSET Documents, listed : SUBSET Documents, stale : SUBSET Documents]

Placed(w) ==
    /\ w.doc = NoDocument => w.pc = "idle" \/ w.op = "archive"
    /\ w.op = "archive" => w.pc \in {"list", "clear", "clearing", "save"}
    /\ w.pc = "list" => w.op = "archive"
    /\ w.op = "fail" => w.pc \in {"load", "save"}
    /\ w.pc = "create" => w.copy = "none"

\* A session that works on one document and has missed no commit to it knows its status,
\* and neither the document nor its base is deleted.
Knows(w) ==
    w.pc # "idle" /\ w.op # "archive" /\ w.doc \notin w.stale
        => /\ ~archived
           /\ w.pc # "load" => w.doc \notin deleted
           /\ w.pc \in Reading => w.copy = status[w.doc]

\* One that archives the base knows which documents there are.
Lists(w) ==
    w.op = "archive"
        => /\ archived => w.stale = Documents
           /\ w.pc # "list" =>
                 \A d \in Documents \ w.stale :
                    d \in w.listed <=> d \notin deleted /\ status[d] \notin {"none", "deleted"}

Docs(w) == IF w.op = "archive" THEN Documents ELSE {w.doc}

\* The chunks a session deletes exist, are of its documents, and are all that it has seen.
Deletes(w) ==
    /\ w.doomed \subseteq chunks \cap Docs(w)
    /\ w.pc \notin Deleted \/ w.op = "fail" => w.doomed = {}
    /\ w.pc \in Deleted /\ w.op # "fail" =>
          \A d \in Docs(w) \ w.stale : d \in chunks => d \in w.doomed

Sound(w) == w \in Work /\ Placed(w) /\ Knows(w) /\ Lists(w) /\ Deletes(w)

\* What is INGESTING is ingested by a session that has missed nothing.
Owns(w, d) == w.doc = d /\ w.pc \in Ingesting /\ d \notin w.stale

Owned ==
    \A d \in Documents \ (overtaken \cup lost \cup refused) :
        status[d] = "ingesting" => \E s \in Sessions : Owns(session[s], d)

\* The rows and chunks; a row that is deleted was inserted.
Stored ==
    /\ status \in [Documents -> Status \cup {"none"}] /\ deleted \subseteq Documents
    /\ archived \in BOOLEAN /\ chunks \subseteq Documents
    /\ overtaken \subseteq Documents /\ lost \subseteq Documents /\ refused \subseteq Documents
    /\ \A d \in deleted : status[d] # "none"

Inv == /\ Stored /\ Owned /\ WhatIsDeletedIsGone /\ IndexedIsRetrievable
       /\ session \in [Sessions -> Work]
       /\ \A s \in Sessions : Sound(session[s])

-----------------------------------------------------------------------------
(* Steps. *)

\* A step of one session that commits nothing: it must stay sound, and may not give up an
\* ingestion it owns, unless it is lost or refused.
LEMMA LocalStep ==
    ASSUME Inv, NEW s \in Sessions, NEW w, Sound(w),
           session' = [session EXCEPT ![s] = w], UNCHANGED <<rows, chunks, overtaken>>,
           lost \subseteq lost', lost' \subseteq Documents,
           refused \subseteq refused', refused' \subseteq Documents,
           \A d \in Documents : Owns(session[s], d) => Owns(w, d) \/ d \in lost' \cup refused'
    PROVE  Inv'
<1> USE DEF Inv
<1>1. Stored' /\ WhatIsDeletedIsGone' /\ IndexedIsRetrievable'
  BY DEF Stored, WhatIsDeletedIsGone, IndexedIsRetrievable, rows
<1>2. session' \in [Sessions -> Work]
  BY DEF Sound
<1>3. ASSUME NEW t \in Sessions PROVE Sound(session[t])'
  <2>1. session'[t] = IF t = s THEN w ELSE session[t]
    BY <1>2
  <2>2. Sound(session'[t])
    BY <2>1
  <2> QED BY <2>2 DEF Sound, Knows, Lists, Deletes, Docs, rows, Placed
<1>4. Owned'
  <2> SUFFICES ASSUME NEW d \in Documents \ (overtaken' \cup lost' \cup refused'), status'[d] = "ingesting"
               PROVE  \E t \in Sessions : Owns(session'[t], d)
    BY DEF Owned, Owns
  <2>1. PICK t \in Sessions : Owns(session[t], d)
    BY DEF Owned, rows
  <2>2. CASE t = s
    BY <2>1, <2>2
  <2>3. CASE t # s
    BY <2>1, <2>3
  <2> QED BY <2>2, <2>3
<1> QED BY <1>1, <1>2, <1>3, <1>4

\* A commit makes the other sessions miss what it changed, and takes nothing else away.
LEMMA CommitOthers ==
    ASSUME Inv, NEW s \in Sessions, NEW t \in Sessions, t # s,
           NEW D \in SUBSET Documents, NEW ingested \in SUBSET D, NEW next,
           session[s].doomed \subseteq D, Commit(s, D, ingested, next),
           \A d \in Documents \ D : status'[d] = status[d] /\ (d \in deleted' <=> d \in deleted),
           archived' = archived \/ D = Documents
    PROVE  Sound(session[t])'
<1> SUFFICES ASSUME NEW v, v = session'[t] PROVE Sound(v)'
  BY DEF Sound, Placed, Knows, Lists, Deletes, Docs
<1> DEFINE u == session[t]
           changed == session[s].doomed \cup ingested
<1>1. Sound(u) /\ session[s] \in Work
  BY DEF Inv
<1>2. v = IF u.pc = "idle" THEN NoWork
          ELSE [u EXCEPT !.stale = @ \cup D, !.doomed = @ \ changed]
  BY DEF Commit
<1>3. CASE u.pc = "idle"
  <2>1. v = NoWork
    BY <1>2, <1>3
  <2>2. v \in Work /\ Placed(v)
    BY <2>1 DEF NoWork, Work, Pcs, Ops, Placed
  <2>3. Knows(v)' /\ Lists(v)' /\ Deletes(v)'
    BY <2>1 DEF NoWork, Knows, Lists, Deletes, Deleted
  <2> QED BY <2>2, <2>3 DEF Sound, Placed
<1>4. CASE u.pc # "idle"
  <2>1. /\ v.pc = u.pc /\ v.op = u.op /\ v.doc = u.doc /\ v.copy = u.copy /\ v.listed = u.listed
        /\ v.stale = u.stale \cup D /\ v.doomed = u.doomed \ changed
    BY <1>1, <1>2, <1>4 DEF Sound, Work
  <2>2. v \in Work /\ Placed(v)
    BY <1>1, <1>2, <1>4, <2>1 DEF Sound, Work, Placed
  <2>3. Knows(v)'
    <3> SUFFICES ASSUME v.pc # "idle", v.op # "archive", v.doc \notin v.stale
                 PROVE  /\ ~archived'
                        /\ v.pc # "load" => v.doc \notin deleted'
                        /\ v.pc \in Reading => v.copy = status'[v.doc]
      BY DEF Knows
    <3>1. v.doc \in Documents \ D /\ v.doc \notin u.stale
      BY <2>1, <2>2 DEF Work, Placed
    <3> QED BY <1>1, <2>1, <3>1 DEF Sound, Knows
  <2>4. Lists(v)'
    <3> SUFFICES ASSUME v.op = "archive"
                 PROVE  /\ archived' => v.stale = Documents
                        /\ v.pc # "list" =>
                              \A d \in Documents \ v.stale :
                                 d \in v.listed <=> d \notin deleted' /\ status'[d] \notin {"none", "deleted"}
      BY DEF Lists
    <3>1. u.stale \subseteq Documents
      BY <1>1 DEF Sound, Work
    <3> QED BY <1>1, <2>1, <3>1 DEF Sound, Lists
  <2>5. chunks' = (chunks \ session[s].doomed) \cup ingested
    BY DEF Commit
  <2>6. Deletes(v)'
    <3>1. Docs(v) = Docs(u)
      BY <2>1 DEF Docs
    <3>2. v.doomed \subseteq chunks' \cap Docs(v)
      BY <1>1, <2>1, <2>5, <3>1 DEF Sound, Deletes
    <3>3. ASSUME v.pc \in Deleted, v.op # "fail", NEW d \in Docs(v) \ v.stale, d \in chunks'
          PROVE  d \in v.doomed
      BY <1>1, <2>1, <2>5, <3>1, <3>3 DEF Sound, Deletes
    <3> QED BY <1>1, <2>1, <3>2, <3>3 DEF Sound, Deletes, Docs
  <2> QED BY <2>2, <2>3, <2>4, <2>6 DEF Sound, Placed
<1> QED BY <1>3, <1>4

\* A commit keeps the invariant if its own session does and if what it leaves, of what it
\* had seen, is as it should be.
LEMMA CommitStep ==
    ASSUME Inv, NEW s \in Sessions, NEW D \in SUBSET Documents, NEW ingested \in SUBSET D, NEW next,
           session[s].doomed \subseteq D, Commit(s, D, ingested, next),
           \A d \in Documents : Owns(session[s], d) => d \in D,
           \A d \in Documents \ D : status'[d] = status[d] /\ (d \in deleted' <=> d \in deleted),
           archived' = archived \/ D = Documents,
           status' \in [Documents -> Status \cup {"none"}], deleted' \subseteq Documents,
           archived' \in BOOLEAN, \A d \in deleted' : status'[d] # "none",
           Sound(session[s])',
           \A d \in D \ (session[s].stale \cup overtaken) :
              /\ d \in deleted' => status'[d] = "deleted"
              /\ d \in deleted' \/ archived' => d \notin chunks'
              /\ status'[d] = "indexed" /\ ~archived' => d \in chunks'
              /\ status'[d] = "ingesting" => Owns(session'[s], d)
    PROVE  Inv'
<1>1. /\ chunks' = (chunks \ session[s].doomed) \cup ingested
      /\ overtaken' = overtaken \cup (D \cap session[s].stale) /\ lost' = lost \ D
      /\ refused' = refused \ D
  BY DEF Commit
<1>2. Stored'
  BY <1>1 DEF Stored, Inv
<1>3. ASSUME NEW t \in Sessions PROVE Sound(session[t])'
  BY <1>3, CommitOthers
<1>4. session' \in [Sessions -> Work]
  BY <1>3 DEF Sound, Commit
<1>5. WhatIsDeletedIsGone'
  BY <1>1 DEF WhatIsDeletedIsGone, Inv
<1>6. IndexedIsRetrievable'
  BY <1>1 DEF IndexedIsRetrievable, Inv
<1>7. Owned'
  <2> SUFFICES ASSUME NEW d \in Documents \ (overtaken' \cup lost' \cup refused'), status'[d] = "ingesting"
               PROVE  \E t \in Sessions : Owns(session'[t], d)
    BY DEF Owned, Owns
  <2>1. CASE d \in D
    BY <1>1, <2>1
  <2>2. CASE d \notin D
    <3>1. PICK t \in Sessions : Owns(session[t], d)
      BY <1>1, <2>2 DEF Owned, Inv
    <3>2. t # s /\ session[t].pc # "idle"
      BY <2>2, <3>1 DEF Owns, Ingesting
    <3>3. session'[t] = [session[t] EXCEPT !.stale = @ \cup D,
                                           !.doomed = @ \ (session[s].doomed \cup ingested)]
      BY <3>2 DEF Commit
    <3>4. Owns(session'[t], d)
      BY <2>2, <3>1, <3>3 DEF Owns, Inv, Work
    <3> QED BY <3>4
  <2> QED BY <2>1, <2>2
<1> QED BY <1>2, <1>3, <1>4, <1>5, <1>6, <1>7 DEF Inv, Sound

\* A session that works on a document owns no other.
LEMMA OwnDocument ==
    ASSUME Inv, NEW s \in Sessions, session[s].pc # "idle", session[s].op # "archive"
    PROVE  /\ session[s] \in Work /\ session[s].doc \in Documents
           /\ session[s].doomed \subseteq {session[s].doc}
BY DEF Inv, Sound, Work, Placed, Deletes, Docs

LEMMA NoWorkSound == Sound(NoWork) /\ Sound(NoWork)'
BY DEF Sound, NoWork, Work, Placed, Knows, Lists, Deletes, Deleted, Pcs, Ops

\* A commit of a status that a session decided on, with the row it had read.
LEMMA SaveStep ==
    ASSUME Inv, NEW s \in Sessions, NEW new \in Status, NEW ingested \in SUBSET {session[s].doc},
           NEW next, NEW pc \in {"put", "saved", "completed", "started"},
           session[s].pc \notin {"idle", "load"}, session[s].op # "archive",
           session[s].pc \in Reading \/ session[s].copy # new,
           next = NoWork \/ (next = At(s, pc) /\ session[s].op # "fail"),
           new = "indexed" => session[s].doc \in ingested,
           new = "ingesting" => next = At(s, pc) /\ pc = "started",
           Save(s, new, ingested, next)
    PROVE  Inv'
<1> DEFINE u == session[s]
           d == u.doc
<1>1. /\ u \in Work /\ Sound(u) /\ d \in Documents /\ u.doomed \subseteq {d}
  BY OwnDocument DEF Inv
<1>2. /\ status' = [status EXCEPT ![d] = Written(s, new)] /\ UNCHANGED <<deleted, archived>>
      /\ Commit(s, {d}, ingested, next) /\ chunks' = (chunks \ u.doomed) \cup ingested
      /\ session'[s] = next
  BY DEF Save, Commit
<1>3. Written(s, new) \in {new, status[d]} /\ Stored
  BY DEF Written, Inv
<1>4. /\ status' \in [Documents -> Status \cup {"none"}] /\ status'[d] = Written(s, new)
      /\ \A e \in Documents \ {d} : status'[e] = status[e]
      /\ \A e \in deleted' : status'[e] # "none"
  BY <1>1, <1>2, <1>3 DEF Stored, Status
<1>5. d \notin u.stale => ~archived /\ d \notin deleted /\ status'[d] = new
  BY <1>1, <1>4 DEF Sound, Knows, Written
<1>6. Sound(session[s])'
  <2>1. CASE next = NoWork
    BY <1>2, <2>1, NoWorkSound DEF Sound, Placed, Knows, Lists, Deletes, Docs
  <2>2. CASE next # NoWork
    <3> SUFFICES ASSUME NEW w, w = [u EXCEPT !.pc = pc, !.doomed = {}, !.copy = "none"],
                        session'[s] = w
                 PROVE  Sound(w)'
      BY <1>2, <2>2 DEF At, Sound, Placed, Knows, Lists, Deletes, Docs
    <3>1. /\ w.pc = pc /\ w.op = u.op /\ w.doc = d /\ w.stale = u.stale /\ w.doomed = {}
          /\ u.op # "fail"
      BY <1>1, <2>2 DEF Work
    <3> w \in Work
      <4>1. pc \in Pcs
        BY DEF Pcs, Ingesting
      <4> QED BY <1>1, <4>1 DEF Work
    <3>2. Placed(w) /\ Knows(w)' /\ Lists(w)' /\ Deletes(w)'
      BY <1>1, <1>2, <1>5, <3>1 DEF Placed, Knows, Lists, Deletes, Reading, Deleted, Sound
    <3> QED BY <3>1, <3>2 DEF Sound, Placed
  <2> QED BY <2>1, <2>2
<1>7. ASSUME NEW e \in {d} \ (u.stale \cup overtaken)
      PROVE  /\ e \in deleted' => status'[e] = "deleted"
             /\ e \in deleted' \/ archived' => e \notin chunks'
             /\ status'[e] = "indexed" /\ ~archived' => e \in chunks'
             /\ status'[e] = "ingesting" => Owns(session'[s], e)
  <2>1. e = d /\ ~archived' /\ e \notin deleted' /\ status'[e] = new
    BY <1>2, <1>5
  <2>2. new = "indexed" => e \in chunks'
    BY <1>2, <2>1
  <2>3. new = "ingesting" => Owns(session'[s], e)
    BY <1>1, <1>2, <2>1 DEF At, Owns, Work, Ingesting
  <2> QED BY <2>1, <2>2, <2>3
<1>8. \A e \in Documents : Owns(u, e) => e \in {d}
  BY DEF Owns
<1>9. {d} \in SUBSET Documents /\ deleted' \subseteq Documents /\ archived' \in BOOLEAN
  BY <1>1, <1>2, <1>3 DEF Stored
<1> QED BY <1>1, <1>2, <1>4, <1>6, <1>7, <1>8, <1>9, CommitStep

-----------------------------------------------------------------------------
(* The steps that commit nothing. *)

\* A session that ends owns nothing, or is lost or refused.
LEMMA EndStep ==
    ASSUME Inv, NEW s \in Sessions, End(s), UNCHANGED <<rows, chunks, overtaken>>,
           lost \subseteq lost', lost' \subseteq Documents,
           refused \subseteq refused', refused' \subseteq Documents,
           \A d \in Documents : Owns(session[s], d) => d \in lost' \cup refused'
    PROVE  Inv'
BY LocalStep, NoWorkSound DEF End

LEMMA BeginSomeStep == ASSUME Inv, NEW s \in Sessions, BeginSome(s) PROVE Inv'
<1>0. session[s].pc = "idle" /\ ~archived /\ UNCHANGED <<rows, chunks, overtaken, lost, refused>> /\ Stored
  BY DEF BeginSome, BeginUpload, Begin, BeginArchive, history, Inv
<1>1. ASSUME NEW w, Sound(w), session' = [session EXCEPT ![s] = w] PROVE Inv'
  BY <1>0, <1>1, LocalStep DEF Owns, Ingesting, Stored
<1>2. ASSUME NEW d \in Documents, BeginUpload(s, d) PROVE Inv'
  <2> DEFINE w == [NoWork EXCEPT !.pc = "create", !.doc = d]
  <2>1. session' = [session EXCEPT ![s] = w] /\ d \notin deleted
    BY <1>0, <1>2 DEF BeginUpload, Stored
  <2>2. /\ w.pc = "create" /\ w.op = "upload" /\ w.doc = d /\ w.copy = "none"
        /\ w.doomed = {} /\ w.listed = {} /\ w.stale = {}
    BY DEF NoWork
  <2>3. w \in Work
    BY NoWorkSound DEF Sound, Work, Pcs, Ops
  <2>4. Placed(w) /\ Knows(w) /\ Lists(w) /\ Deletes(w)
    BY <1>0, <2>1, <2>2, KnowledgeAssumption DEF Placed, Knows, Lists, Deletes, Deleted, Reading
  <2> QED BY <1>1, <2>1, <2>3, <2>4 DEF Sound
<1>3. ASSUME NEW d \in Documents, NEW op \in {"complete", "reingest", "delete"}, Begin(s, op, d)
      PROVE  Inv'
  <2> DEFINE w == [NoWork EXCEPT !.pc = "load", !.op = op, !.doc = d]
  <2>1. session' = [session EXCEPT ![s] = w]
    BY <1>3 DEF Begin
  <2>2. /\ w.pc = "load" /\ w.op = op /\ w.doc = d /\ w.copy = "none"
        /\ w.doomed = {} /\ w.listed = {} /\ w.stale = {}
    BY DEF NoWork
  <2>3. w \in Work
    BY NoWorkSound DEF Sound, Work, Pcs, Ops
  <2>4. Placed(w) /\ Knows(w) /\ Lists(w) /\ Deletes(w)
    BY <1>0, <2>2, KnowledgeAssumption DEF Placed, Knows, Lists, Deletes, Deleted, Reading
  <2> QED BY <1>1, <2>1, <2>3, <2>4 DEF Sound
<1>4. ASSUME BeginArchive(s) PROVE Inv'
  <2> DEFINE w == [NoWork EXCEPT !.pc = "list", !.op = "archive"]
  <2>1. session' = [session EXCEPT ![s] = w]
    BY <1>4 DEF BeginArchive
  <2>2. Sound(w)
    BY <1>0 DEF Sound, NoWork, Work, Placed, Knows, Lists, Deletes, Deleted, Reading, Pcs, Ops
  <2> QED BY <1>1, <2>1, <2>2
<1> QED BY <1>2, <1>3, <1>4 DEF BeginSome

\* The object stored or not, and the row read.
LEMMA LoadStep == ASSUME Inv, NEW s \in Sessions, PutObject(s) \/ Load(s) PROVE Inv'
<1> DEFINE u == session[s]
<1>1. /\ u \in Work /\ Sound(u) /\ u.doomed = {} /\ Stored
      /\ UNCHANGED <<rows, chunks, overtaken, lost, refused>>
      /\ \A d \in Documents : ~Owns(u, d)
  BY DEF Inv, Sound, Deletes, Deleted, Owns, Ingesting, PutObject, Load, history
<1>2. ASSUME NEW w, Sound(w), session' = [session EXCEPT ![s] = w] PROVE Inv'
  BY <1>1, <1>2, LocalStep DEF Stored
<1>3. CASE End(s)
  BY <1>2, <1>3, NoWorkSound DEF End
<1>4. CASE PutObject(s) /\ ~End(s)
  <2>1. PICK op \in {"complete", "fail"} :
           session' = [session EXCEPT ![s] = [u EXCEPT !.pc = "load", !.op = op]]
    BY <1>1, <1>4 DEF PutObject, Inv
  <2> DEFINE w == [u EXCEPT !.pc = "load", !.op = op]
  <2>2. w \in Work /\ u.pc = "put"
    BY <1>1, <1>4 DEF PutObject, Work, Pcs, Ops
  <2>3. Sound(w)
    BY <1>1, <2>2 DEF Sound, Work, Placed, Knows, Lists, Deletes, Deleted, Reading
  <2> QED BY <1>2, <2>1, <2>3
<1>5. CASE Load(s) /\ ~End(s)
  <2> DEFINE d == u.doc
             w == [u EXCEPT !.pc = AfterLoad(s), !.copy = status[d],
                            !.stale = IF archived THEN @ ELSE {}]
  <2>1. session' = [session EXCEPT ![s] = w] /\ u.pc = "load" /\ d \notin deleted
    BY <1>1, <1>5 DEF Load, Inv
  <2>2. u.op # "archive" /\ d \in Documents
    BY <1>1, <2>1 DEF Sound, Placed, Work
  <2>3. /\ AfterLoad(s) \in {"complete", "save", "clear"}
        /\ AfterLoad(s) = "save" <=> u.op = "fail"
    BY DEF AfterLoad
  <2>4. status[d] \in Status \cup {"none"} /\ AfterLoad(s) \in Pcs
    BY <1>1, <2>2, <2>3 DEF Stored, Pcs
  <2>5. w \in Work
    BY <1>1, <2>4 DEF Work
  <2>6. Sound(w)
    BY <1>1, <2>1, <2>2, <2>3, <2>5
       DEF Sound, Work, Placed, Knows, Lists, Deletes, Deleted, Reading
  <2> QED BY <1>2, <2>1, <2>6
<1> QED BY <1>3, <1>4, <1>5

LEMMA ListStep == ASSUME Inv, NEW s \in Sessions, List(s) PROVE Inv'
<1> DEFINE u == session[s]
           listed == {d \in Documents \ deleted : status[d] \notin {"none", "deleted"}}
           w == [u EXCEPT !.pc = "clear", !.stale = IF archived THEN @ ELSE {},
                          !.listed = listed]
<1>1. /\ u \in Work /\ Sound(u) /\ u.pc = "list" /\ Stored
      /\ UNCHANGED <<rows, chunks, overtaken, lost, refused>> /\ \A d \in Documents : ~Owns(u, d)
  BY DEF Inv, Sound, List, Owns, Ingesting, history
<1>2. session' = [session EXCEPT ![s] = w]
  BY <1>1 DEF List, Inv
<1>3. w \in Work /\ w.listed = listed
  BY <1>1 DEF Work, Pcs
<1>4. /\ w.pc = "clear" /\ w.op = u.op /\ w.doc = u.doc /\ w.doomed = u.doomed
      /\ w.stale = IF archived THEN u.stale ELSE {}
  BY <1>1 DEF Work
<1>5. u.op = "archive" /\ u.doomed = {}
  BY <1>1 DEF Sound, Placed, Deletes, Deleted
<1>6. Sound(w)
  BY <1>1, <1>3, <1>4, <1>5 DEF Sound, Placed, Knows, Lists, Deletes, Deleted
<1> QED BY <1>1, <1>2, <1>6, LocalStep DEF Stored

\* The DELETE statement sees all that is committed when it begins; what is committed
\* while it waits makes the session miss it.
LEMMA DeletingStep == ASSUME Inv, NEW s \in Sessions, BeginDelete(s) \/ EndDelete(s) PROVE Inv'
<1> DEFINE u == session[s]
<1>1. /\ u \in Work /\ Sound(u) /\ Stored /\ UNCHANGED <<rows, chunks, overtaken, lost, refused>>
  BY DEF Inv, BeginDelete, EndDelete, history
<1>2. ASSUME NEW w, Sound(w), session' = [session EXCEPT ![s] = w],
             \A d \in Documents : Owns(u, d) => Owns(w, d)
      PROVE  Inv'
  BY <1>1, <1>2, LocalStep DEF Stored
<1>3. CASE BeginDelete(s)
  <2> DEFINE pc == IF u.pc = "clear" THEN "clearing" ELSE "replacing"
             w == [u EXCEPT !.pc = pc, !.doomed = chunks \cap Scope(s)]
  <2>1. session' = [session EXCEPT ![s] = w] /\ u.pc \in {"clear", "parse"}
    BY <1>3 DEF BeginDelete, Inv
  <2>2. /\ Scope(s) = Docs(u) /\ pc \in Pcs /\ u.op # "fail" /\ pc \in Deleted
        /\ pc \in {"clearing", "replacing"} /\ (pc = "clearing" <=> u.pc = "clear")
    BY <1>1, <2>1 DEF Scope, Docs, Pcs, Deleting, Deleted, Sound, Placed
  <2>3. /\ w.pc = pc /\ w.op = u.op /\ w.doc = u.doc /\ w.copy = u.copy /\ w.listed = u.listed
        /\ w.stale = u.stale /\ w.doomed = chunks \cap Docs(u)
    BY <1>1, <2>2 DEF Work
  <2>4. w \in Work
    BY <1>1, <2>2 DEF Work, Stored
  <2>5. Placed(w) /\ Knows(w) /\ Lists(w)
    BY <1>1, <2>1, <2>2, <2>3 DEF Sound, Placed, Knows, Lists, Reading
  <2>6. Deletes(w)
    BY <2>2, <2>3 DEF Deletes, Docs
  <2>7. \A d \in Documents : Owns(u, d) => Owns(w, d)
    BY <2>1, <2>2, <2>3 DEF Owns, Ingesting
  <2> QED BY <1>2, <2>1, <2>4, <2>5, <2>6, <2>7 DEF Sound
<1>4. CASE EndDelete(s)
  <2> DEFINE pc == IF u.pc = "clearing" THEN "save" ELSE "insert"
             w == [u EXCEPT !.pc = pc]
  <2>1. session' = [session EXCEPT ![s] = w] /\ u.pc \in {"clearing", "replacing"}
    BY <1>4 DEF EndDelete, Goto, Deleting
  <2>2. /\ pc \in Pcs /\ u.op # "fail" /\ pc \in {"save", "insert"}
        /\ (pc = "save" <=> u.pc = "clearing")
    BY <1>1, <2>1 DEF Pcs, Ingesting, Sound, Placed
  <2>3. /\ w.pc = pc /\ w.op = u.op /\ w.doc = u.doc /\ w.copy = u.copy /\ w.listed = u.listed
        /\ w.stale = u.stale /\ w.doomed = u.doomed /\ w \in Work
    BY <1>1, <2>2 DEF Work
  <2>4. Placed(w) /\ Knows(w) /\ Lists(w)
    BY <1>1, <2>1, <2>2, <2>3 DEF Sound, Placed, Knows, Lists, Reading
  <2>5. Deletes(w)
    BY <1>1, <2>1, <2>2, <2>3 DEF Sound, Deletes, Docs, Deleted
  <2>6. \A d \in Documents : Owns(u, d) => Owns(w, d)
    BY <2>1, <2>2, <2>3 DEF Owns, Ingesting
  <2> QED BY <1>2, <2>1, <2>3, <2>4, <2>5, <2>6 DEF Sound
<1> QED BY <1>3, <1>4

\* A refused completion, a refresh, and an insertion, which is refused only when
\* another session has committed chunks since.
LEMMA RefreshStep ==
    ASSUME Inv, NEW s \in Sessions, Refresh(s) \/ Insert(s) PROVE Inv'
<1> DEFINE u == session[s]
<1>1. /\ u \in Work /\ Sound(u) /\ Stored /\ UNCHANGED <<rows, chunks, overtaken, lost, refused>>
  BY DEF Inv, Refresh, Insert, history
<1>2. ASSUME NEW w, Sound(w), session' = [session EXCEPT ![s] = w],
             \A d \in Documents : Owns(u, d) => Owns(w, d)
      PROVE  Inv'
  BY <1>1, <1>2, LocalStep DEF Stored
<1>3. CASE Refresh(s) /\ End(s)
  <2>1. \A d \in Documents : Owns(u, d) => FALSE
    BY <1>3, <1>1 DEF Refresh, Owns, Ingesting, End, NoWork, Inv
  <2> QED BY <1>1, <1>3, <2>1, EndStep DEF Stored
<1>4. CASE Refresh(s) /\ ~End(s)
  <2> DEFINE d == u.doc
             pc == CASE u.pc = "saved" -> "complete" [] u.pc = "completed" -> "start"
                     [] OTHER -> "parse"
             w == [u EXCEPT !.copy = status[d], !.pc = pc]
  <2>1. session' = [session EXCEPT ![s] = w] /\ u.pc \in {"saved", "completed", "started"}
    BY <1>4 DEF Refresh
  <2>2. /\ pc \in Pcs /\ u.op \notin {"archive", "fail"} /\ d \in Documents /\ u.doomed = {}
        /\ pc \in {"complete", "start", "parse"} /\ (u.pc = "started" => pc = "parse")
    BY <1>1, <2>1 DEF Pcs, Ingesting, Sound, Placed, Deletes, Deleted, Work
  <2>3. status[d] \in Status \cup {"none"}
    BY <1>1, <2>2 DEF Stored
  <2>4. /\ w.pc = pc /\ w.op = u.op /\ w.doc = d /\ w.copy = status[d] /\ w.listed = u.listed
        /\ w.stale = u.stale /\ w.doomed = u.doomed /\ w \in Work
    BY <1>1, <2>2, <2>3 DEF Work
  <2>5. Placed(w) /\ Knows(w) /\ Lists(w) /\ Deletes(w)
    BY <1>1, <2>1, <2>2, <2>4 DEF Sound, Placed, Knows, Lists, Deletes, Deleted
  <2>6. \A e \in Documents : Owns(u, e) => Owns(w, e)
    BY <2>1, <2>2, <2>4 DEF Owns, Ingesting
  <2> QED BY <1>2, <2>1, <2>4, <2>5, <2>6 DEF Sound
<1>5. CASE Insert(s) /\ u.doc \in chunks \ u.doomed
  <2>1. End(s)
    BY <1>5 DEF Insert
  <2>2. \A e \in Documents : ~Owns(u, e)
    BY <1>1, <1>5 DEF Insert, Owns, Sound, Placed, Deletes, Deleted, Docs
  <2> QED BY <1>1, <2>1, <2>2, EndStep DEF Stored
<1>6. CASE Insert(s) /\ u.doc \notin chunks \ u.doomed
  <2> DEFINE w == [u EXCEPT !.pc = "embed"]
  <2>1. session' = [session EXCEPT ![s] = w] /\ u.pc = "insert"
    BY <1>6 DEF Insert, Goto
  <2>2. "embed" \in Pcs
    BY DEF Pcs, Ingesting
  <2>3. /\ w.pc = "embed" /\ w.op = u.op /\ w.doc = u.doc /\ w.copy = u.copy
        /\ w.listed = u.listed /\ w.stale = u.stale /\ w.doomed = u.doomed /\ w \in Work
    BY <1>1, <2>2 DEF Work
  <2>4. Placed(w) /\ Knows(w) /\ Lists(w) /\ Deletes(w)
    BY <1>1, <2>1, <2>3 DEF Sound, Placed, Knows, Lists, Deletes, Docs, Deleted, Reading
  <2>5. \A e \in Documents : Owns(u, e) => Owns(w, e)
    BY <2>1, <2>3 DEF Owns, Ingesting
  <2> QED BY <1>2, <2>1, <2>3, <2>4, <2>5 DEF Sound
<1> QED BY <1>3, <1>4, <1>5, <1>6

-----------------------------------------------------------------------------
(* The commits. *)

LEMMA StatusStep ==
    ASSUME Inv, NEW s \in Sessions,
           Create(s) \/ Complete(s) \/ Start(s) \/ ParseFails(s) \/ Finish(s) \/ MarkFailed(s) \/ Reset(s)
    PROVE  Inv'
<1> DEFINE u == session[s]
<1>1. /\ u \in Work /\ Sound(u) /\ Stored /\ u.pc \in Pcs
  BY DEF Inv, Sound, Work
<1>2. CASE Create(s)
  <2>1. /\ Save(s, "pending_upload", {}, At(s, "put")) /\ u.pc = "create"
        /\ u.op \notin {"archive", "fail"} /\ u.copy = "none"
    BY <1>1, <1>2 DEF Create, Sound, Placed
  <2> QED BY <2>1, SaveStep DEF Status
<1>3. CASE Complete(s)
  <2>1. u.pc = "complete" /\ u.op \notin {"archive", "fail"}
    BY <1>1, <1>3 DEF Complete, Sound, Placed
  <2>2. CASE Save(s, "uploaded", {}, At(s, "completed"))
    BY <2>1, <2>2, SaveStep DEF Status, Reading
  <2>3. CASE End(s) /\ UNCHANGED <<rows, chunks, history>>
    BY <1>1, <2>1, <2>3, EndStep DEF Owns, Ingesting, history, Stored
  <2> QED BY <1>3, <2>2, <2>3 DEF Complete
<1>4. CASE Start(s)
  <2>1. /\ Save(s, "ingesting", {}, At(s, "started")) /\ u.pc = "start"
        /\ u.op \notin {"archive", "fail"}
    BY <1>1, <1>4 DEF Start, Sound, Placed
  <2> QED BY <2>1, SaveStep DEF Status, Reading
<1>5. CASE ParseFails(s)
  <2>1. Save(s, "failed", {}, NoWork) /\ u.pc = "parse" /\ u.op # "archive"
    BY <1>1, <1>5 DEF ParseFails, Sound, Placed
  <2> QED BY <2>1, SaveStep DEF Status, Reading
<1>6. CASE Finish(s)
  <2>1. PICK new \in {"indexed", "failed"} : Save(s, new, {u.doc}, NoWork)
    BY <1>6 DEF Finish
  <2>2. u.pc = "embed" /\ u.op # "archive"
    BY <1>1, <1>6 DEF Finish, Sound, Placed
  <2> QED BY <2>1, <2>2, SaveStep DEF Status, Reading
<1>7. CASE MarkFailed(s)
  BY <1>7, SaveStep DEF MarkFailed, Status, Reading
<1>8. CASE Reset(s)
  BY <1>8, SaveStep DEF Reset, Status, Reading
<1> QED BY <1>2, <1>3, <1>4, <1>5, <1>6, <1>7, <1>8

\* Without chunks and no longer what a handler would find.
LEMMA DeleteStep == ASSUME Inv, NEW s \in Sessions, Delete(s) PROVE Inv'
<1> DEFINE u == session[s]
           d == u.doc
<1>1. /\ u.pc = "save" /\ u.op = "delete" /\ u \in Work /\ Sound(u) /\ d \in Documents /\ Stored
      /\ u.doomed \subseteq {d}
  BY OwnDocument DEF Inv, Delete
<1>2. /\ status' = [status EXCEPT ![d] = "deleted"] /\ deleted' = deleted \cup {d}
      /\ archived' = archived /\ Commit(s, {d}, {}, NoWork)
      /\ chunks' = chunks \ u.doomed /\ session'[s] = NoWork
  BY DEF Delete, Commit
<1>3. /\ status' \in [Documents -> Status \cup {"none"}] /\ status'[d] = "deleted"
      /\ \A e \in Documents \ {d} : status'[e] = status[e]
      /\ deleted' \subseteq Documents /\ archived' \in BOOLEAN
      /\ \A e \in deleted' : status'[e] # "none"
  BY <1>1, <1>2 DEF Stored, Status
<1>4. Sound(session[s])'
  BY <1>2, NoWorkSound DEF Sound, Placed, Knows, Lists, Deletes, Docs
<1>5. d \notin u.stale => d \notin chunks'
  BY <1>1, <1>2 DEF Sound, Deletes, Deleted, Docs
<1>6. \A e \in Documents : ~Owns(u, e)
  BY <1>1 DEF Owns, Ingesting
<1> QED BY <1>1, <1>2, <1>3, <1>4, <1>5, <1>6, CommitStep

\* Every document that is not deleted was listed, and every chunk deleted, unless the
\* session missed a commit.
LEMMA ArchiveStep == ASSUME Inv, NEW s \in Sessions, Archive(s) PROVE Inv'
<1> DEFINE u == session[s]
<1>1. /\ u.pc = "save" /\ u.op = "archive" /\ u \in Work /\ Sound(u) /\ Stored
      /\ u.doomed \subseteq Documents /\ u.listed \subseteq Documents
  BY DEF Inv, Archive, Sound, Work
<1>2. /\ status' = [d \in Documents |-> IF d \in u.listed THEN "deleted" ELSE status[d]]
      /\ deleted' = deleted \cup u.listed /\ archived' = TRUE
      /\ Commit(s, Documents, {}, NoWork) /\ chunks' = chunks \ u.doomed
      /\ session'[s] = NoWork
  BY DEF Archive, Commit
<1>3. /\ status' \in [Documents -> Status \cup {"none"}]
      /\ deleted' \subseteq Documents /\ archived' \in BOOLEAN
      /\ \A e \in deleted' : status'[e] # "none"
  BY <1>1, <1>2 DEF Stored, Status
<1>4. Sound(session[s])'
  BY <1>2, NoWorkSound DEF Sound, Placed, Knows, Lists, Deletes, Docs
<1>5. ASSUME NEW d \in Documents \ (u.stale \cup overtaken)
      PROVE  /\ d \in deleted' => status'[d] = "deleted"
             /\ d \notin chunks'
             /\ status'[d] # "ingesting"
  <2>1. d \in u.listed <=> d \notin deleted /\ status[d] \notin {"none", "deleted"}
    BY <1>1 DEF Sound, Lists
  <2>2. d \in deleted => status[d] = "deleted"
    BY DEF Inv, WhatIsDeletedIsGone
  <2>3. d \in chunks => d \in u.doomed
    BY <1>1 DEF Sound, Deletes, Deleted, Docs
  <2> QED BY <1>2, <2>1, <2>2, <2>3
<1>6. \A e \in Documents : ~Owns(u, e)
  BY <1>1 DEF Owns, Ingesting
<1> QED BY <1>1, <1>2, <1>3, <1>4, <1>5, <1>6, CommitStep

-----------------------------------------------------------------------------
LEMMA InitInv == Init => Inv
<1> SUFFICES ASSUME Init PROVE Inv
  OBVIOUS
<1>1. session \in [Sessions -> Work] /\ \A s \in Sessions : Sound(session[s])
  BY NoWorkSound DEF Init, Sound
<1>2. Stored /\ Owned /\ WhatIsDeletedIsGone /\ IndexedIsRetrievable
  BY DEF Init, Stored, Owned, WhatIsDeletedIsGone, IndexedIsRetrievable, Status
<1> QED BY <1>1, <1>2 DEF Inv

LEMMA NextInv == Inv /\ [Next]_vars => Inv'
<1> SUFFICES ASSUME Inv, [Next]_vars PROVE Inv'
  OBVIOUS
<1>1. CASE UNCHANGED vars
  BY <1>1 DEF vars, rows, history, Inv, Stored, Owned, WhatIsDeletedIsGone, IndexedIsRetrievable,
              Sound, Knows, Lists, Deletes, Placed, Docs
<1>2. ASSUME NEW s \in Sessions, BeginSome(s) PROVE Inv'
  BY <1>2, BeginSomeStep
<1>3. ASSUME NEW s \in Sessions, GoOn(s) PROVE Inv'
  BY <1>3, LoadStep, ListStep, DeletingStep, RefreshStep, StatusStep, DeleteStep, ArchiveStep DEF GoOn
<1>4. ASSUME NEW s \in Sessions, Die(s) \/ Refused(s) PROVE Inv'
  <2>1. \A d \in Documents : Owns(session[s], d) => d \in Ingested(s)
    BY DEF Owns, Ingested
  <2>2. Ingested(s) \subseteq Documents /\ Stored
    BY <1>4, OwnDocument DEF Ingested, Ingesting, Die, Refused, Inv, Sound, Placed
  <2>3. /\ End(s) /\ UNCHANGED <<rows, chunks, overtaken>>
        /\ lost \subseteq lost' /\ refused \subseteq refused'
        /\ lost' \subseteq Documents /\ refused' \subseteq Documents
        /\ Ingested(s) \subseteq lost' \cup refused'
    BY <1>4, <2>2 DEF Die, Refused, Stored
  <2> QED BY <2>1, <2>3, EndStep
<1> QED BY <1>1, <1>2, <1>3, <1>4 DEF Next

LEMMA SpecInv == Spec => []Inv
BY InitInv, NextInv, PTL DEF Spec

\* Deleting a document, or archiving the base, leaves nothing a retrieval could find and
\* nothing to come back to life, for any number of overlapping handlers that wait, fail
\* or die, unless one committed what it had read before the deletion.
THEOREM DeletedIsGone == Spec => []WhatIsDeletedIsGone
<1>1. Inv => WhatIsDeletedIsGone
  BY DEF Inv
<1> QED BY <1>1, SpecInv, PTL

\* What the page shows as indexed has its chunks.
THEOREM IndexedHasChunks == Spec => []IndexedIsRetrievable
<1>1. Inv => IndexedIsRetrievable
  BY DEF Inv
<1> QED BY <1>1, SpecInv, PTL

\* No failure or wait leaves a document INGESTING that nobody ingests: only a lost session
\* does, one whose ingestion the database refused, so that it could not commit its failure
\* either, or one that committed over what it had not seen.
THEOREM IngestingIsOwned == Spec => []IngestingIsSomeones
<1>1. Inv => IngestingIsSomeones
  BY DEF Inv, Owned, Owns, IngestingIsSomeones
<1> QED BY <1>1, SpecInv, PTL

\* The rows, the chunks and the sessions are well-typed, and every session at work has a
\* document or archives the base.
THEOREM KnowledgeTypeCorrect == Spec => []TypeOK
<1>1. Inv => TypeOK
  BY DEF Inv, Stored, Sound, Placed, Work, TypeOK
<1> QED BY <1>1, SpecInv, PTL

=============================================================================
