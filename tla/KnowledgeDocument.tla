--------------------------- MODULE KnowledgeDocument ---------------------------
(***************************************************************************)
(* The documents of one knowledge base in the engine pgvector: uploading,   *)
(* completing, ingesting, re-ingesting and deleting them, and archiving the *)
(* base (knowledge_service.py).                                             *)
(*                                                                          *)
(* Each handler is a database session that commits several times between    *)
(* its awaits.  It decides on the row as it loaded it, and writes a status  *)
(* only if it differs from the loaded one.  Statements run READ COMMITTED:  *)
(* a DELETE removes the chunks that were committed when it began, and waits *)
(* for a session that is deleting them; UNIQUE (document_id, chunk_index)   *)
(* lets a document have the chunks of one ingestion.                        *)
(***************************************************************************)
CONSTANTS
    Documents,
    Sessions,
    NoDocument

ASSUME KnowledgeAssumption == NoDocument \notin Documents

VARIABLES
    status,      \* of each row, "none" before it is inserted
    deleted,     \* rows with a deleted_at
    archived,    \* the base has a deleted_at
    chunks,      \* documents with committed chunks: those a retrieval can find
    session,
    overtaken,   \* history: a session committed over a commit it had not seen
    lost,        \* history: a session died while it ingested the document, which no
                 \* commit has changed since
    refused      \* history: the database refused a statement of its ingestion, likewise

rows == <<status, deleted, archived>>
history == <<overtaken, lost, refused>>
vars == <<rows, chunks, session, history>>

Status == {"pending_upload", "uploaded", "ingesting", "indexed", "failed", "deleted"}
Completable == {"pending_upload", "uploaded", "failed"}
Reingestable == Status \ {"deleted", "pending_upload", "ingesting"}

Ops == {"upload", "fail", "complete", "reingest", "delete", "archive"}

\* The statements that wait for other sessions, and the awaits of a document that is
\* being ingested.
Deleting == {"clearing", "replacing"}
Ingesting == {"started", "parse", "replacing", "insert", "embed"}
Pcs == Deleting \cup Ingesting \cup
       {"idle", "create", "put", "load", "list", "clear", "save", "saved", "complete",
        "completed", "start"}

\* A handler's session: the row as it loaded it, the committed chunks its transaction
\* deletes, the rows it is about to archive; stale is history, the documents that
\* others changed since it decided on them: a handler that reads its row again after
\* a commit does not look at the status it finds there.
NoWork == [pc |-> "idle", op |-> "upload", doc |-> NoDocument, copy |-> "none",
           doomed |-> {}, listed |-> {}, stale |-> {}]

TypeOK ==
    /\ status \in [Documents -> Status \cup {"none"}] /\ deleted \subseteq Documents
    /\ archived \in BOOLEAN /\ chunks \subseteq Documents
    /\ overtaken \subseteq Documents /\ lost \subseteq Documents /\ refused \subseteq Documents
    /\ session \in [Sessions -> [pc : Pcs, op : Ops, doc : Documents \cup {NoDocument},
                                 copy : Status \cup {"none"}, doomed : SUBSET Documents,
                                 listed : SUBSET Documents, stale : SUBSET Documents]]
    /\ \A s \in Sessions :
          /\ session[s].doc = NoDocument => session[s].pc = "idle" \/ session[s].op = "archive"
          /\ session[s].op = "archive" => session[s].pc \in {"list", "clear", "clearing", "save"}

Init ==
    /\ status = [d \in Documents |-> "none"] /\ deleted = {} /\ archived = FALSE
    /\ chunks = {} /\ session = [s \in Sessions |-> NoWork]
    /\ overtaken = {} /\ lost = {} /\ refused = {}

-----------------------------------------------------------------------------
(* Commits. *)

Goto(s, pc) == session' = [session EXCEPT ![s].pc = pc]

\* The response is sent, or the transaction rolled back.
End(s) == session' = [session EXCEPT ![s] = NoWork]

\* The status a commit leaves: an assignment of the value that was loaded is none.
Written(s, new) ==
    IF session[s].copy = new THEN status[session[s].doc] ELSE new

\* A commit of s that changes the documents of D, whose chunks of ingested were
\* written, and after which s stands at next.
Commit(s, D, ingested, next) ==
    LET changed == session[s].doomed \cup ingested IN
    /\ chunks' = (chunks \ session[s].doomed) \cup ingested
    /\ overtaken' = overtaken \cup (D \cap session[s].stale)
    /\ session' = [t \in Sessions |->
          CASE t = s -> next
            [] t # s /\ session[t].pc = "idle" -> NoWork
            [] OTHER -> [session[t] EXCEPT !.stale = @ \cup D, !.doomed = @ \ changed]]
    /\ lost' = lost \ D /\ refused' = refused \ D

\* A commit that writes the status of the session's document.
Save(s, new, ingested, next) ==
    /\ status' = [status EXCEPT ![session[s].doc] = Written(s, new)]
    /\ Commit(s, {session[s].doc}, ingested, next)
    /\ UNCHANGED <<deleted, archived>>

\* Where s stands after a commit; it will read the row again.
At(s, pc) == [session[s] EXCEPT !.pc = pc, !.doomed = {}, !.copy = "none"]

-----------------------------------------------------------------------------
(* A handler begins: the base must not be archived. *)

Begin(s, op, d) ==
    /\ session[s].pc = "idle" /\ ~archived /\ status[d] # "none"
    /\ session' = [session EXCEPT ![s] = [NoWork EXCEPT !.pc = "load", !.op = op, !.doc = d]]
    /\ UNCHANGED <<rows, chunks, history>>

BeginUpload(s, d) ==
    /\ session[s].pc = "idle" /\ ~archived /\ status[d] = "none"
    /\ \A t \in Sessions : session[t].doc # d
    /\ session' = [session EXCEPT ![s] = [NoWork EXCEPT !.pc = "create", !.doc = d]]
    /\ UNCHANGED <<rows, chunks, history>>

BeginArchive(s) ==
    /\ session[s].pc = "idle" /\ ~archived
    /\ session' = [session EXCEPT ![s] = [NoWork EXCEPT !.pc = "list", !.op = "archive"]]
    /\ UNCHANGED <<rows, chunks, history>>

\* prepare_document_upload
Create(s) ==
    /\ session[s].pc = "create"
    /\ Save(s, "pending_upload", {}, At(s, "put"))

\* The object is stored: the upload is completed by what completes one prepared
\* earlier, which looks for the base again; or storing fails.
PutObject(s) ==
    /\ session[s].pc = "put"
    /\ \/ archived /\ End(s)
       \/ ~archived /\ session' = [session EXCEPT ![s].pc = "load", ![s].op = "complete"]
       \/ session' = [session EXCEPT ![s].pc = "load", ![s].op = "fail"]
    /\ UNCHANGED <<rows, chunks, history>>

\* What a handler does with the row it loaded; a reingestion answers 409 to some.
AfterLoad(s) ==
    CASE session[s].op = "complete" -> "complete"
      [] session[s].op = "fail" -> "save"
      [] OTHER -> "clear"

\* _get_document_for_tenant_db.  What the handler reads it has seen, but it does not look
\* at the base again.
Load(s) ==
    LET d == session[s].doc IN
    /\ session[s].pc = "load"
    /\ IF d \notin deleted /\ (session[s].op = "reingest" => status[d] \in Reingestable)
       THEN session' = [session EXCEPT ![s].pc = AfterLoad(s), ![s].copy = status[d],
                                       ![s].stale = IF archived THEN @ ELSE {}]
       ELSE End(s)
    /\ UNCHANGED <<rows, chunks, history>>

\* delete_knowledge_base lists the documents it will delete.
List(s) ==
    /\ session[s].pc = "list"
    /\ session' = [session EXCEPT ![s].pc = "clear", ![s].stale = IF archived THEN @ ELSE {},
                      ![s].listed = {d \in Documents \ deleted : status[d] \notin {"none", "deleted"}}]
    /\ UNCHANGED <<rows, chunks, history>>

-----------------------------------------------------------------------------
(* The statement DELETE FROM knowledge_chunks, in the clean-up of a handler or before *)
(* new chunks are inserted.                                                           *)

Scope(s) == IF session[s].op = "archive" THEN Documents ELSE {session[s].doc}

\* It removes what is committed now, not what is committed while it waits.
BeginDelete(s) ==
    /\ session[s].pc \in {"clear", "parse"}
    /\ session' = [session EXCEPT
          ![s].pc = IF session[s].pc = "clear" THEN "clearing" ELSE "replacing",
          ![s].doomed = chunks \cap Scope(s)]
    /\ UNCHANGED <<rows, chunks, history>>

\* The chunks that s has deleted and not committed.
Held(s) == IF session[s].pc \in Deleting THEN {} ELSE session[s].doomed

EndDelete(s) ==
    /\ session[s].pc \in Deleting
    /\ \A t \in Sessions \ {s} : Held(t) \cap session[s].doomed = {}
    /\ Goto(s, IF session[s].pc = "clearing" THEN "save" ELSE "insert")
    /\ UNCHANGED <<rows, chunks, history>>

-----------------------------------------------------------------------------
(* Completing and ingesting: _complete_document_row. *)

\* Also the end of a reingestion's clean-up, which goes on like a completion.
Complete(s) ==
    /\ session[s].pc = "complete"
    /\ IF session[s].copy \in Completable
       THEN Save(s, "uploaded", {}, At(s, "completed"))
       ELSE End(s) /\ UNCHANGED <<rows, chunks, history>>

\* session.refresh after a commit; without auto_ingest that was all.
Refresh(s) ==
    /\ session[s].pc \in {"saved", "completed", "started"}
    /\ \/ session[s].pc = "completed" /\ session[s].op # "reingest" /\ End(s)
       \/ session' = [session EXCEPT
             ![s].copy = status[session[s].doc],
             ![s].pc = CASE session[s].pc = "saved" -> "complete"
                         [] session[s].pc = "completed" -> "start"
                         [] OTHER -> "parse"]
    /\ UNCHANGED <<rows, chunks, history>>

Start(s) ==
    /\ session[s].pc = "start"
    /\ Save(s, "ingesting", {}, At(s, "started"))

\* Variant: a document that cannot be read is reported and left as it is.
ParseFails_Forgets(s) ==
    /\ session[s].pc = "parse" /\ End(s)
    /\ UNCHANGED <<rows, chunks, history>>

\* Reading or parsing raises, also for a document without text.
ParseFails(s) ==
    /\ session[s].pc = "parse"
    /\ Save(s, "failed", {}, NoWork)

\* The document's chunks that s has inserted and not committed.
Inserted(s) == IF session[s].pc = "embed" THEN {session[s].doc} ELSE {}

\* It waits for whoever is inserting or deleting the document's chunks.  If it finds
\* chunks that were committed since, the session cannot even record the failure.
Insert(s) ==
    LET d == session[s].doc IN
    /\ session[s].pc = "insert"
    /\ \A t \in Sessions \ {s} :
          /\ d \notin Inserted(t)
          /\ d \in Held(t) => d \in session[s].doomed
    /\ IF d \in chunks \ session[s].doomed THEN End(s) ELSE Goto(s, "embed")
    /\ UNCHANGED <<rows, chunks, history>>

\* An embedding may fail before its statement; the failure is committed with the chunks.
Finish(s) ==
    /\ session[s].pc = "embed"
    /\ \E new \in {"indexed", "failed"} : Save(s, new, {session[s].doc}, NoWork)

-----------------------------------------------------------------------------
(* The other commits. *)

\* _mark_document_failed
MarkFailed(s) ==
    /\ session[s].pc = "save" /\ session[s].op = "fail"
    /\ Save(s, "failed", {}, NoWork)

\* Variant: the chunks go, the status stays.
Reset_KeepsStatus(s) ==
    /\ session[s].pc = "save" /\ session[s].op = "reingest"
    /\ Save(s, session[s].copy, {}, At(s, "saved"))

\* _reingest_document_row: without chunks, the document is as if it were just uploaded.
Reset(s) ==
    /\ session[s].pc = "save" /\ session[s].op = "reingest"
    /\ Save(s, "uploaded", {}, At(s, "saved"))

\* Variant: the clean-up of the chunks is rolled back with an error it swallowed.
Delete_KeepsChunks(s) ==
    /\ session[s].pc = "save" /\ session[s].op = "delete"
    /\ status' = [status EXCEPT ![session[s].doc] = "deleted"]
    /\ deleted' = deleted \cup {session[s].doc}
    /\ End(s)
    /\ UNCHANGED <<archived, chunks, history>>

\* _delete_document_row
Delete(s) ==
    /\ session[s].pc = "save" /\ session[s].op = "delete"
    /\ status' = [status EXCEPT ![session[s].doc] = "deleted"]
    /\ deleted' = deleted \cup {session[s].doc}
    /\ Commit(s, {session[s].doc}, {}, NoWork)
    /\ UNCHANGED archived

\* delete_knowledge_base: the documents listed, and the chunks of all.
Archive(s) ==
    /\ session[s].pc = "save" /\ session[s].op = "archive"
    /\ status' = [d \in Documents |-> IF d \in session[s].listed THEN "deleted" ELSE status[d]]
    /\ deleted' = deleted \cup session[s].listed /\ archived' = TRUE
    /\ Commit(s, Documents, {}, NoWork)

\* The document that s is ingesting.
Ingested(s) == IF session[s].pc \in Ingesting THEN {session[s].doc} ELSE {}

\* The process dies or the request is cancelled.
Die(s) ==
    /\ session[s].pc # "idle" /\ End(s)
    /\ lost' = lost \cup Ingested(s)
    /\ UNCHANGED <<rows, chunks, overtaken, refused>>

\* The database refuses a statement, a text with a NUL for one or an embedding of
\* another dimension.  The transaction is aborted, so that the handler of exceptions
\* cannot commit the failure either: the request ends with an error.
Refused(s) ==
    /\ session[s].pc # "idle" /\ End(s)
    /\ refused' = refused \cup Ingested(s)
    /\ UNCHANGED <<rows, chunks, overtaken, lost>>

-----------------------------------------------------------------------------
BeginSome(s) ==
    \/ \E d \in Documents : BeginUpload(s, d)
    \/ \E d \in Documents, op \in {"complete", "reingest", "delete"} : Begin(s, op, d)
    \/ BeginArchive(s)

GoOn(s) ==
    \/ Create(s) \/ PutObject(s) \/ Load(s) \/ List(s)
    \/ BeginDelete(s) \/ EndDelete(s)
    \/ Complete(s) \/ Refresh(s) \/ Start(s) \/ ParseFails(s) \/ Insert(s) \/ Finish(s)
    \/ MarkFailed(s) \/ Reset(s) \/ Delete(s) \/ Archive(s)

Next == \E s \in Sessions : BeginSome(s) \/ GoOn(s) \/ Die(s) \/ Refused(s)

Spec == Init /\ [][Next]_vars

-----------------------------------------------------------------------------
\* What was deleted, or whose base was archived, has no chunks that a retrieval could
\* find and does not come back to life, unless a session that had begun before the
\* deletion committed after it: whatever handlers overlapped, waited and failed.
WhatIsDeletedIsGone ==
    \A d \in Documents \ overtaken :
        /\ d \in deleted => status[d] = "deleted"
        /\ d \in deleted \/ archived => d \notin chunks

\* A document that is displayed as indexed can be retrieved, through every failure and
\* every re-ingestion, unless a session committed over what it had not seen.
IndexedIsRetrievable ==
    \A d \in Documents \ overtaken : status[d] = "indexed" /\ ~archived => d \in chunks

\* A document is INGESTING, a status from which it can only be deleted, while a session
\* ingests it, and no longer: every failure commits another status, but for that of a
\* process that is lost and of a statement the database refuses.
IngestingIsSomeones ==
    \A d \in Documents \ (overtaken \cup lost \cup refused) :
        status[d] = "ingesting" =>
            \E s \in Sessions : session[s].doc = d /\ session[s].pc \in Ingesting
=============================================================================
