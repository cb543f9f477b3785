--------------------------- MODULE DocumentPanel ---------------------------
(***************************************************************************)
(* The documents of a knowledge base in the console: useKnowledgeDocuments  *)
(* and useWorkbenchKnowledgeDocuments, which are the same.  Loads overlap   *)
(* and are answered in any order; a counter tells the latest one.           *)
(***************************************************************************)
EXTENDS Integers

CONSTANTS
    Bases,   \* knowledge bases
    NoBase   \* baseId is null, or no document is displayed

ASSUME PanelAssumption == NoBase \notin Bases

VARIABLES
    latest,   \* latestRequestId
    pending,  \* the loads that are not answered
    shown,    \* the base whose documents are displayed
    loading,
    asked     \* history: the base of the last load

panel == <<latest, pending, shown, loading, asked>>

PanelTypeOK ==
    /\ latest \in Nat
    /\ pending \subseteq [id : Nat, base : Bases]
    /\ shown \in Bases \cup {NoBase} /\ asked \in Bases \cup {NoBase}
    /\ loading \in BOOLEAN

PanelInit ==
    /\ latest = 0 /\ pending = {}
    /\ shown = NoBase /\ asked = NoBase /\ loading = FALSE

\* A load takes the next number; without a base there is nothing to wait for.
LoadNumbered(id, b) ==
    /\ latest' = id /\ asked' = b
    /\ IF b = NoBase
       THEN shown' = NoBase /\ loading' = FALSE /\ UNCHANGED pending
       ELSE /\ pending' = pending \cup {[id |-> id, base |-> b]}
            /\ loading' = TRUE /\ UNCHANGED shown

\* refetch: a load of the base the caller was rendered with.
LoadDocuments(b) == LoadNumbered(latest + 1, b)

\* Variant: a load that is not asked for by hand takes no number.
SwitchBase_SameNumber(b) == LoadNumbered(latest, b)

\* Another base is selected: the clean-up of the effect takes a number too.
SwitchBase(b) == LoadNumbered(latest + 2, b)

\* Variant: an answer is displayed whatever was asked for since.
AnswerLoad_Unguarded(r) ==
    /\ pending' = pending \ {r}
    /\ shown' \in {r.base, NoBase} /\ loading' = FALSE
    /\ UNCHANGED <<latest, asked>>

\* Variant: an answer that comes too late is waited for as well.
AnswerLoad_KeepsLoading(r) ==
    /\ pending' = pending \ {r}
    /\ IF pending' = {} /\ r.id = latest
       THEN shown' \in {r.base, NoBase} /\ loading' = FALSE
       ELSE UNCHANGED <<shown, loading>>
    /\ UNCHANGED <<latest, asked>>

\* The answer, or the failure, of a load; only that of the latest counts.
AnswerLoad(r) ==
    /\ pending' = pending \ {r}
    /\ IF r.id = latest
       THEN shown' \in {r.base, NoBase} /\ loading' = FALSE
       ELSE UNCHANGED <<shown, loading>>
    /\ UNCHANGED <<latest, asked>>

AnswerLoads == \E r \in pending : AnswerLoad(r)

PanelNext ==
    \/ \E b \in Bases \cup {NoBase} : LoadDocuments(b) \/ SwitchBase(b)
    \/ AnswerLoads

PanelSpec == PanelInit /\ [][PanelNext]_panel

-----------------------------------------------------------------------------
LatestPromise == INSTANCE LatestLoad
               WITH Bases <- Bases, NoBase <- NoBase,
                    asked <- asked, shown <- shown, loading <- loading

\* However the answers overtake each other, the panel behaves as if every load
\* but the last had never been made.
ImplementsLatestLoad == LatestPromise!Spec

\* A panel that is not loading displays what was asked for last, or nothing.
LatestWins == ~loading => shown \in {asked, NoBase}
=============================================================================
