--------------------------- MODULE KnowledgePage ---------------------------
(***************************************************************************)
(* The knowledge page of the console: useKnowledgePageController with the   *)
(* hooks it is made of.  The list of bases, the selected one and the panel  *)
(* of its documents; bases are created and deleted, documents uploaded,     *)
(* ingested again and deleted.  Every await ends an action, and what a      *)
(* handler does afterwards it does with the base it was rendered with.      *)
(***************************************************************************)
EXTENDS DocumentPanel, FiniteSetsExt

\* A base is named by its place in the lists.
ASSUME BaseAssumption ==
    \A list \in SUBSET Bases : list # {} => \E b \in list : \A c \in list : b <= c

VARIABLES
    bases,         \* the backend: the bases there are
    baseList,      \* the bases in the side bar
    baseLoads,     \* loads of the list in flight
    selectedBaseId,
    panelBase,     \* the base the panel was rendered with last
    working,       \* bases of the document actions in flight
    creatingBase, \* createKnowledgeBase is in flight
    deleting       \* bases whose deletion is in flight

selection == <<baseList, selectedBaseId, panelBase, panel>>
actions == <<working, creatingBase, deleting>>
knowledge == <<bases, baseLoads, selection, actions>>

KnowledgeTypeOK ==
    /\ PanelTypeOK
    /\ bases \subseteq Bases /\ baseList \subseteq Bases
    /\ baseLoads \in Nat
    /\ {selectedBaseId, panelBase} \subseteq Bases \cup {NoBase}
    /\ working \subseteq Bases /\ deleting \subseteq Bases
    /\ creatingBase \in BOOLEAN

\* The page is mounted: the list is being loaded, the panel has no base yet.
KnowledgeMounted ==
    /\ PanelInit
    /\ baseList = {} /\ selectedBaseId = NoBase /\ panelBase = NoBase
    /\ baseLoads = 1
    /\ working = {} /\ creatingBase = FALSE /\ deleting = {}

KnowledgeInit == bases \in SUBSET Bases /\ KnowledgeMounted

-----------------------------------------------------------------------------
First(list) == IF list = {} THEN NoBase ELSE Min(list)

\* The base that is displayed: the selected one if it is listed.
SelectedBase(list, id) == IF id \in list THEN id ELSE First(list)

\* A render with another list or selection; if that displays another base the
\* panel cleans up and loads its documents.
Render(list, id) ==
    /\ baseList' = list /\ selectedBaseId' = id
    /\ panelBase' = SelectedBase(list, id)
    /\ IF panelBase' = panelBase THEN UNCHANGED panel ELSE SwitchBase(panelBase')

\* A list arrives: an effect of the page moves the selection into it.
RenderList(list) == Render(list, SelectedBase(list, selectedBaseId))

BasesAnswer ==
    /\ baseLoads > 0 /\ baseLoads' = baseLoads - 1
    /\ RenderList(bases) \/ RenderList({})
    /\ UNCHANGED <<bases, actions>>

\* The buttons that try again after a load has failed.
RefetchBases ==
    /\ baseList = {}
    /\ baseLoads' = baseLoads + 1
    /\ UNCHANGED <<bases, selection, actions>>

RefetchDocuments ==
    /\ ~loading /\ shown = NoBase /\ panelBase # NoBase
    /\ LoadDocuments(panelBase)
    /\ UNCHANGED <<bases, baseList, baseLoads, selectedBaseId, panelBase, actions>>

DocumentsAnswer ==
    AnswerLoads /\ UNCHANGED <<bases, baseList, baseLoads, selectedBaseId, panelBase, actions>>

\* The side bar is never disabled.
SelectBase(b) ==
    /\ b \in baseList /\ Render(baseList, b)
    /\ UNCHANGED <<bases, baseLoads, actions>>

-----------------------------------------------------------------------------
(* With the permission to write. *)

\* An upload, a deletion or another ingestion of a document.
StartDocumentAction ==
    /\ panelBase # NoBase
    /\ working' = working \cup {panelBase}
    /\ UNCHANGED <<bases, baseLoads, selection, creatingBase, deleting>>

\* After its success the documents of that base are loaded, whichever is
\* displayed meanwhile, and so is the list.
DocumentActionAnswers(b) ==
    /\ working' = working \ {b}
    /\ \/ LoadDocuments(b) /\ baseLoads' = baseLoads + 1
       \/ UNCHANGED <<panel, baseLoads>>
    /\ UNCHANGED <<bases, baseList, selectedBaseId, panelBase, creatingBase, deleting>>

CreateBase ==
    /\ ~creatingBase /\ creatingBase' = TRUE
    /\ UNCHANGED <<bases, baseLoads, selection, working, deleting>>

\* The new base is selected before it is listed; a list that failed to load
\* gives the selection up again.
CreateBaseAnswers ==
    /\ creatingBase /\ creatingBase' = FALSE
    /\ \/ \E b \in Bases \ bases :
             /\ bases' = bases \cup {b}
             /\ Render(baseList, b) \/ (baseList = {} /\ Render({}, NoBase))
             /\ baseLoads' = baseLoads + 1
       \/ UNCHANGED <<bases, selection, baseLoads>>
    /\ UNCHANGED <<working, deleting>>

DeleteBase(b) ==
    /\ b \in baseList \ deleting
    /\ deleting' = deleting \cup {b}
    /\ UNCHANGED <<bases, baseLoads, selection, working, creatingBase>>

DeleteBaseAnswers(b) ==
    /\ deleting' = deleting \ {b}
    /\ \/ /\ bases' = bases \ {b}
          /\ Render(baseList, IF selectedBaseId = b THEN NoBase ELSE selectedBaseId)
          /\ baseLoads' = baseLoads + 1
       \/ UNCHANGED <<bases, selection, baseLoads>>
    /\ UNCHANGED <<working, creatingBase>>

-----------------------------------------------------------------------------
KnowledgeRead == RefetchBases \/ RefetchDocuments \/ \E b \in baseList : SelectBase(b)

KnowledgeWrite ==
    StartDocumentAction \/ CreateBase \/ \E b \in baseList : DeleteBase(b)

KnowledgeAnswer ==
    \/ BasesAnswer \/ DocumentsAnswer \/ CreateBaseAnswers
    \/ \E b \in working : DocumentActionAnswers(b)
    \/ \E b \in deleting : DeleteBaseAnswers(b)

KnowledgeNext == KnowledgeRead \/ KnowledgeWrite \/ KnowledgeAnswer

KnowledgeSpec == KnowledgeInit /\ [][KnowledgeNext]_knowledge

-----------------------------------------------------------------------------
\* A panel does not load for ever: the answers that come too late do not take
\* the place of the one it waits for.
DocumentsLoadingEnds == loading ~> ~loading

\* The documents on display are those of the selected base, as the tests of
\* the documents' hook have it ("keeps documents for the latest admin
\* knowledge base").  A document action that succeeds after another base was
\* selected breaks this.
ShownDocumentsAreSelected == ~loading => shown \in {panelBase, NoBase}
=============================================================================
