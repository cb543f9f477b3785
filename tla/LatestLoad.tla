----------------------------- MODULE LatestLoad -----------------------------
(***************************************************************************)
(* What a panel of documents promises: whatever was asked for before, it    *)
(* ends up with the documents of the base that was asked for last, or with  *)
(* none.  There are no requests here.                                       *)
(***************************************************************************)
CONSTANTS
    Bases,   \* knowledge bases
    NoBase   \* no base: nothing to load, nothing displayed

VARIABLES
    asked,   \* the base whose documents were asked for last
    shown,   \* the base whose documents are displayed
    loading

view == <<asked, shown, loading>>

Init == asked = NoBase /\ shown = NoBase /\ loading = FALSE

\* Documents are asked for; what is displayed stays until they are there.
Ask(b) ==
    /\ asked' = b
    /\ IF b = NoBase THEN shown' = NoBase /\ loading' = FALSE
                     ELSE loading' = TRUE /\ UNCHANGED shown

Finish ==
    /\ loading /\ loading' = FALSE
    /\ shown' \in {asked, NoBase}
    /\ UNCHANGED asked

Next == Finish \/ \E b \in Bases \cup {NoBase} : Ask(b)

Spec == Init /\ [][Next]_view
=============================================================================
