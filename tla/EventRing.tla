------------------------------ MODULE EventRing ------------------------------
(***************************************************************************)
(* The table api_events as the change feed reads it (eventfeed.Hub.Read),  *)
(* for one viewer.  Events are numbered as in the table; low..top are the  *)
(* rows retention has left.  A cursor is sealed afresh for every frame, so *)
(* it is modelled by its position alone.                                   *)
(***************************************************************************)
EXTENDS Integers, FiniteSets

CONSTANT PageLimit   \* most raw rows one read examines

ASSUME PageAssumption == PageLimit \in Nat

VARIABLES
    top, low,   \* sqlite_sequence of api_events, and its lowest row
    mine        \* the events the viewer is shown

ringVars == <<top, low, mine>>

Ring == low..top

RingInit == top = 0 /\ low = 1 /\ mine = {}

\* A transaction appends an event, for the viewer or for somebody else.
AppendEvent ==
    /\ top' = top + 1
    /\ mine' \in {mine, mine \cup {top + 1}}
    /\ UNCHANGED low

\* Retention removes the oldest rows, perhaps all of them.
Trim ==
    /\ low <= top
    /\ low' \in {low + 1, top + 1}
    /\ UNCHANGED <<top, mine>>

Behind(pos) == {i \in Ring : i > pos}

\* The ring no longer holds every row after the position, or it holds too many.
Gap(pos) ==
    \/ low <= top /\ pos + 1 < low
    \/ low > top /\ pos < top
    \/ Cardinality(Behind(pos)) > PageLimit

Visible(pos) == Behind(pos) \cap mine

\* Where a page without a gap may end: at the newest row or, when the byte budget
\* is used up, before a visible row that is not the page's first.
PageEnds(pos) ==
    {top} \cup {i - 1 : i \in {j \in Visible(pos) : \E k \in Visible(pos) : k < j}}

=============================================================================
