------------------------------- MODULE LogView -------------------------------
(***************************************************************************)
(* What the log panel of the dashboard promises: it keeps the newest lines *)
(* it was given, in their order, and shows as many of them as it has rows. *)
(***************************************************************************)
EXTENDS Integers, Sequences

CONSTANTS
    Texts,  \* the lines
    Kept    \* how many lines are kept

VARIABLES
    lines,    \* the lines kept, the oldest first
    rows,     \* how many rows the panel has, once and for all
    shown,    \* what they show
    undrawn   \* is the newest line still to be drawn?

vars == <<lines, rows, shown, undrawn>>

\* The last n elements of s, or all of them.
Newest(s, n) ==
    IF Len(s) <= n THEN s ELSE [i \in 1..n |-> s[Len(s) - n + i]]

Init ==
    /\ lines = <<>>
    /\ rows \in Nat \ {0}
    /\ shown = <<>>
    /\ undrawn = FALSE

\* One line at a time: the line before was drawn, or could not be.
Add(t) ==
    /\ ~undrawn
    /\ lines' = Newest(Append(lines, t), Kept)
    /\ undrawn' = TRUE
    /\ UNCHANGED <<rows, shown>>

Draw ==
    /\ undrawn
    /\ undrawn' = FALSE
    /\ shown' = Newest(lines, rows)
    /\ UNCHANGED <<lines, rows>>

\* The window system refuses: the panel keeps what it shows.
DrawFails ==
    /\ undrawn
    /\ undrawn' = FALSE
    /\ UNCHANGED <<lines, rows, shown>>

Next == (\E t \in Texts : Add(t)) \/ Draw \/ DrawFails

Spec == Init /\ [][Next]_vars

=============================================================================
