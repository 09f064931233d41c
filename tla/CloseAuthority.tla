--------------------------- MODULE CloseAuthority ---------------------------
(***************************************************************************)
(* What month settlement promises, without documents or commands: a stack  *)
(* of closed month ranges without gaps, and at most one cycle under way.   *)
(* Closing pushes the range up to the cycle's month; reopening is possible *)
(* for the last range only, and pops exactly that one.                     *)
(***************************************************************************)
EXTENDS Integers, Sequences

CONSTANTS Cycles, MonthsPerYear

VARIABLES
    closed,   \* the closed ranges, oldest first
    underway  \* the phase of the cycle under way, and which cycle it is

Idle == [phase |-> "IDLE", cycle |-> 0]
Phase(phase, c) == [phase |-> phase, cycle |-> c]

StartOfYear(m) == m - (m % MonthsPerYear)
Horizon == IF closed = <<>> THEN -1 ELSE closed[Len(closed)].through

\* The range a cycle closes: from the month after the horizon, or from the
\* January of its own month when nothing is closed yet.
NextRange(c) ==
    [from |-> IF closed = <<>> THEN StartOfYear(c - 1) ELSE Horizon + 1, through |-> c - 1]

Begin(c) ==
    /\ underway = Idle /\ c - 1 > Horizon
    /\ underway' = Phase("CLOSING", c)
    /\ UNCHANGED closed

Abandon ==
    /\ underway.phase \in {"CLOSING", "REOPENED"}
    /\ underway' = Idle
    /\ UNCHANGED closed

Close(c) ==
    /\ underway = Phase("CLOSING", c)
    /\ closed' = Append(closed, NextRange(c))
    /\ underway' = Idle

AskReopen ==
    /\ underway = Idle /\ closed # <<>>
    /\ underway' = Phase("REOPENING", Horizon + 1)
    /\ UNCHANGED closed

Refuse ==
    /\ underway.phase = "REOPENING"
    /\ underway' = Idle
    /\ UNCHANGED closed

Release ==
    /\ underway = Phase("REOPENING", Horizon + 1)
    /\ closed' = SubSeq(closed, 1, Len(closed) - 1)
    /\ underway' = Phase("REOPENED", Horizon + 1)

Resume(c) ==
    /\ underway = Phase("REOPENED", c)
    /\ underway' = Phase("CLOSING", c)
    /\ UNCHANGED closed

Init == closed = <<>> /\ underway = Idle

Next ==
    \/ \E c \in Cycles : Begin(c) \/ Close(c) \/ Resume(c)
    \/ Abandon \/ AskReopen \/ Refuse \/ Release

Spec == Init /\ [][Next]_<<closed, underway>>
=============================================================================
