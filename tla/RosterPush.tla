----------------------------- MODULE RosterPush -----------------------------
(* The handler of `participation.roster.changed': it reads the people and the  *)
(* rows of a linked sheet, writes the merge of both over the rows, and records *)
(* how it went. A write that is given up after 30 seconds may still arrive.    *)
EXTENDS Outbox

CONSTANTS
  Names,    \* nicknames
  MaxMoves  \* bound: nicknames added or dropped

ASSUME RosterAssumption == MaxMoves \in Nat

VARIABLES
  people,  \* orgs/<tenant>/persons: their nicknames
  sheet,   \* nicknames in the reference tab of the one linked sheet
  status,  \* participation_roster_push_status/<sheet>: how the last push went
  push,    \* how far each worker's push has come, and the names it holds
  stray,   \* writes that were given up and have not arrived
  seen     \* history: who has stayed since an event, the moves, whether two pushes met

rosterVars == <<people, sheet, status, push, stray, seen>>

Results == {"OK", "REFUSED", "API_ERROR"}
NoPush == [at |-> "NO", names |-> {}]
Going(w) == push[w].at # "NO"

RosterInit ==
  /\ people \in SUBSET Names
  /\ sheet = {}
  /\ status = "OK"
  /\ push = [w \in Workers |-> NoPush]
  /\ stray = {}
  /\ seen = [since |-> [i \in 1..MaxEvents |-> {}], moves |-> 0, met |-> FALSE]

\* Saving a person enqueues nothing; somebody presses the button. Nobody is deleted,
\* but a person can be given another nickname, or none.
AddNickname(n) ==
  /\ n \notin people /\ seen.moves < MaxMoves
  /\ people' = people \cup {n}
  /\ seen' = [seen EXCEPT !.moves = @ + 1]
  /\ UNCHANGED <<sheet, status, push, stray>>

DropNickname(n) ==
  /\ n \in people /\ seen.moves < MaxMoves
  /\ people' = people \ {n}
  /\ seen' = [seen EXCEPT !.since = [i \in DOMAIN @ |-> @[i] \ {n}], !.moves = @ + 1]
  /\ UNCHANGED <<sheet, status, push, stray>>

\* POST participation-roster/push: enqueue, then process in the same request.
\* The event is a signal only and holds no roster.
PressPush(w) ==
  /\ w \in Equipped /\ At(w, "IDLE")
  /\ Enqueue("participation.roster.changed", "NONE")
  /\ worker' = [worker EXCEPT ![w] = [Idle EXCEPT !.at = "INLINE", !.event = Len(outbox) + 1]]
  /\ seen' = [seen EXCEPT !.since[Len(outbox) + 1] = people]
  /\ UNCHANGED <<faults, people, sheet, status, push, stray>>

-----------------------------------------------------------------------------
Pushing(w) == At(w, "HANDLING") /\ NeedsHandler(w) /\ w \in Equipped
Reached(w, at) == Pushing(w) /\ push[w].at = at
SetPush(w, at, names) == push' = [push EXCEPT ![w] = [at |-> at, names |-> names]]

ReadPeople(w) ==
  /\ Reached(w, "NO")
  /\ SetPush(w, "PEOPLE", people)
  /\ seen' = [seen EXCEPT !.met = @ \/ stray # {} \/ \E v \in Workers : Going(v)]
  /\ UNCHANGED <<outboxVars, people, sheet, status, stray>>

\* Mutant: the rows of the sheet are not kept.
MergeNothing(names) == names
MergeRosterRows(names) == names \cup sheet

ReadRows(w) ==
  /\ Reached(w, "PEOPLE") /\ push[w].names # {}
  /\ SetPush(w, "ROWS", MergeRosterRows(push[w].names))
  /\ UNCHANGED <<outboxVars, people, sheet, status, stray, seen>>

\* The rows are replaced from the top. The ten placeholders at the end take up the
\* difference when what was read meanwhile became longer.
WriteRows(w) ==
  /\ Reached(w, "ROWS")
  /\ sheet' = push[w].names
  /\ SetPush(w, "OK", {})
  /\ UNCHANGED <<outboxVars, people, status, stray, seen>>

\* An empty roster, another format or tenant, no permission: for people to put right.
Refuse(w) ==
  /\ Reached(w, "PEOPLE") \/ Reached(w, "ROWS")
  /\ SetPush(w, "REFUSED", {})
  /\ UNCHANGED <<outboxVars, people, sheet, status, stray, seen>>

\* What is given up may still be on its way to the sheet.
MayStray(w) == stray' \in {stray, stray \cup IF push[w].at = "ROWS" THEN {push[w].names} ELSE {}}

\* `api_error': the call failed, or was given up after 30 seconds.
SheetFails(w) ==
  /\ (Reached(w, "PEOPLE") /\ push[w].names # {}) \/ Reached(w, "ROWS")
  /\ MayStray(w)
  /\ SetPush(w, "API_ERROR", {})
  /\ UNCHANGED <<outboxVars, people, sheet, status, seen>>

\* Mutant: a refusal ends the event without a record.
RecordSuccess(result) == status' = IF result = "OK" THEN result ELSE status
Record(result) == status' = result

\* The result is recorded. A refusal ends the event well: no attempt would help.
EndPush(w) ==
  /\ Pushing(w) /\ push[w].at \in Results
  /\ Record(push[w].at)
  /\ SetPush(w, "NO", {})
  /\ IF push[w].at = "API_ERROR" THEN Throws(w) ELSE Handled(w)
  /\ UNCHANGED <<people, sheet, stray, seen>>

\* A call to Firestore fails.
PushThrows(w) ==
  /\ Pushing(w) /\ push[w].at \in {"NO"} \cup Results
  /\ SetPush(w, "NO", {})
  /\ Throws(w)
  /\ UNCHANGED <<people, sheet, status, stray, seen>>

RosterCrash(w) ==
  /\ Crash(w) /\ MayStray(w)
  /\ SetPush(w, "NO", {})
  /\ UNCHANGED <<people, sheet, status, seen>>

StrayArrives ==
  /\ \E rows \in stray :
       /\ sheet' = rows
       /\ stray' = stray \ {rows}
  /\ seen' = [seen EXCEPT !.met = @ \/ \E w \in Workers : Going(w)]
  /\ UNCHANGED <<outboxVars, people, status, push>>

RosterStep(w) ==
  \/ ReadPeople(w) \/ ReadRows(w) \/ WriteRows(w) \/ Refuse(w) \/ SheetFails(w)
  \/ EndPush(w) \/ PushThrows(w)
=============================================================================
