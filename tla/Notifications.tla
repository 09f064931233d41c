--------------------------- MODULE Notifications ---------------------------
(* Who is told of a change of a transaction's state: the event is written with *)
(* the change, the notifications are created when it is handled.               *)
EXTENDS Outbox

CONSTANTS
  Users,      \* who submits and decides
  Approvers   \* members with the role admin or finance

ASSUME NotificationAssumption == Approvers \subseteq Users

VARIABLES
  transaction,   \* orgs/<tenant>/transactions/<id>: its state and submitter
  notifications  \* orgs/<tenant>/notifications/<event and recipient>

notificationVars == <<transaction, notifications>>

States == {"DRAFT", "SUBMITTED", "APPROVED", "REJECTED"}
AllowedTransitions == [DRAFT |-> {"SUBMITTED"}, SUBMITTED |-> {"APPROVED", "REJECTED"},
                       REJECTED |-> {"SUBMITTED"}, APPROVED |-> {}]

NotificationInit ==
  /\ transaction \in [state : {"DRAFT", "SUBMITTED"}, submittedBy : Users]
  /\ notifications = {}

\* PATCH .../state as one step; VersionedWrites has the steps it consists of.
\* Before the first submission the submitter stands for whoever created it.
ChangeState(u, next) ==
  /\ next \in AllowedTransitions[transaction.state]
  /\ Enqueue("transaction.state_changed", next)
  /\ transaction' = [state |-> next,
                     submittedBy |-> IF next = "SUBMITTED" THEN u ELSE transaction.submittedBy]
  /\ UNCHANGED <<worker, faults, notifications>>

\* The payload names no actor, so nobody is left out; a decision goes to whoever is
\* the submitter when the event is handled.
Recipients(w) ==
  CASE Event(w).type # "transaction.state_changed" -> {}
    [] Event(w).payload = "SUBMITTED" -> Approvers
    [] OTHER -> {transaction.submittedBy}

NotificationsFor(w, recipients) == {<<worker[w].event, u>> : u \in recipients}

\* Mutant: a notification that cannot be created is passed over.
CreateSome(w) == \E some \in SUBSET Recipients(w) :
  notifications' = notifications \cup NotificationsFor(w, some)
CreateAll(w) == notifications' = notifications \cup NotificationsFor(w, Recipients(w))

Notify(w) == Delivered(w) /\ CreateAll(w) /\ UNCHANGED transaction

\* One of several cannot be created; those before it stay.
NotifyFails(w) ==
  /\ At(w, "DELIVERING")
  /\ \E some \in (SUBSET Recipients(w)) \ {Recipients(w)} :
       notifications' = notifications \cup NotificationsFor(w, some)
  /\ outbox' = [outbox EXCEPT ![worker[w].event].delivered = TRUE]
  /\ worker' = [worker EXCEPT ![w].at = "FAILED", ![w].beating = FALSE]
  /\ UNCHANGED <<faults, transaction>>
=============================================================================
