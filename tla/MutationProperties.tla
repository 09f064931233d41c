------------------------ MODULE MutationProperties ------------------------
(* What the outbox, the roster push and the transactions promise together. *)
EXTENDS MutationEvents

Busy(w) == worker[w].at \notin {"IDLE", "INLINE"}

\* The type of every variable.
TypeOK ==
  /\ \A i \in DOMAIN outbox : outbox[i] \in
       [type : EventTypes, payload : States \cup {"NONE"}, status : Statuses, attempts : 0..(MaxAttempts + MaxFaults),
        token : 0..(MaxAttempts + MaxFaults), left : 0..Lease, wait : {0, 1}, delivered : BOOLEAN, handled : BOOLEAN]
  /\ worker \in [Workers ->
       [at : {"IDLE", "INLINE", "HANDLING", "DELIVERING", "SUCCEEDED", "FAILED"},
        event : 0..MaxEvents, token : Nat, beating : BOOLEAN, lapsed : BOOLEAN]]
  /\ faults \in 0..MaxFaults
  /\ people \in SUBSET Names /\ sheet \in SUBSET Names /\ status \in Results
  /\ push \in [Workers -> [at : {"NO", "PEOPLE", "ROWS"} \cup Results, names : SUBSET Names]]
  /\ stray \in SUBSET (SUBSET Names)
  /\ seen \in [since : [1..MaxEvents -> SUBSET Names], moves : 0..MaxMoves, met : BOOLEAN]
  /\ transaction \in [state : States, submittedBy : Users]
  /\ notifications \in SUBSET ((1..MaxEvents) \X Users)

\* A worker loses its claim in no other way than by letting it run out: neither a
\* batch nor the mark of an earlier worker takes it away, so that as long as the
\* lease is renewed in time one event is handled by one process.
ClaimsEndByExpiry == \A w \in Workers :
  Busy(w) /\ ~worker[w].lapsed =>
    Event(w).status = "PROCESSING" /\ Event(w).token = worker[w].token

\* An event is DONE only after everything it stands for: its handler, its delivery
\* and every notification, over however many attempts and workers.
DoneMeansDelivered ==
  \A i \in DOMAIN outbox : outbox[i].status = "DONE" =>
    /\ outbox[i].delivered /\ outbox[i].handled
    /\ outbox[i].type = "transaction.state_changed" =>
         IF outbox[i].payload = "SUBMITTED"
         THEN \A u \in Approvers : <<i, u>> \in notifications
         ELSE \E u \in Users : <<i, u>> \in notifications

\* What is DONE or DEAD stays so, whatever a worker does that comes back late.
FinishedStaysFinished ==
  [][\A i \in DOMAIN outbox :
       outbox[i].status \in Finished => outbox'[i].status = outbox[i].status]_vars

\* Every event ends DONE or DEAD, although workers die and claims run out.
EventsEnd ==
  \A i \in 1..MaxEvents :
    i \in DOMAIN outbox ~> i \in DOMAIN outbox /\ outbox[i].status \in Finished

\* No push takes a nickname out of the sheet, unless two pushes meet: rows of past
\* payrolls refer to it, also when the person has another nickname by now.
LonePushesKeepNames == [][~seen.met' => sheet \subseteq sheet']_vars

\* When a roster event is DONE, whoever was there when the button was pressed, and
\* still is, stands in the sheet, or the status says that the sheet failed.
MissingIsReported ==
  \A i \in DOMAIN outbox :
    /\ outbox[i].type = "participation.roster.changed" /\ outbox[i].status = "DONE"
    /\ ~seen.met
    => seen.since[i] \subseteq sheet \/ status # "OK"

=============================================================================
