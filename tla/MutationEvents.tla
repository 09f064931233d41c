--------------------------- MODULE MutationEvents ---------------------------
(* The outbox with two that feed it: state changes of a transaction, and the   *)
(* roster that is pushed to the sheets.                                        *)
EXTENDS RosterPush, Notifications

vars == <<outboxVars, rosterVars, notificationVars>>

Init == OutboxInit /\ RosterInit /\ NotificationInit

\* The two types about a transaction have no handler and require none.
NoHandler(w) ==
  /\ At(w, "HANDLING") /\ ~NeedsHandler(w)
  /\ Handled(w)
  /\ UNCHANGED <<rosterVars, notificationVars>>

\* A worker without the required handler can only throw.
Fails(w) == Throws(w) /\ ~Pushing(w)

Proceed(w) ==
  \/ /\ ClaimInBatch(w) \/ ClaimInline(w) \/ InlineTooLate(w) \/ Fails(w) \/ Mark(w)
     /\ UNCHANGED <<rosterVars, notificationVars>>
  \/ NoHandler(w)
  \/ RosterStep(w) /\ UNCHANGED notificationVars
  \/ (Notify(w) \/ NotifyFails(w)) /\ UNCHANGED rosterVars

Next ==
  \/ \E w \in Workers :
       \/ Proceed(w)
       \/ PressPush(w) /\ UNCHANGED notificationVars
       \/ Heartbeat(w) /\ UNCHANGED <<rosterVars, notificationVars>>
       \/ RosterCrash(w) /\ UNCHANGED notificationVars
  \/ \E n \in Names : (AddNickname(n) \/ DropNickname(n)) /\ UNCHANGED <<outboxVars, notificationVars>>
  \/ StrayArrives /\ UNCHANGED notificationVars
  \/ \E u \in Users, s \in States : ChangeState(u, s) /\ UNCHANGED rosterVars
  \/ Tick /\ UNCHANGED <<rosterVars, notificationVars>>

Spec == Init /\ [][Next]_vars

\* Time passes, the cron comes again, and every call of a handler ends: those to
\* Google after 30 seconds, those to Firestore by their own deadline.
Fairness ==
  /\ WF_vars(Tick /\ UNCHANGED <<rosterVars, notificationVars>>)
  /\ \A w \in Workers : WF_vars(Proceed(w))
FairSpec == Spec /\ Fairness
=============================================================================
