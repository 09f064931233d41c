------------------------------ MODULE EditLease ------------------------------
(* The edit lease of one project's cashflow, the private drafts it guards in   *)
(* the BFF and the canonical writes it guards in the JVM. A lease is a         *)
(* document that every server reads by its own clock; a write is accepted from *)
(* whoever shows the session, lease id and fence the document has.             *)
(* Every action is one Firestore transaction. Requests under way may arrive    *)
(* late, twice or never, and answers may be lost.                              *)
EXTENDS Integers, FiniteSets

CONSTANTS
  Sessions,      \* browser tabs: a session id is made per tab
  Actors,        \* users
  ActorOf,       \* the user of a tab
  None,
  TTL,           \* lifetime of a lease in ticks (30 minutes in the code)
  Skew,          \* how far a server's clock may be from true time, in ticks
  MaxGrants,     \* bound: leases granted
  MaxRevision,   \* bound: saves of one draft
  MaxSent        \* bound: requests under way

ASSUME SessionsAssumption == ActorOf \in [Sessions -> Actors] /\ None \notin Sessions
ASSUME ClockAssumption == TTL \in Nat \ {0} /\ Skew \in Nat
ASSUME LeaseBounds == MaxGrants \in Nat /\ MaxRevision \in Nat /\ MaxSent \in Nat

VARIABLES
  lease,    \* editLeases/<cashflow, project>
  grants,   \* leases granted so far; a lease id is fresh
  draft,    \* privateEditDrafts/<cashflow, project, actor>
  token,    \* the ownership a tab has been told of
  opened,   \* what a tab was answered when it last opened its draft
  sent,     \* requests under way
  alive,    \* tabs not yet closed
  record    \* history: who wrote last, which leases have ended, what was saved

vars == <<lease, grants, draft, token, opened, sent, alive, record>>

Clocks == (-Skew)..Skew
NoToken == [id |-> 0, fence |-> 0]
NoLease == [state |-> "NONE", session |-> None, id |-> 0, fence |-> 0,
            remaining |-> -Skew, reason |-> "NONE", lastExpired |-> 0]
NoDraft == [status |-> "NONE", generation |-> 0, revision |-> 0]
NotOpened == [id |-> 0, generation |-> 0, revision |-> 0]

-----------------------------------------------------------------------------
(* The lease document. `remaining' is its expiry less true time; a server      *)
(* whose clock is `o' ahead finds remaining - o ticks left.                    *)
\* Mutant: the expiry is not read.
ActiveWhateverTheTime(l, o) == l.state = "ACTIVE"

ActiveAt(l, o) == l.state = "ACTIVE" /\ l.remaining > o

\* Mutant: a lease that is over has expired, however it ended.
RequiresExpiryOnceOver(l, o) == ~ActiveAt(l, o) /\ l.lastExpired # l.fence

RequiresExpiry(l, o) ==
  l.state = "ACTIVE" /\ ~ActiveAt(l, o) /\ l.lastExpired # l.fence

NextFence(l) == l.fence + 1

Granted(l, s, i, o) ==
  [state |-> "ACTIVE", session |-> s, id |-> i, fence |-> NextFence(l),
   remaining |-> TTL + o, reason |-> "NONE",
   lastExpired |-> IF RequiresExpiry(l, o) THEN l.fence ELSE l.lastExpired]

\* Mutant: an expired lease is stored under the state the screen shows.
ExpiredAsAvailable(l) == [l EXCEPT !.state = "AVAILABLE", !.lastExpired = l.fence]

Expired(l) == [l EXCEPT !.state = "EXPIRED", !.lastExpired = l.fence]

\* Mutant: a session is taken for its lease.
MatchesSession(l, s, t) == l.session = s

Matches(l, s, t) == l.session = s /\ l.id = t.id /\ l.fence = t.fence
Owned(l, s, t, o) == ActiveAt(l, o) /\ Matches(l, s, t)
\* Mutant: any release counts as a final save.
Released(l, s, t) == Matches(l, s, t) /\ l.state = "RELEASED"

Finalized(l, s, t) ==
  Matches(l, s, t) /\ l.state = "RELEASED" /\ l.reason = "FINAL_SAVE"

SameActor(s, u) == u # None /\ ActorOf[s] = ActorOf[u]

\* The audit tells that the present lease has ended; of a final save it is the
\* entry of the write itself.
Ends == [record EXCEPT !.ended[lease.id] = @ + 1]

-----------------------------------------------------------------------------
(* Lease commands. The caller may not hear the answer.                         *)
Answer(s, t) == \E heard \in BOOLEAN :
  token' = IF heard THEN [token EXCEPT ![s] = t] ELSE token

Grant(s, o) ==
  /\ grants < MaxGrants
  /\ grants' = grants + 1
  /\ lease' = Granted(lease, s, grants + 1, o)
  /\ Answer(s, [id |-> grants + 1, fence |-> NextFence(lease)])

\* A tab that has the lease is answered with it, unchanged. So is its status.
AnswerOwner(s, o) ==
  /\ alive[s]
  /\ ActiveAt(lease, o) /\ lease.session = s
  /\ Answer(s, [id |-> lease.id, fence |-> lease.fence])
  /\ UNCHANGED <<lease, grants, draft, opened, sent, alive, record>>

Acquire(s, o) ==
  /\ alive[s]
  /\ ~ActiveAt(lease, o)
  /\ Grant(s, o)
  /\ record' = IF RequiresExpiry(lease, o) THEN Ends ELSE record
  /\ UNCHANGED <<draft, opened, sent, alive>>

TakeOver(s, o) ==
  /\ alive[s]
  /\ ActiveAt(lease, o)
  /\ SameActor(s, lease.session) /\ lease.session # s
  /\ Grant(s, o)
  /\ record' = Ends
  /\ UNCHANGED <<draft, opened, sent, alive>>

Extend(s, o) ==
  /\ alive[s]
  /\ Owned(lease, s, token[s], o)
  /\ lease' = [lease EXCEPT !.remaining = TTL + o]
  /\ UNCHANGED <<grants, draft, token, opened, sent, alive, record>>

Release(s, o) ==
  /\ alive[s]
  /\ Owned(lease, s, token[s], o)
  /\ lease' = [lease EXCEPT !.state = "RELEASED"]
  /\ record' = Ends
  /\ Answer(s, NoToken)
  /\ UNCHANGED <<grants, draft, opened, sent, alive>>

\* Status, extend and release write down that the lease is over.
ObserveExpiry(o) ==
  /\ RequiresExpiry(lease, o)
  /\ lease' = Expired(lease)
  /\ record' = Ends
  /\ UNCHANGED <<grants, draft, token, opened, sent, alive>>

-----------------------------------------------------------------------------
(* Drafts and canonical writes.                                                *)
Fresh(d) == [status |-> "ACTIVE", generation |-> d.generation + 1, revision |-> 0]
Reopened(d) == IF d.status = "ACTIVE" THEN d ELSE Fresh(d)

Open(s, o) ==
  LET a == ActorOf[s]
      d == Reopened(draft[a])
  IN  /\ alive[s]
      /\ Owned(lease, s, token[s], o)
      /\ draft' = [draft EXCEPT ![a] = d]
      /\ \E heard \in BOOLEAN :
           opened' = IF heard
                     THEN [opened EXCEPT ![s] = [id |-> token[s].id,
                            generation |-> d.generation, revision |-> d.revision]]
                     ELSE opened
      /\ UNCHANGED <<lease, grants, token, sent, alive, record>>

\* A tab sends what it prepared under the lease it knows. It saves and
\* completes the draft it opened under that lease.
OfDraft == {"SAVE", "COMPLETE"}
Kinds == OfDraft \cup {"WRITE", "FINAL"}
Send(s, kind) ==
  /\ alive[s] /\ token[s] # NoToken
  /\ Cardinality(sent) < MaxSent
  /\ kind \in OfDraft => opened[s].id = token[s].id
  /\ sent' = sent \cup {[kind |-> kind, session |-> s, token |-> token[s],
       reading |-> IF kind \in OfDraft THEN opened[s] ELSE NotOpened]}
  /\ UNCHANGED <<lease, grants, draft, token, opened, alive, record>>

Lose(r) ==
  /\ sent' = sent \ {r}
  /\ UNCHANGED <<lease, grants, draft, token, opened, alive, record>>

Save(r, o) ==
  LET a == ActorOf[r.session]
  IN  /\ r.kind = "SAVE"
      /\ draft[a].status = "ACTIVE"
      /\ Owned(lease, r.session, r.token, o)
      /\ draft[a].revision = r.reading.revision
      /\ draft[a].revision < MaxRevision
      /\ draft' = [draft EXCEPT ![a].revision = @ + 1]
      /\ record' = [record EXCEPT !.writer = r.token.fence,
                                  !.source[a] = r.reading.generation]
      /\ UNCHANGED <<lease, grants, token, opened, sent, alive>>

\* A canonical write of the JVM, and the final one, which releases the lease.
Write(r, o) ==
  /\ r.kind = "WRITE"
  /\ Owned(lease, r.session, r.token, o)
  /\ record' = [record EXCEPT !.writer = r.token.fence]
  /\ UNCHANGED <<lease, grants, draft, token, opened, sent, alive>>

FinalWrite(r, o) ==
  LET a == ActorOf[r.session]
      saved == IF draft[a].status = "ACTIVE"
               THEN [id |-> lease.id, generation |-> draft[a].generation,
                     revision |-> draft[a].revision]
               ELSE record.final[a]
  IN  /\ r.kind = "FINAL"
      /\ Owned(lease, r.session, r.token, o)
      /\ lease' = [lease EXCEPT !.state = "RELEASED", !.reason = "FINAL_SAVE"]
      /\ record' = [Ends EXCEPT !.writer = r.token.fence, !.final[a] = saved]
      /\ UNCHANGED <<grants, draft, token, opened, sent, alive>>

Complete(r) ==
  LET a == ActorOf[r.session]
  IN  /\ r.kind = "COMPLETE"
      /\ draft[a].status = "ACTIVE"
      /\ Finalized(lease, r.session, r.token)
      /\ draft[a].revision = r.reading.revision
      /\ draft' = [draft EXCEPT ![a].status = "SUBMITTED", ![a].revision = @ + 1]
      /\ UNCHANGED <<lease, grants, token, opened, sent, alive, record>>

-----------------------------------------------------------------------------
\* A closed tab releases nothing.
Close(s) ==
  /\ alive[s]
  /\ alive' = [alive EXCEPT ![s] = FALSE]
  /\ token' = [token EXCEPT ![s] = NoToken]
  /\ opened' = [opened EXCEPT ![s] = NotOpened]
  /\ UNCHANGED <<lease, grants, draft, sent, record>>

Tick ==
  /\ lease.state = "ACTIVE" /\ lease.remaining > -Skew
  /\ lease' = [lease EXCEPT !.remaining = @ - 1]
  /\ UNCHANGED <<grants, draft, token, opened, sent, alive, record>>

Init ==
  /\ lease = NoLease /\ grants = 0
  /\ draft = [a \in Actors |-> NoDraft]
  /\ token = [s \in Sessions |-> NoToken]
  /\ opened = [s \in Sessions |-> NotOpened]
  /\ sent = {}
  /\ alive = [s \in Sessions |-> TRUE]
  /\ record = [writer |-> 0, ended |-> [i \in 1..MaxGrants |-> 0],
               source |-> [a \in Actors |-> 0],
               final |-> [a \in Actors |-> NotOpened]]

LeaseCommand(s, o) ==
  AnswerOwner(s, o) \/ Acquire(s, o) \/ TakeOver(s, o) \/ Extend(s, o) \/ Release(s, o)
Execute(r, o) == Save(r, o) \/ Write(r, o) \/ FinalWrite(r, o) \/ Complete(r)

Next ==
  \/ \E s \in Sessions, o \in Clocks : LeaseCommand(s, o) \/ Open(s, o)
  \/ \E o \in Clocks : ObserveExpiry(o)
  \/ \E s \in Sessions, kind \in Kinds : Send(s, kind)
  \/ \E r \in sent, o \in Clocks : Execute(r, o)
  \/ \E r \in sent : Lose(r)
  \/ \E s \in Sessions : Close(s)
  \/ Tick

Spec == Init /\ [][Next]_vars
FairSpec == Spec /\ WF_vars(Tick)
=============================================================================
