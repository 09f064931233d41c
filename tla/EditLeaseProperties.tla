------------------------ MODULE EditLeaseProperties ------------------------
(* What the edit lease owes to the people who edit under it.                  *)
EXTENDS EditLease

Leases == [state : {"NONE", "ACTIVE", "RELEASED", "EXPIRED"},
           session : Sessions \cup {None}, id : 0..MaxGrants, fence : Nat,
           remaining : Int, reason : {"NONE", "FINAL_SAVE"}, lastExpired : Nat]
Drafts == [status : {"NONE", "ACTIVE", "SUBMITTED"}, generation : Nat, revision : Nat]
Tokens == [id : 0..MaxGrants, fence : Nat]
Readings == [id : 0..MaxGrants, generation : Nat, revision : Nat]
Requests == [kind : Kinds, session : Sessions, token : Tokens, reading : Readings]
Records == [writer : Nat, ended : [1..MaxGrants -> Nat],
            source : [Actors -> Nat], final : [Actors -> Readings]]

\* Documents, requests and what tabs remember have the shapes their readers expect.
TypeOK ==
  /\ lease \in Leases
  /\ grants \in 0..MaxGrants
  /\ draft \in [Actors -> Drafts]
  /\ token \in [Sessions -> Tokens]
  /\ opened \in [Sessions -> Readings]
  /\ sent \subseteq Requests
  /\ alive \in [Sessions -> BOOLEAN]
  /\ record \in Records

\* Draft saves and canonical writes take effect in the order of the fences they
\* were made under: a late request of an earlier holder changes nothing once a
\* later holder has written, whatever the clocks of the servers that check it.
WritersAdvance == [][record'.writer >= record.writer]_vars

\* Fences tell leases apart whichever way the earlier one ended: every request
\* still under way for an earlier lease carries a lower fence than the present one.
FencesRise ==
  /\ record.writer <= lease.fence
  /\ \A r \in sent :
       /\ r.token.fence <= lease.fence
       /\ r.token.id # lease.id => r.token.fence < lease.fence

\* The records tell exactly once how each lease ended, and only once it has:
\* an expiry that nobody watched is written down by whoever comes next.
EndsAreRecorded ==
  \A i \in 1..MaxGrants :
    record.ended[i] = IF i < lease.id \/ (i = lease.id /\ lease.state # "ACTIVE")
                      THEN 1 ELSE 0

\* A save changes the draft it was prepared from, never a later one of the same
\* person, although a new draft starts again at revision 0.
SavesStayInTheirDraft ==
  \A a \in Actors :
    draft[a].revision > 0 /\ draft[a].status = "ACTIVE" =>
      record.source[a] = draft[a].generation

\* A draft counts as submitted only if a final save saw exactly its last state.
SubmittedMeansSaved ==
  \A a \in Actors :
    draft[a].status = "SUBMITTED" =>
      /\ record.final[a].generation = draft[a].generation
      /\ record.final[a].revision + 1 = draft[a].revision

\* A tab that was closed while it held the lease loses it, on every server's
\* clock, however many requests of its own are still under way.
AbandonedLeaseIsFreed ==
  \A s \in Sessions :
    (lease.state = "ACTIVE" /\ lease.session = s /\ ~alive[s]) ~>
      (lease.session # s \/ \A o \in Clocks : ~ActiveAt(lease, o))
=============================================================================
