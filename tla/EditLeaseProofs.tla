-------------------------- MODULE EditLeaseProofs --------------------------
(* Proofs, for any number of users, tabs and leases and any clock skew, that   *)
(* the lease fences off late writes, that its ends are recorded, and that      *)
(* drafts and final saves are not mixed up.                                    *)
EXTENDS EditLeaseProperties, TLAPS

USE SessionsAssumption, ClockAssumption, LeaseBounds

-----------------------------------------------------------------------------
(* Shapes.                                                                     *)
LEMMA InitTyped == Init => TypeOK
BY DEF Init, TypeOK, Leases, Drafts, Tokens, Readings, Requests, Records, NoLease,
  NoDraft, NoToken, NotOpened

LEMMA EndsTyped == ASSUME TypeOK PROVE Ends \in Records
<1> DEFINE told == [record.ended EXCEPT ![lease.id] = @ + 1]
<1>1. record \in Records /\ record.ended \in [1..MaxGrants -> Nat]
  BY DEF TypeOK, Records
<1>2. told \in [1..MaxGrants -> Nat]
  <2> DEFINE ended == record.ended
  <2> HIDE DEF ended
  <2>1. ended \in [1..MaxGrants -> Nat]
    BY <1>1 DEF ended
  <2>2. told = [i \in 1..MaxGrants |-> IF i = lease.id THEN ended[i] + 1 ELSE ended[i]]
    BY <2>1 DEF ended
  <2> HIDE DEF told
  <2>3. \A i \in 1..MaxGrants : ended[i] \in Nat
    BY <2>1
  <2> QED BY <2>2, <2>3
<1>3. Ends = [record EXCEPT !.ended = told]
  BY DEF Ends
<1> HIDE DEF told
<1> QED BY <1>1, <1>2, <1>3 DEF Records

\* An answer leaves every tab with a token or none.
LEMMA AnswerTyped ==
  ASSUME TypeOK, NEW s \in Sessions, NEW t \in Tokens, Answer(s, t)
  PROVE  token' \in [Sessions -> Tokens]
BY DEF TypeOK, Answer

LEMMA GrantTyped ==
  ASSUME TypeOK, NEW s \in Sessions, NEW o \in Clocks, Grant(s, o)
  PROVE  lease' \in Leases /\ grants' \in 0..MaxGrants /\ token' \in [Sessions -> Tokens]
<1>1. grants + 1 \in 0..MaxGrants /\ NextFence(lease) \in Nat
  BY DEF TypeOK, Grant, NextFence, Leases
<1>2. [id |-> grants + 1, fence |-> NextFence(lease)] \in Tokens
  BY <1>1 DEF Tokens
<1>3. token' \in [Sessions -> Tokens]
  BY <1>2, AnswerTyped DEF Grant
<1>4. lease' \in Leases
  BY <1>1 DEF TypeOK, Grant, Granted, Leases, Clocks
<1> QED BY <1>1, <1>3, <1>4 DEF Grant

\* Every step keeps the shapes.
LEMMA StepTyped == TypeOK /\ [Next]_vars => TypeOK'
<1> SUFFICES ASSUME TypeOK, [Next]_vars PROVE TypeOK'
  OBVIOUS
<1>1. ASSUME NEW s \in Sessions, NEW o \in Clocks, AnswerOwner(s, o) PROVE TypeOK'
  <2>1. [id |-> lease.id, fence |-> lease.fence] \in Tokens
    BY DEF TypeOK, Leases, Tokens
  <2> QED BY <1>1, <2>1, AnswerTyped DEF TypeOK, AnswerOwner
<1>2. ASSUME NEW s \in Sessions, NEW o \in Clocks, Acquire(s, o) PROVE TypeOK'
  BY <1>2, GrantTyped, EndsTyped DEF TypeOK, Acquire
<1>3. ASSUME NEW s \in Sessions, NEW o \in Clocks, TakeOver(s, o) PROVE TypeOK'
  BY <1>3, GrantTyped, EndsTyped DEF TypeOK, TakeOver
<1>4. ASSUME NEW s \in Sessions, NEW o \in Clocks, Extend(s, o) PROVE TypeOK'
  BY <1>4 DEF TypeOK, Extend, Leases, Clocks
<1>5. ASSUME NEW s \in Sessions, NEW o \in Clocks, Release(s, o) PROVE TypeOK'
  <2>1. NoToken \in Tokens
    BY DEF NoToken, Tokens
  <2>2. token' \in [Sessions -> Tokens]
    BY <1>5, <2>1, AnswerTyped DEF Release
  <2> QED BY <1>5, <2>2, EndsTyped DEF TypeOK, Release, Leases
<1>6. ASSUME NEW o \in Clocks, ObserveExpiry(o) PROVE TypeOK'
  BY <1>6, EndsTyped DEF TypeOK, ObserveExpiry, Expired, Leases
<1>7. ASSUME NEW s \in Sessions, NEW o \in Clocks, Open(s, o) PROVE TypeOK'
  <2>1. Reopened(draft[ActorOf[s]]) \in Drafts
    BY DEF TypeOK, Reopened, Fresh, Drafts
  <2>2. draft' \in [Actors -> Drafts]
    BY <1>7, <2>1 DEF TypeOK, Open
  <2>3. [id |-> token[s].id, generation |-> Reopened(draft[ActorOf[s]]).generation,
         revision |-> Reopened(draft[ActorOf[s]]).revision] \in Readings
    BY <2>1 DEF TypeOK, Tokens, Drafts, Readings
  <2>4. opened' \in [Sessions -> Readings]
    BY <1>7, <2>3 DEF TypeOK, Open
  <2> QED BY <1>7, <2>2, <2>4 DEF TypeOK, Open
<1>8. ASSUME NEW s \in Sessions, NEW kind \in Kinds, Send(s, kind) PROVE TypeOK'
  <2>1. [kind |-> kind, session |-> s, token |-> token[s],
         reading |-> IF kind \in OfDraft THEN opened[s] ELSE NotOpened] \in Requests
    BY DEF TypeOK, Requests, Readings, NotOpened
  <2> QED BY <1>8, <2>1 DEF TypeOK, Send
<1>9. ASSUME NEW r \in sent, Lose(r) PROVE TypeOK'
  BY <1>9 DEF TypeOK, Lose
<1>10. ASSUME NEW r \in sent, NEW o \in Clocks, Save(r, o) PROVE TypeOK'
  <2>1. r \in Requests /\ ActorOf[r.session] \in Actors
    BY DEF TypeOK, Requests
  <2>2. draft' \in [Actors -> Drafts]
    BY <1>10, <2>1 DEF TypeOK, Save, Drafts
  <2>3. record' \in Records
    BY <1>10, <2>1 DEF TypeOK, Save, Records, Requests, Tokens, Readings
  <2> QED BY <1>10, <2>2, <2>3 DEF TypeOK, Save
<1>11. ASSUME NEW r \in sent, NEW o \in Clocks, Write(r, o) PROVE TypeOK'
  BY <1>11 DEF TypeOK, Write, Records, Requests, Tokens
<1>12. ASSUME NEW r \in sent, NEW o \in Clocks, FinalWrite(r, o) PROVE TypeOK'
  <2>1. r \in Requests /\ ActorOf[r.session] \in Actors /\ r.token.fence \in Nat
    BY DEF TypeOK, Requests, Tokens
  <2> DEFINE a == ActorOf[r.session]
             saved == IF draft[a].status = "ACTIVE"
                      THEN [id |-> lease.id, generation |-> draft[a].generation,
                            revision |-> draft[a].revision]
                      ELSE record.final[a]
  <2>2. saved \in Readings
    BY <2>1 DEF TypeOK, Leases, Drafts, Readings, Records
  <2>3. record' = [Ends EXCEPT !.writer = r.token.fence, !.final[a] = saved]
    BY <1>12, Zenon DEF FinalWrite
  <2>4. record' \in Records
    <3> HIDE DEF saved
    <3> QED BY <2>1, <2>2, <2>3, EndsTyped DEF Records
  <2>5. lease' \in Leases
    BY <1>12 DEF TypeOK, FinalWrite, Leases
  <2> QED BY <1>12, <2>4, <2>5 DEF TypeOK, FinalWrite
<1>13. ASSUME NEW r \in sent, Complete(r) PROVE TypeOK'
  <2>1. ActorOf[r.session] \in Actors
    BY DEF TypeOK, Requests
  <2>2. draft' \in [Actors -> Drafts]
    BY <1>13, <2>1 DEF TypeOK, Complete, Drafts
  <2> QED BY <1>13, <2>2 DEF TypeOK, Complete
<1>14. ASSUME NEW s \in Sessions, Close(s) PROVE TypeOK'
  BY <1>14 DEF TypeOK, Close, NoToken, NotOpened, Tokens, Readings
<1>15. ASSUME Tick PROVE TypeOK'
  BY <1>15 DEF TypeOK, Tick, Leases
<1>16. ASSUME UNCHANGED vars PROVE TypeOK'
  BY <1>16 DEF TypeOK, vars
<1> QED
  BY <1>1, <1>2, <1>3, <1>4, <1>5, <1>6, <1>7, <1>8, <1>9, <1>10, <1>11, <1>12,
     <1>13, <1>14, <1>15, <1>16 DEF Next, LeaseCommand, Execute

\* The documents of a lease and of the drafts it guards always have their shapes.
THEOREM LeaseTypeCorrect == Spec => []TypeOK
BY InitTyped, StepTyped, PTL DEF Spec

-----------------------------------------------------------------------------
(* Fences. Every token is the present lease's or carries a lower fence.        *)
Known(t) ==
  /\ t.id <= lease.id /\ t.fence <= lease.fence
  /\ t.id # lease.id => t.fence < lease.fence

IdsKnown ==
  /\ lease.id = grants
  /\ lease.state = "ACTIVE" => lease.id > 0
  /\ record.writer <= lease.fence
  /\ Known(NoToken)
  /\ \A s \in Sessions : Known(token[s]) /\ opened[s].id <= lease.id
  /\ \A r \in sent : Known(r.token) /\ r.reading.id <= lease.id

LEMMA InitKnown == Init => IdsKnown
BY DEF Init, IdsKnown, Known, NoLease, NoToken, NotOpened

\* A grant outdates every token but the one it hands out.
LEMMA GrantKnown ==
  ASSUME TypeOK, IdsKnown, NEW s \in Sessions, NEW o \in Clocks, Grant(s, o)
  PROVE  /\ lease'.id = grants' /\ lease'.id = lease.id + 1
         /\ lease'.state = "ACTIVE" /\ lease'.reason = "NONE"
         /\ lease'.fence = lease.fence + 1 /\ lease'.session = s
         /\ \A x \in Sessions : Known(token[x])'
         /\ \A r \in sent : r.token.id <= lease'.id /\ r.token.fence < lease'.fence
<1>1. /\ lease'.id = grants + 1 /\ lease'.fence = lease.fence + 1
      /\ lease'.state = "ACTIVE" /\ lease'.reason = "NONE" /\ lease'.session = s
      /\ grants' = grants + 1
  BY DEF Grant, Granted, NextFence
<1>2. lease.id = grants /\ grants \in Nat /\ lease.fence \in Nat
  BY DEF TypeOK, Leases, IdsKnown
<1>3. \A x \in Sessions : token[x].id \in Nat /\ token[x].fence \in Nat
  BY DEF TypeOK, Tokens
<1>4. \A x \in Sessions :
        token'[x] = token[x] \/ token'[x] = [id |-> grants + 1, fence |-> lease.fence + 1]
  BY DEF Grant, Answer, NextFence, TypeOK
<1>5. ASSUME NEW x \in Sessions PROVE Known(token[x])'
  <2>1. CASE token'[x] = token[x]
    BY <2>1, <1>1, <1>2, <1>3 DEF IdsKnown, Known
  <2>2. CASE token'[x] = [id |-> grants + 1, fence |-> lease.fence + 1]
    BY <2>2, <1>1, <1>2 DEF Known
  <2> QED BY <2>1, <2>2, <1>4
<1>6. \A r \in sent : r.token.id \in Nat /\ r.token.fence \in Nat
  BY DEF TypeOK, Requests, Tokens
<1> QED BY <1>1, <1>2, <1>5, <1>6 DEF IdsKnown, Known

LEMMA StepKnown == TypeOK /\ IdsKnown /\ [Next]_vars => IdsKnown'
<1> SUFFICES ASSUME TypeOK, IdsKnown, [Next]_vars PROVE IdsKnown'
  OBVIOUS
<1>a. \A r \in sent : r.token.id \in Nat /\ r.token.fence \in Nat /\ r.reading.id \in Nat
  BY DEF TypeOK, Requests, Tokens, Readings
<1>b. \A s \in Sessions : opened[s].id \in Nat /\ token[s].id \in Nat
  BY DEF TypeOK, Tokens, Readings
<1>c. lease.id \in Nat /\ lease.fence \in Nat /\ record.writer \in Nat
  BY DEF TypeOK, Leases, Records
<1>d. Ends.writer = record.writer
  BY DEF TypeOK, Records, Ends
<1>1. ASSUME NEW s \in Sessions, NEW o \in Clocks, AnswerOwner(s, o) PROVE IdsKnown'
  <2>1. \A x \in Sessions : token'[x] = token[x]
             \/ token'[x] = [id |-> lease.id, fence |-> lease.fence]
    BY <1>1 DEF AnswerOwner, Answer, TypeOK
  <2>2. \A x \in Sessions : Known(token[x])'
    BY <1>1, <1>c, <2>1 DEF AnswerOwner, IdsKnown, Known
  <2> QED BY <1>1, <2>2 DEF AnswerOwner, IdsKnown, Known
<1>2. ASSUME NEW s \in Sessions, NEW o \in Clocks, Grant(s, o),
             record'.writer = record.writer, UNCHANGED <<opened, sent>>
      PROVE  IdsKnown'
  <2>1. /\ lease'.id = grants' /\ lease'.id = lease.id + 1 /\ lease'.fence = lease.fence + 1
        /\ \A x \in Sessions : Known(token[x])'
        /\ \A r \in sent : r.token.id <= lease'.id /\ r.token.fence < lease'.fence
    BY <1>2, GrantKnown
  <2>2. Known(NoToken)'
    BY <2>1, <1>c DEF Known, NoToken
  <2>3. record'.writer <= lease'.fence /\ lease'.id > 0
    BY <1>2, <1>c, <2>1 DEF IdsKnown
  <2>4. \A x \in Sessions : opened'[x].id <= lease'.id
    BY <1>2, <1>b, <1>c, <2>1 DEF IdsKnown
  <2>5. \A r \in sent' : Known(r.token)' /\ r.reading.id <= lease'.id
    BY <1>2, <1>a, <1>c, <2>1 DEF IdsKnown, Known
  <2> QED BY <2>1, <2>2, <2>3, <2>4, <2>5 DEF IdsKnown
<1>3. ASSUME NEW s \in Sessions, NEW o \in Clocks, Acquire(s, o) PROVE IdsKnown'
  BY <1>2, <1>3, <1>d DEF Acquire
<1>4. ASSUME NEW s \in Sessions, NEW o \in Clocks, TakeOver(s, o) PROVE IdsKnown'
  BY <1>2, <1>4, <1>d DEF TakeOver
<1>5. ASSUME NEW s \in Sessions, NEW o \in Clocks, Extend(s, o) PROVE IdsKnown'
  <2>1. lease'.id = lease.id /\ lease'.fence = lease.fence /\ lease'.state = lease.state
    BY <1>5 DEF Extend, TypeOK, Leases
  <2> QED BY <1>5, <2>1 DEF Extend, IdsKnown, Known
<1>6. ASSUME NEW s \in Sessions, NEW o \in Clocks, Release(s, o) PROVE IdsKnown'
  <2>1. lease'.id = lease.id /\ lease'.fence = lease.fence /\ lease'.state = "RELEASED"
    BY <1>6 DEF Release, TypeOK, Leases
  <2>2. \A x \in Sessions : token'[x] = token[x] \/ token'[x] = NoToken
    BY <1>6 DEF Release, Answer, TypeOK
  <2> QED BY <1>6, <2>1, <2>2, <1>d DEF Release, IdsKnown, Known
<1>7. ASSUME NEW o \in Clocks, ObserveExpiry(o) PROVE IdsKnown'
  <2>1. lease'.id = lease.id /\ lease'.fence = lease.fence /\ lease'.state = "EXPIRED"
    BY <1>7 DEF ObserveExpiry, Expired, TypeOK, Leases
  <2> QED BY <1>7, <2>1, <1>d DEF ObserveExpiry, IdsKnown, Known
<1>8. ASSUME NEW s \in Sessions, NEW o \in Clocks, Open(s, o) PROVE IdsKnown'
  <2>1. \A x \in Sessions : opened'[x] = opened[x] \/ opened'[x].id = token[s].id
    BY <1>8 DEF Open, TypeOK
  <2> QED BY <1>8, <2>1 DEF Open, IdsKnown, Known
<1>9. ASSUME NEW s \in Sessions, NEW kind \in Kinds, Send(s, kind) PROVE IdsKnown'
  <2>1. \A r \in sent' : r \in sent \/
          (r.token = token[s] /\ (r.reading = opened[s] \/ r.reading = NotOpened))
    BY <1>9 DEF Send
  <2>2. NotOpened.id <= lease.id
    BY <1>c DEF NotOpened
  <2> QED BY <1>9, <2>1, <2>2 DEF Send, IdsKnown, Known
<1>10. ASSUME NEW r \in sent, Lose(r) PROVE IdsKnown'
  BY <1>10 DEF Lose, IdsKnown, Known
<1>11. ASSUME NEW r \in sent, NEW o \in Clocks, Save(r, o) PROVE IdsKnown'
  <2>1. record'.writer = r.token.fence
    BY <1>11 DEF Save, TypeOK, Records
  <2> QED BY <1>11, <2>1 DEF Save, IdsKnown, Known
<1>12. ASSUME NEW r \in sent, NEW o \in Clocks, Write(r, o) PROVE IdsKnown'
  <2>1. record'.writer = r.token.fence
    BY <1>12 DEF Write, TypeOK, Records
  <2> QED BY <1>12, <2>1 DEF Write, IdsKnown, Known
<1>13. ASSUME NEW r \in sent, NEW o \in Clocks, FinalWrite(r, o) PROVE IdsKnown'
  <2>1. record'.writer = r.token.fence
    BY <1>13, EndsTyped DEF FinalWrite, Records
  <2>2. lease'.id = lease.id /\ lease'.fence = lease.fence /\ lease'.state = "RELEASED"
    BY <1>13 DEF FinalWrite, TypeOK, Leases
  <2> QED BY <1>13, <2>1, <2>2 DEF FinalWrite, IdsKnown, Known
<1>14. ASSUME NEW r \in sent, Complete(r) PROVE IdsKnown'
  BY <1>14 DEF Complete, IdsKnown, Known
<1>15. ASSUME NEW s \in Sessions, Close(s) PROVE IdsKnown'
  <2>1. \A x \in Sessions : (token'[x] = token[x] \/ token'[x] = NoToken)
                         /\ (opened'[x] = opened[x] \/ opened'[x] = NotOpened)
    BY <1>15 DEF Close, TypeOK
  <2>2. NotOpened.id <= lease.id
    BY <1>c DEF NotOpened
  <2> QED BY <1>15, <2>1, <2>2 DEF Close, IdsKnown, Known
<1>16. ASSUME Tick PROVE IdsKnown'
  <2>1. lease'.id = lease.id /\ lease'.fence = lease.fence /\ lease'.state = lease.state
    BY <1>16 DEF Tick, TypeOK, Leases
  <2> QED BY <1>16, <2>1 DEF Tick, IdsKnown, Known
<1>17. ASSUME UNCHANGED vars PROVE IdsKnown'
  BY <1>17 DEF vars, IdsKnown, Known
<1> QED
  BY <1>1, <1>3, <1>4, <1>5, <1>6, <1>7, <1>8, <1>9, <1>10, <1>11, <1>12,
     <1>13, <1>14, <1>15, <1>16, <1>17 DEF Next, LeaseCommand, Execute

LEMMA AlwaysKnown == Spec => [](TypeOK /\ IdsKnown)
BY InitTyped, StepTyped, InitKnown, StepKnown, PTL DEF Spec

\* Every request under way for an earlier lease carries a lower fence.
THEOREM FencesAlwaysRise == Spec => []FencesRise
<1>1. TypeOK /\ IdsKnown => FencesRise
  BY DEF IdsKnown, Known, FencesRise
<1> QED BY <1>1, AlwaysKnown, PTL

\* What counts as written never goes back to an earlier lease.
THEOREM WritesAlwaysAdvance == Spec => WritersAdvance
<1>1. TypeOK /\ IdsKnown /\ [Next]_vars => [record'.writer >= record.writer]_vars
  <2> SUFFICES ASSUME TypeOK, IdsKnown, Next PROVE record'.writer >= record.writer
    BY DEF TypeOK, Records
  <2>1. record.writer \in Nat /\ Ends.writer = record.writer
    BY DEF TypeOK, Records, Ends
  <2>2. ASSUME NEW r \in sent, NEW o \in Clocks, Owned(lease, r.session, r.token, o)
        PROVE  r.token.fence >= record.writer
    BY <2>2, <2>1 DEF Owned, Matches, IdsKnown, TypeOK, Leases
  <2>3. ASSUME NEW r \in sent, NEW o \in Clocks, Save(r, o) \/ Write(r, o)
        PROVE  record'.writer >= record.writer
    <3>1. record'.writer = r.token.fence
      BY <2>3 DEF Save, Write, TypeOK, Records
    <3> QED BY <2>2, <2>3, <3>1 DEF Save, Write
  <2>4. ASSUME NEW r \in sent, NEW o \in Clocks, FinalWrite(r, o)
        PROVE  record'.writer >= record.writer
    <3>1. record'.writer = r.token.fence
      BY <2>4, EndsTyped DEF FinalWrite, Records
    <3> QED BY <2>2, <2>4, <3>1 DEF FinalWrite
  <2>5. CASE record' = record \/ record' = Ends
    BY <2>1, <2>5
  <2> QED
    BY <2>3, <2>4, <2>5 DEF Next, LeaseCommand, Execute, AnswerOwner, Acquire, TakeOver,
      Extend, Release, ObserveExpiry, Open, Send, Complete, Lose, Close, Tick
<1> QED BY <1>1, AlwaysKnown, PTL DEF WritersAdvance, Spec

-----------------------------------------------------------------------------
(* Ends. The lease of which the end is not yet written down is the active one. *)
LastKnown ==
  /\ lease.lastExpired <= lease.fence
  /\ lease.state = "ACTIVE" => lease.lastExpired < lease.fence

LEMMA InitEnds == Init => EndsAreRecorded /\ LastKnown
BY DEF Init, EndsAreRecorded, LastKnown, NoLease

\* Once the end of the active lease is told, the ends of all leases so far are.
AllTold(ended) ==
  \A i \in 1..MaxGrants : ended[i] = IF i <= lease.id THEN 1 ELSE 0

LEMMA EndsTellAll ==
  ASSUME TypeOK, EndsAreRecorded, lease.state = "ACTIVE"
  PROVE  AllTold(Ends.ended)
<1> DEFINE ended == record.ended
<1>1. ended \in [1..MaxGrants -> Nat] /\ lease.id \in Nat
  BY DEF TypeOK, Records, Leases
<1>2. Ends.ended = [ended EXCEPT ![lease.id] = ended[lease.id] + 1]
  BY DEF Ends, TypeOK, Records
<1>3. \A i \in 1..MaxGrants : ended[i] = IF i < lease.id THEN 1 ELSE 0
  BY <1>1 DEF EndsAreRecorded
<1> HIDE DEF ended
<1>4. ASSUME NEW i \in 1..MaxGrants
      PROVE  Ends.ended[i] = IF i = lease.id THEN ended[i] + 1 ELSE ended[i]
  BY <1>1, <1>2
<1>5. ASSUME NEW i \in 1..MaxGrants PROVE Ends.ended[i] = IF i <= lease.id THEN 1 ELSE 0
  BY <1>1, <1>3, <1>4
<1> QED BY <1>5 DEF AllTold

LEMMA RecordTellsAll ==
  ASSUME TypeOK, EndsAreRecorded, lease.state # "ACTIVE"
  PROVE  AllTold(record.ended)
BY DEF AllTold, EndsAreRecorded, TypeOK, Leases

LEMMA StepEnds ==
  TypeOK /\ IdsKnown /\ EndsAreRecorded /\ LastKnown /\ [Next]_vars
    => EndsAreRecorded' /\ LastKnown'
<1> SUFFICES ASSUME TypeOK, IdsKnown, EndsAreRecorded, LastKnown, [Next]_vars
             PROVE  EndsAreRecorded' /\ LastKnown'
  OBVIOUS
<1>a. lease.id \in Nat /\ lease.fence \in Nat /\ lease.lastExpired \in Nat
  BY DEF TypeOK, Leases
<1>1. ASSUME NEW s \in Sessions, NEW o \in Clocks, Grant(s, o), AllTold(record'.ended)
      PROVE  EndsAreRecorded' /\ LastKnown'
  <2>1. lease'.id = lease.id + 1 /\ lease'.state = "ACTIVE" /\ lease'.fence = lease.fence + 1
    BY <1>1, GrantKnown
  <2>2. lease'.lastExpired = lease.fence \/ lease'.lastExpired = lease.lastExpired
    BY <1>1 DEF Grant, Granted
  <2>3. LastKnown'
    BY <1>a, <2>1, <2>2 DEF LastKnown
  <2>4. EndsAreRecorded'
    BY <1>1, <1>a, <2>1 DEF AllTold, EndsAreRecorded
  <2> QED BY <2>3, <2>4
<1>2. ASSUME NEW s \in Sessions, NEW o \in Clocks, Acquire(s, o)
      PROVE  EndsAreRecorded' /\ LastKnown'
  <2>1. CASE RequiresExpiry(lease, o)
    <3>1. record' = Ends /\ lease.state = "ACTIVE"
      BY <1>2, <2>1 DEF Acquire, RequiresExpiry
    <3> QED BY <1>1, <1>2, <3>1, EndsTellAll DEF Acquire
  <2>2. CASE ~RequiresExpiry(lease, o)
    <3>1. record' = record /\ lease.state # "ACTIVE"
      BY <1>2, <1>a, <2>2 DEF Acquire, RequiresExpiry, LastKnown
    <3> QED BY <1>1, <1>2, <3>1, RecordTellsAll DEF Acquire
  <2> QED BY <2>1, <2>2
<1>3. ASSUME NEW s \in Sessions, NEW o \in Clocks, TakeOver(s, o)
      PROVE  EndsAreRecorded' /\ LastKnown'
  <2>1. record' = Ends /\ lease.state = "ACTIVE"
    BY <1>3 DEF TakeOver, ActiveAt
  <2> QED BY <1>1, <1>3, <2>1, EndsTellAll DEF TakeOver
<1>4. ASSUME lease.state = "ACTIVE", lease'.state # "ACTIVE", lease'.id = lease.id,
             AllTold(record'.ended), lease'.fence = lease.fence,
             lease'.lastExpired \in {lease.lastExpired, lease.fence}
      PROVE  EndsAreRecorded' /\ LastKnown'
  BY <1>4, <1>a DEF AllTold, EndsAreRecorded, LastKnown
<1>5. ASSUME NEW s \in Sessions, NEW o \in Clocks, Release(s, o)
      PROVE  EndsAreRecorded' /\ LastKnown'
  <2>1. lease.state = "ACTIVE" /\ record' = Ends
    BY <1>5 DEF Release, Owned, ActiveAt
  <2>2. /\ lease'.state = "RELEASED" /\ lease'.id = lease.id /\ lease'.fence = lease.fence
        /\ lease'.lastExpired = lease.lastExpired
    BY <1>5 DEF Release, TypeOK, Leases
  <2> QED BY <1>4, <2>1, <2>2, EndsTellAll
<1>6. ASSUME NEW o \in Clocks, ObserveExpiry(o)
      PROVE  EndsAreRecorded' /\ LastKnown'
  <2>1. lease.state = "ACTIVE" /\ record' = Ends
    BY <1>6 DEF ObserveExpiry, RequiresExpiry
  <2>2. /\ lease'.state = "EXPIRED" /\ lease'.id = lease.id /\ lease'.fence = lease.fence
        /\ lease'.lastExpired = lease.fence
    BY <1>6 DEF ObserveExpiry, Expired, TypeOK, Leases
  <2> QED BY <1>4, <2>1, <2>2, EndsTellAll
<1>7. ASSUME NEW r \in sent, NEW o \in Clocks, FinalWrite(r, o)
      PROVE  EndsAreRecorded' /\ LastKnown'
  <2>1. lease.state = "ACTIVE" /\ record'.ended = Ends.ended
    BY <1>7, EndsTyped DEF FinalWrite, Owned, ActiveAt, Records
  <2>2. /\ lease'.state = "RELEASED" /\ lease'.id = lease.id /\ lease'.fence = lease.fence
        /\ lease'.lastExpired = lease.lastExpired
    BY <1>7 DEF FinalWrite, TypeOK, Leases
  <2> QED BY <1>4, <2>1, <2>2, EndsTellAll
<1>8. ASSUME record'.ended = record.ended, lease'.state = lease.state, lease'.id = lease.id,
             lease'.fence = lease.fence, lease'.lastExpired = lease.lastExpired
      PROVE  EndsAreRecorded' /\ LastKnown'
  BY <1>8 DEF EndsAreRecorded, LastKnown
<1>9. ASSUME NEW s \in Sessions, NEW o \in Clocks, Extend(s, o)
      PROVE  EndsAreRecorded' /\ LastKnown'
  BY <1>8, <1>9 DEF Extend, TypeOK, Leases
<1>10. ASSUME Tick PROVE EndsAreRecorded' /\ LastKnown'
  BY <1>8, <1>10 DEF Tick, TypeOK, Leases
<1>11. ASSUME NEW r \in sent, NEW o \in Clocks, Save(r, o) \/ Write(r, o)
       PROVE  EndsAreRecorded' /\ LastKnown'
  <2>1. record'.ended = record.ended
    BY <1>11 DEF Save, Write, TypeOK, Records
  <2> QED BY <1>8, <1>11, <2>1 DEF Save, Write
<1>12. CASE UNCHANGED <<lease, record>>
  BY <1>8, <1>12
<1> QED
  BY <1>2, <1>3, <1>5, <1>6, <1>7, <1>9, <1>10, <1>11, <1>12
     DEF Next, LeaseCommand, Execute, AnswerOwner, Open, Send, Complete, Lose, Close, vars

\* The end of every lease is told exactly once, even if nobody watched it expire.
THEOREM EndsAlwaysRecorded == Spec => []EndsAreRecorded
BY InitEnds, StepEnds, AlwaysKnown, PTL DEF Spec

-----------------------------------------------------------------------------
(* Drafts. While a lease is active its holder's draft is the one it opened.     *)
Holds(s, g) ==
  lease.state = "ACTIVE" /\ g.id = lease.id =>
    draft[ActorOf[s]].status = "ACTIVE" /\ draft[ActorOf[s]].generation = g.generation

DraftsHeld ==
  /\ \A s \in Sessions : Holds(s, opened[s])
  /\ \A r \in sent : r.kind \in OfDraft =>
       r.reading.id = r.token.id /\ Holds(r.session, r.reading)
  /\ SavesStayInTheirDraft

LEMMA InitHeld == Init => DraftsHeld
BY DEF Init, DraftsHeld, Holds, SavesStayInTheirDraft, NoLease, NoDraft, NotOpened

LEMMA StepHeld == TypeOK /\ IdsKnown /\ DraftsHeld /\ [Next]_vars => DraftsHeld'
<1> SUFFICES ASSUME TypeOK, IdsKnown, DraftsHeld, [Next]_vars PROVE DraftsHeld'
  OBVIOUS
<1>a. \A s \in Sessions : opened[s].id \in Nat /\ opened[s].id <= lease.id
  BY DEF TypeOK, Readings, IdsKnown
<1>b. \A r \in sent : /\ r.reading.id \in Nat /\ r.reading.id <= lease.id
                      /\ r.session \in Sessions /\ ActorOf[r.session] \in Actors
  BY DEF TypeOK, Requests, Readings, IdsKnown
<1>c. lease.id \in Nat
  BY DEF TypeOK, Leases
<1>1. ASSUME UNCHANGED <<draft, opened, sent>>, record'.source = record.source,
             \/ lease'.id = lease.id /\ lease'.state \in {lease.state, "RELEASED", "EXPIRED"}
             \/ lease'.id = lease.id + 1
      PROVE  DraftsHeld'
  <2>1. SavesStayInTheirDraft'
    BY <1>1 DEF DraftsHeld, SavesStayInTheirDraft
  <2>2. \A s \in Sessions : Holds(s, opened[s])'
    BY <1>1, <1>a, <1>c DEF DraftsHeld, Holds
  <2>3. \A r \in sent : r.kind \in OfDraft => Holds(r.session, r.reading)'
    BY <1>1, <1>b, <1>c DEF DraftsHeld, Holds
  <2> QED BY <1>1, <2>1, <2>2, <2>3 DEF DraftsHeld
<1>2. Ends.source = record.source
  BY DEF Ends, TypeOK, Records
<1>3. ASSUME NEW s \in Sessions, NEW o \in Clocks, LeaseCommand(s, o) PROVE DraftsHeld'
  <2>1. ASSUME Grant(s, o), UNCHANGED <<draft, opened, sent>>, record' \in {record, Ends}
        PROVE  DraftsHeld'
    BY <1>1, <1>2, <2>1, GrantKnown
  <2>2. CASE AnswerOwner(s, o)
    BY <1>1, <2>2 DEF AnswerOwner
  <2>3. CASE Acquire(s, o)
    BY <2>1, <2>3 DEF Acquire
  <2>4. CASE TakeOver(s, o)
    BY <2>1, <2>4 DEF TakeOver
  <2>5. CASE Extend(s, o)
    BY <1>1, <2>5 DEF Extend, TypeOK, Leases
  <2>6. CASE Release(s, o)
    <3>1. lease'.id = lease.id /\ lease'.state = "RELEASED"
      BY <2>6 DEF Release, TypeOK, Leases
    <3> QED BY <1>1, <1>2, <2>6, <3>1 DEF Release
  <2> QED BY <1>3, <2>2, <2>3, <2>4, <2>5, <2>6 DEF LeaseCommand
<1>4. ASSUME NEW o \in Clocks, ObserveExpiry(o) PROVE DraftsHeld'
  <2>1. lease'.id = lease.id /\ lease'.state = "EXPIRED"
    BY <1>4 DEF ObserveExpiry, Expired, TypeOK, Leases
  <2> QED BY <1>1, <1>2, <1>4, <2>1 DEF ObserveExpiry
<1>5. ASSUME NEW s \in Sessions, NEW o \in Clocks, Open(s, o) PROVE DraftsHeld'
  <2> DEFINE a == ActorOf[s]
             d == Reopened(draft[a])
  <2>1. /\ UNCHANGED <<lease, token, sent, record>>
        /\ token[s].id = lease.id
        /\ draft' = [draft EXCEPT ![a] = d]
    BY <1>5 DEF Open, Owned, Matches
  <2>2. a \in Actors /\ draft \in [Actors -> Drafts]
    BY DEF TypeOK
  <2>3. draft'[a] = d /\ \A b \in Actors : b # a => draft'[b] = draft[b]
    BY <2>1, <2>2
  <2>4. d.status = "ACTIVE" /\ (d = draft[a] \/ (d.revision = 0 /\ draft[a].status # "ACTIVE"))
    BY DEF Reopened, Fresh
  <2>5. \A x \in Sessions : \A g : Holds(x, g) => Holds(x, g)'
    BY <2>1, <2>2, <2>3, <2>4 DEF Holds
  <2>6. \A x \in Sessions : Holds(x, opened[x])'
    <3> TAKE x \in Sessions
    <3>1. CASE opened'[x] = opened[x]
      BY <2>5, <3>1 DEF DraftsHeld, Holds
    <3>2. CASE opened'[x] # opened[x]
      <4>1. x = s /\ opened'[x].generation = d.generation
        BY <1>5, <3>2 DEF Open, TypeOK
      <4> QED BY <4>1, <2>3, <2>4 DEF Holds
    <3> QED BY <3>1, <3>2
  <2>7. SavesStayInTheirDraft'
    BY <2>1, <2>2, <2>3, <2>4 DEF DraftsHeld, SavesStayInTheirDraft
  <2>8. \A r \in sent : r.kind \in OfDraft => Holds(r.session, r.reading)'
    BY <1>b, <2>5 DEF DraftsHeld
  <2> QED BY <2>1, <2>6, <2>7, <2>8 DEF DraftsHeld
<1>6. ASSUME NEW s \in Sessions, NEW kind \in Kinds, Send(s, kind) PROVE DraftsHeld'
  <2>1. \A r \in sent' : r \in sent \/ (r.session = s /\ r.kind = kind /\ r.token = token[s]
                             /\ (kind \in OfDraft => r.reading = opened[s]))
    BY <1>6 DEF Send
  <2>2. UNCHANGED <<lease, draft, opened, record>>
    BY <1>6 DEF Send
  <2>3. \A r \in sent' : r.kind \in OfDraft =>
           r.reading.id = r.token.id /\ Holds(r.session, r.reading)
    BY <1>6, <2>1 DEF Send, DraftsHeld
  <2> QED BY <2>2, <2>3 DEF DraftsHeld, Holds, SavesStayInTheirDraft
<1>7. ASSUME NEW r \in sent, Lose(r) PROVE DraftsHeld'
  BY <1>7 DEF Lose, DraftsHeld, Holds, SavesStayInTheirDraft
<1>8. ASSUME NEW r \in sent, NEW o \in Clocks, Save(r, o) PROVE DraftsHeld'
  <2> DEFINE a == ActorOf[r.session]
  <2>1. draft'[a].status = "ACTIVE" /\ draft'[a].generation = draft[a].generation
    BY <1>8, <1>b DEF Save, TypeOK, Drafts
  <2>2. \A b \in Actors : b # a => draft'[b] = draft[b]
    BY <1>8, <1>b DEF Save, TypeOK
  <2>3. r.reading.generation = draft[a].generation
    <3>1. r.token.id = lease.id /\ lease.state = "ACTIVE" /\ r.kind \in OfDraft
      BY <1>8 DEF Save, Owned, Matches, ActiveAt, OfDraft
    <3> QED BY <3>1 DEF DraftsHeld, Holds
  <2>4. record'.source[a] = r.reading.generation
        /\ \A b \in Actors : b # a => record'.source[b] = record.source[b]
    BY <1>8, <1>b DEF Save, TypeOK, Records
  <2>5. SavesStayInTheirDraft'
    BY <2>1, <2>2, <2>3, <2>4 DEF DraftsHeld, SavesStayInTheirDraft
  <2>6. draft[a].status = "ACTIVE" /\ UNCHANGED <<lease, opened, sent>>
    BY <1>8 DEF Save
  <2>7. \A x \in Sessions : \A g : Holds(x, g) => Holds(x, g)'
    BY <2>1, <2>2, <2>6, <1>b DEF Holds
  <2> QED BY <2>5, <2>6, <2>7, <1>b DEF DraftsHeld
<1>9. ASSUME NEW r \in sent, NEW o \in Clocks, Write(r, o) PROVE DraftsHeld'
  <2>1. record'.source = record.source
    BY <1>9 DEF Write, TypeOK, Records
  <2> QED BY <1>1, <1>9, <2>1 DEF Write
<1>10. ASSUME NEW r \in sent, NEW o \in Clocks, FinalWrite(r, o) PROVE DraftsHeld'
  <2>1. record'.source = record.source
    BY <1>10, <1>2, EndsTyped DEF FinalWrite, Records
  <2>2. lease'.id = lease.id /\ lease'.state = "RELEASED"
    BY <1>10 DEF FinalWrite, TypeOK, Leases
  <2> QED BY <1>1, <1>10, <2>1, <2>2 DEF FinalWrite
<1>11. ASSUME NEW r \in sent, Complete(r) PROVE DraftsHeld'
  <2> DEFINE a == ActorOf[r.session]
  <2>1. lease.state = "RELEASED" /\ UNCHANGED <<lease, opened, sent, record>>
    BY <1>11 DEF Complete, Finalized
  <2>2. draft'[a].status = "SUBMITTED" /\ \A b \in Actors : b # a => draft'[b] = draft[b]
    BY <1>11, <1>b DEF Complete, TypeOK, Drafts
  <2> QED BY <2>1, <2>2 DEF DraftsHeld, Holds, SavesStayInTheirDraft
<1>12. ASSUME NEW s \in Sessions, Close(s) PROVE DraftsHeld'
  <2>1. UNCHANGED <<lease, draft, sent, record>>
    BY <1>12 DEF Close
  <2>2. \A x \in Sessions : opened'[x] = opened[x] \/ opened'[x] = NotOpened
    BY <1>12 DEF Close, TypeOK
  <2>3. \A x \in Sessions : Holds(x, opened[x])'
    BY <2>1, <2>2 DEF DraftsHeld, Holds, NotOpened, IdsKnown
  <2> QED BY <2>1, <2>3 DEF DraftsHeld, Holds, SavesStayInTheirDraft
<1>13. ASSUME Tick PROVE DraftsHeld'
  BY <1>1, <1>13 DEF Tick, TypeOK, Leases
<1>14. CASE UNCHANGED vars
  BY <1>1, <1>14 DEF vars
<1> QED
  BY <1>3, <1>4, <1>5, <1>6, <1>7, <1>8, <1>9, <1>10, <1>11, <1>12, <1>13, <1>14
     DEF Next, Execute

\* A save never reaches a draft other than the one it was prepared from.
THEOREM SavesAlwaysStay == Spec => []SavesStayInTheirDraft
<1>1. Spec => []DraftsHeld
  BY InitHeld, StepHeld, AlwaysKnown, PTL DEF Spec
<1> QED BY <1>1, PTL DEF DraftsHeld

-----------------------------------------------------------------------------
(* Final saves. What a released lease has saved is the draft it leaves behind. *)
FinalsKnown ==
  /\ lease.state = "ACTIVE" => lease.reason = "NONE"
  /\ \A s \in Sessions :
       (/\ lease.session = s /\ lease.state = "RELEASED" /\ lease.reason = "FINAL_SAVE"
        /\ draft[ActorOf[s]].status = "ACTIVE") =>
         /\ record.final[ActorOf[s]].generation = draft[ActorOf[s]].generation
         /\ record.final[ActorOf[s]].revision = draft[ActorOf[s]].revision
  /\ SubmittedMeansSaved

LEMMA InitFinals == Init => FinalsKnown
BY DEF Init, FinalsKnown, SubmittedMeansSaved, NoLease, NoDraft

LEMMA StepFinals == TypeOK /\ IdsKnown /\ FinalsKnown /\ [Next]_vars => FinalsKnown'
<1> SUFFICES ASSUME TypeOK, IdsKnown, FinalsKnown, [Next]_vars PROVE FinalsKnown'
  OBVIOUS
<1>a. \A r \in sent : r.session \in Sessions /\ ActorOf[r.session] \in Actors
  BY DEF TypeOK, Requests
<1>b. Ends.final = record.final
  BY DEF Ends, TypeOK, Records
<1>1. ASSUME draft' = draft, record'.final = record.final,
             \/ /\ lease'.state = lease.state /\ lease'.reason = lease.reason
                /\ lease'.session = lease.session
             \/ lease'.reason = "NONE"
      PROVE  FinalsKnown'
  BY <1>1 DEF FinalsKnown, SubmittedMeansSaved
<1>2. ASSUME NEW s \in Sessions, NEW o \in Clocks, Grant(s, o), draft' = draft,
             record' \in {record, Ends}
      PROVE  FinalsKnown'
  BY <1>1, <1>2, <1>b, GrantKnown
<1>3. ASSUME NEW s \in Sessions, NEW o \in Clocks, LeaseCommand(s, o) PROVE FinalsKnown'
  <2>1. CASE AnswerOwner(s, o)
    BY <1>1, <2>1 DEF AnswerOwner
  <2>2. CASE Acquire(s, o)
    BY <1>2, <2>2 DEF Acquire
  <2>3. CASE TakeOver(s, o)
    BY <1>2, <2>3 DEF TakeOver
  <2>4. CASE Extend(s, o)
    BY <1>1, <2>4 DEF Extend, TypeOK, Leases
  <2>5. CASE Release(s, o)
    <3>1. lease'.reason = "NONE"
      BY <2>5 DEF Release, Owned, ActiveAt, FinalsKnown, TypeOK, Leases
    <3> QED BY <1>1, <1>b, <2>5, <3>1 DEF Release
  <2> QED BY <1>3, <2>1, <2>2, <2>3, <2>4, <2>5 DEF LeaseCommand
<1>4. ASSUME NEW o \in Clocks, ObserveExpiry(o) PROVE FinalsKnown'
  <2>1. lease'.reason = "NONE"
    BY <1>4 DEF ObserveExpiry, RequiresExpiry, Expired, FinalsKnown, TypeOK, Leases
  <2> QED BY <1>1, <1>b, <1>4, <2>1 DEF ObserveExpiry
<1>5. ASSUME NEW s \in Sessions, NEW o \in Clocks, Open(s, o) PROVE FinalsKnown'
  <2> DEFINE a == ActorOf[s]
             d == Reopened(draft[a])
  <2>1. lease.state = "ACTIVE" /\ UNCHANGED <<lease, record>>
        /\ draft' = [draft EXCEPT ![a] = d]
    BY <1>5 DEF Open, Owned, ActiveAt
  <2>2. d.status = "ACTIVE"
    BY DEF Reopened, Fresh
  <2>3. draft'[a].status = "ACTIVE" /\ \A b \in Actors : b # a => draft'[b] = draft[b]
    BY <2>1, <2>2 DEF TypeOK
  <2> QED BY <2>1, <2>3 DEF FinalsKnown, SubmittedMeansSaved
<1>6. ASSUME NEW r \in sent, NEW o \in Clocks, Save(r, o) PROVE FinalsKnown'
  <2> DEFINE a == ActorOf[r.session]
  <2>1. lease.state = "ACTIVE" /\ lease' = lease
    BY <1>6 DEF Save, Owned, ActiveAt
  <2>2. draft'[a].status = "ACTIVE" /\ \A b \in Actors : b # a => draft'[b] = draft[b]
    BY <1>6, <1>a DEF Save, TypeOK, Drafts
  <2>3. record'.final = record.final
    BY <1>6 DEF Save, TypeOK, Records
  <2> QED BY <2>1, <2>2, <2>3 DEF FinalsKnown, SubmittedMeansSaved
<1>7. ASSUME NEW r \in sent, NEW o \in Clocks, Write(r, o) PROVE FinalsKnown'
  <2>1. record'.final = record.final
    BY <1>7 DEF Write, TypeOK, Records
  <2> QED BY <1>1, <1>7, <2>1 DEF Write
<1>8. ASSUME NEW r \in sent, NEW o \in Clocks, FinalWrite(r, o) PROVE FinalsKnown'
  <2> DEFINE a == ActorOf[r.session]
             saved == IF draft[a].status = "ACTIVE"
                      THEN [id |-> lease.id, generation |-> draft[a].generation,
                            revision |-> draft[a].revision]
                      ELSE record.final[a]
  <2>1. /\ lease.session = r.session /\ draft' = draft
        /\ record' = [Ends EXCEPT !.writer = r.token.fence, !.final[a] = saved]
    BY <1>8, Zenon DEF FinalWrite, Owned, Matches
  <2>2. lease'.session = r.session /\ lease'.state = "RELEASED"
    BY <1>8, <2>1 DEF FinalWrite, TypeOK, Leases
  <2>3. record'.final = [record.final EXCEPT ![a] = saved]
    <3> HIDE DEF saved
    <3> QED BY <2>1, <1>b, EndsTyped DEF Records
  <2>4. /\ a \in Actors /\ record'.final[a] = saved
        /\ \A b \in Actors : b # a => record'.final[b] = record.final[b]
    <3> HIDE DEF saved
    <3> QED BY <2>3, <1>a DEF TypeOK, Records
  <2>5. SubmittedMeansSaved'
    BY <2>1, <2>4 DEF FinalsKnown, SubmittedMeansSaved
  <2>6. draft[a].status = "ACTIVE" =>
          /\ record'.final[a].generation = draft'[a].generation
          /\ record'.final[a].revision = draft'[a].revision
    BY <2>1, <2>4
  <2> QED
    <3> HIDE DEF a, saved
    <3>1. \A s \in Sessions : lease'.session = s => ActorOf[s] = a
      BY <2>2 DEF a
    <3> QED BY <2>1, <2>2, <2>5, <2>6, <3>1 DEF FinalsKnown
<1>9. ASSUME NEW r \in sent, Complete(r) PROVE FinalsKnown'
  <2> DEFINE a == ActorOf[r.session]
  <2>1. /\ lease.session = r.session /\ lease.state = "RELEASED"
        /\ lease.reason = "FINAL_SAVE" /\ draft[a].status = "ACTIVE"
        /\ UNCHANGED <<lease, record>>
    BY <1>9 DEF Complete, Finalized, Matches
  <2>2. /\ record.final[a].generation = draft[a].generation
        /\ record.final[a].revision = draft[a].revision
    BY <2>1, <1>a DEF FinalsKnown
  <2>3. /\ draft'[a].status = "SUBMITTED" /\ draft'[a].generation = draft[a].generation
        /\ draft'[a].revision = draft[a].revision + 1
        /\ \A b \in Actors : b # a => draft'[b] = draft[b]
    BY <1>9, <1>a DEF Complete, TypeOK, Drafts
  <2>4. SubmittedMeansSaved'
    BY <2>1, <2>2, <2>3 DEF FinalsKnown, SubmittedMeansSaved
  <2> QED BY <2>1, <2>3, <2>4, <1>a DEF FinalsKnown
<1>10. ASSUME Tick PROVE FinalsKnown'
  BY <1>1, <1>10 DEF Tick, TypeOK, Leases
<1>11. CASE UNCHANGED <<lease, draft, record>>
  BY <1>1, <1>11
<1> QED
  BY <1>3, <1>4, <1>5, <1>6, <1>7, <1>8, <1>9, <1>10, <1>11
     DEF Next, Execute, Send, Lose, Close, vars

\* A draft counts as submitted only if a final save saw exactly its last state.
THEOREM SubmittedAlwaysSaved == Spec => []SubmittedMeansSaved
<1>1. Spec => []FinalsKnown
  BY InitFinals, StepFinals, AlwaysKnown, PTL DEF Spec
<1> QED BY <1>1, PTL DEF FinalsKnown
=============================================================================
