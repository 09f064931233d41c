---------------------------- MODULE WriteProofs ----------------------------
(* Proofs, for any number of clients, keys, processes and views, that a call   *)
(* takes effect once, that a decision leaves from the state it finds, that the *)
(* calls of a key run one after the other, and that views catch up.            *)
EXTENDS WriteProperties, FiniteSetTheorems, TLAPS

USE KeyAssumption, QueueAssumption, WriteAssumption

\* A job that may be claimed has an attempt left.
AttemptsLeft ==
  \A j \in JobIds : jobs[j].status \in {"READY", "FAILED"} => jobs[j].attempts < MaxAttempts

Shapes == TypeOK /\ AttemptsLeft

-----------------------------------------------------------------------------
(* Shapes.                                                                     *)
LEMMA RestingTyped == Resting \in RunnerRecords
BY DEF Resting, RunnerRecords, JobNames

LEMMA FreeTyped == Free \in CallRecords
BY DEF Free, CallRecords

\* Records updated.
LEMMA JobUpdated ==
  ASSUME NEW job \in JobRecords, NEW status \in {"PROCESSING", "FAILED", "DONE", "DEAD"}
  PROVE  /\ [job EXCEPT !.status = status] \in JobRecords
         /\ [job EXCEPT !.status = status].status = status
BY DEF JobRecords

LEMMA RunnerUpdated ==
  ASSUME NEW x \in RunnerRecords, NEW at \in {"READ", "WRITTEN"}, NEW saw \in 0..MaxVersion
  PROVE  [x EXCEPT !.at = at, !.saw = saw] \in RunnerRecords /\ [x EXCEPT !.at = at] \in RunnerRecords
BY DEF RunnerRecords

LEMMA KeyMarked ==
  ASSUME NEW x \in KeyRecords, NEW status \in {"completed", "failed"}
  PROVE  [x EXCEPT !.status = status] \in KeyRecords
BY DEF KeyRecords

LEMMA KeyAged ==
  ASSUME NEW x \in KeyRecords, NEW left \in 0..TTL
  PROVE  [x EXCEPT !.left = left] \in KeyRecords
BY DEF KeyRecords

LEMMA InitShaped == Init => Shapes
<1> SUFFICES ASSUME Init PROVE Shapes
  OBVIOUS
<1>1. key \in [Keys -> KeyRecords] /\ overrun \in SUBSET Keys
  BY DEF Init, KeyInit, NoKey, KeyRecords
<1>2. jobs \in [JobIds -> JobRecords] /\ AttemptsLeft
  BY DEF Init, QueueInit, NoJob, JobRecords, AttemptsLeft
<1>3. runner \in [Runners -> RunnerRecords]
  BY RestingTyped DEF Init, QueueInit
<1>4. views \in [Views -> 0..MaxVersion] /\ overtaken \in SUBSET Views
  BY DEF Init, QueueInit
<1>5. intent \in [Keys -> Wishes]
  BY DEF Init
<1>6. request \in [Requests -> CallRecords]
  BY FreeTyped DEF Init
<1>7. document \in [version : 0..MaxVersion, state : DOMAIN AllowedTransitions]
  BY DEF Init, AllowedTransitions
<1>8. history \in Seq(Keys \X Routes) /\ Len(history) = document.version
  BY DEF Init
<1> QED BY <1>1, <1>2, <1>3, <1>4, <1>5, <1>6, <1>7, <1>8 DEF Shapes, TypeOK

\* A call moves on, or ends.
LEMMA GoTyped ==
  ASSUME TypeOK, NEW r \in Requests,
         NEW at \in {"FREE", "STARTED", "READ", "COMMITTED", "AUDITED", "ENDING", "FAILING"},
         Go(r, at)
  PROVE  request' \in [Requests -> CallRecords]
BY DEF TypeOK, Go, CallRecords

\* What is written is another version, and names who wrote it.
LEMMA WrittenTyped ==
  ASSUME TypeOK, NEW r \in Requests, Written(r, document.version)
  PROVE  /\ document' \in [version : 0..MaxVersion, state : DOMAIN AllowedTransitions]
         /\ history' \in Seq(Keys \X Routes) /\ Len(history') = document'.version
<1>1. Key(r) \in Keys /\ Wish(r) \in Wishes
  BY DEF TypeOK, Key, Wish, CallRecords
<1>2. <<Key(r), Wish(r).route>> \in Keys \X Routes /\ Wish(r).state \in DOMAIN AllowedTransitions
  BY <1>1 DEF Wishes
<1>3. document' \in [version : 0..MaxVersion, state : DOMAIN AllowedTransitions]
  BY <1>2 DEF TypeOK, Written
<1>4. document'.version = document.version + 1
  BY DEF Written
<1> DEFINE entry == <<Key(r), Wish(r).route>>
<1>5. entry \in Keys \X Routes /\ history' = Append(history, entry)
  BY <1>2 DEF Written
<1> HIDE DEF entry
<1> DEFINE entries == Keys \X Routes
<1>6. history \in Seq(entries) /\ Len(history) = document.version /\ entry \in entries
  BY <1>5 DEF TypeOK
<1> HIDE DEF entries
<1>7. history' \in Seq(entries) /\ Len(history') = Len(history) + 1
  BY <1>5, <1>6
<1> QED BY <1>3, <1>4, <1>6, <1>7 DEF entries

LEMMA EnqueuedTyped ==
  ASSUME Shapes, NEW i
  PROVE  /\ Enqueued(i) \in [JobIds -> JobRecords]
         /\ jobs' = Enqueued(i) => AttemptsLeft'
<1> DEFINE ready == [NoJob EXCEPT !.status = "READY"]
<1>1. ready \in JobRecords /\ ready.attempts < MaxAttempts
  BY DEF NoJob, JobRecords
<1>2. Enqueued(i) = [j \in JobIds |-> IF j[1] = i THEN ready ELSE jobs[j]]
  BY DEF Enqueued
<1> HIDE DEF ready
<1> QED BY <1>1, <1>2 DEF Shapes, TypeOK, AttemptsLeft

LEMMA ClaimTyped ==
  ASSUME Shapes, NEW w \in Runners, NEW j \in JobIds, ClaimJob(w, j)
  PROVE  /\ jobs' \in [JobIds -> JobRecords] /\ AttemptsLeft'
         /\ runner' \in [Runners -> RunnerRecords]
<1>1. jobs[j] \in JobRecords /\ jobs[j].attempts < MaxAttempts
  BY DEF Shapes, TypeOK, AttemptsLeft, ClaimJob, Due
<1> DEFINE claimed == [jobs[j] EXCEPT !.status = "PROCESSING", !.attempts = @ + 1]
<1>2. claimed \in JobRecords /\ claimed.status = "PROCESSING"
  <2> DEFINE job == jobs[j]
  <2> HIDE DEF job
  <2>1. job \in JobRecords /\ job.attempts < MaxAttempts
    BY <1>1 DEF job
  <2> DEFINE n == job.attempts + 1
  <2>2. n \in 0..MaxAttempts
    BY <2>1 DEF JobRecords
  <2>3. claimed = [job EXCEPT !.status = "PROCESSING", !.attempts = n]
    BY DEF job
  <2> HIDE DEF n, claimed
  <2>4. [job EXCEPT !.status = "PROCESSING", !.attempts = n] \in JobRecords
    BY <2>1, <2>2 DEF JobRecords
  <2>5. [job EXCEPT !.status = "PROCESSING", !.attempts = n].status = "PROCESSING"
    BY <2>1 DEF JobRecords
  <2> QED BY <2>3, <2>4, <2>5
<1>3. jobs' = [jobs EXCEPT ![j] = claimed]
  BY DEF ClaimJob
<1>4. jobs' \in [JobIds -> JobRecords] /\ AttemptsLeft'
  <2> HIDE DEF claimed
  <2> QED BY <1>2, <1>3 DEF Shapes, TypeOK, AttemptsLeft
<1> DEFINE taken == [at |-> "CLAIMED", job |-> j, saw |-> 0]
<1>5. taken \in RunnerRecords
  BY DEF JobIds, JobNames, RunnerRecords
<1>6. runner' \in [Runners -> RunnerRecords]
  <2> HIDE DEF taken
  <2>1. runner' = [runner EXCEPT ![w] = taken]
    BY DEF ClaimJob, taken
  <2> QED BY <1>5, <2>1 DEF Shapes, TypeOK
<1> QED BY <1>4, <1>6

LEMMA WorkShaped == ASSUME Shapes, NEW w \in Runners, Work(w) PROVE Shapes'
<1>1. CASE ReadView(w, document.version)
  <2>1. View(w) \in Views
    BY DEF Shapes, TypeOK, View, RunnerRecords, JobNames
  <2>2. overtaken' \in SUBSET Views
    BY <1>1, <2>1 DEF Shapes, TypeOK, ReadView
  <2> DEFINE read == [runner[w] EXCEPT !.at = "READ", !.saw = document.version]
  <2>3. read \in RunnerRecords
    BY RunnerUpdated DEF Shapes, TypeOK
  <2>4. runner' \in [Runners -> RunnerRecords]
    <3>1. runner' = [runner EXCEPT ![w] = read]
      BY <1>1 DEF ReadView
    <3> HIDE DEF read
    <3> QED BY <2>3, <3>1 DEF Shapes, TypeOK
  <2> QED BY <1>1, <2>2, <2>4 DEF Work, Shapes, TypeOK, AttemptsLeft, ReadView, keyVars, writeVars
<1>2. CASE WriteView(w)
  <2>1. runner[w].saw \in 0..MaxVersion
    BY DEF Shapes, TypeOK, RunnerRecords
  <2>2. views' \in [Views -> 0..MaxVersion]
    BY <1>2, <2>1 DEF Shapes, TypeOK, WriteView
  <2>3. [runner[w] EXCEPT !.at = "WRITTEN"] \in RunnerRecords
    BY <2>1, RunnerUpdated DEF Shapes, TypeOK
  <2>4. runner' \in [Runners -> RunnerRecords]
    BY <1>2, <2>3 DEF Shapes, TypeOK, WriteView
  <2> QED BY <1>2, <2>2, <2>4 DEF Work, Shapes, TypeOK, AttemptsLeft, WriteView, keyVars, writeVars
<1>3. CASE JobDone(w)
  <2> DEFINE j == runner[w].job
             done == [jobs[j] EXCEPT !.status = "DONE"]
  <2>1. jobs' \in [JobIds -> JobRecords] /\ AttemptsLeft'
    <3>1. jobs' = [jobs EXCEPT ![j] = done]
      BY <1>3 DEF JobDone
    <3>2. j \in JobIds => done \in JobRecords /\ done.status = "DONE"
      BY JobUpdated DEF Shapes, TypeOK
    <3> HIDE DEF done, j
    <3> QED BY <3>1, <3>2 DEF Shapes, TypeOK, AttemptsLeft
  <2>2. runner' \in [Runners -> RunnerRecords]
    BY <1>3, RestingTyped DEF Shapes, TypeOK, JobDone
  <2> QED BY <1>3, <2>1, <2>2 DEF Work, Shapes, TypeOK, JobDone, keyVars, writeVars
<1>4. CASE JobFails(w)
  <2>1. \A job \in JobRecords : /\ Failed(job) \in JobRecords
                                /\ Failed(job).status = "FAILED" => Failed(job).attempts < MaxAttempts
                                /\ Failed(job).status # "READY"
    <3> SUFFICES ASSUME NEW job \in JobRecords
                 PROVE  /\ Failed(job) \in JobRecords
                        /\ Failed(job).status = "FAILED" => Failed(job).attempts < MaxAttempts
                        /\ Failed(job).status # "READY"
      OBVIOUS
    <3>1. job.attempts \in 0..MaxAttempts
      BY DEF JobRecords
    <3>2. CASE job.attempts >= MaxAttempts
      <4>1. Failed(job) = [job EXCEPT !.status = "DEAD", !.wait = 1]
        BY <3>2, Zenon DEF Failed
      <4> QED BY <4>1 DEF JobRecords
    <3>3. CASE ~(job.attempts >= MaxAttempts)
      <4>1. Failed(job) = [job EXCEPT !.status = "FAILED", !.wait = 1]
        BY <3>3, Zenon DEF Failed
      <4>2. Failed(job) \in JobRecords
        BY <4>1 DEF JobRecords
      <4>3. Failed(job).attempts = job.attempts /\ Failed(job).status = "FAILED"
        BY <4>1 DEF JobRecords
      <4> QED BY <3>1, <3>3, <4>2, <4>3
    <3> QED BY <3>2, <3>3
  <2>2. jobs' \in [JobIds -> JobRecords] /\ AttemptsLeft'
    <3> HIDE DEF JobRecords, Failed
    <3> QED BY <1>4, <2>1 DEF Shapes, TypeOK, AttemptsLeft, JobFails
  <2>3. runner' \in [Runners -> RunnerRecords]
    BY <1>4, RestingTyped DEF Shapes, TypeOK, JobFails
  <2> QED BY <1>4, <2>2, <2>3 DEF Work, Shapes, TypeOK, JobFails, keyVars, writeVars
<1> QED BY <1>1, <1>2, <1>3, <1>4 DEF Work, RunJob

LEMMA ServeShaped == ASSUME Shapes, NEW r \in Requests, Serve(r) PROVE Shapes'
<1>1. CASE Upsert(r)
  <2>1. request' \in [Requests -> CallRecords]
    BY <1>1, GoTyped DEF Upsert, Shapes
  <2>2. jobs' \in [JobIds -> JobRecords] /\ AttemptsLeft'
    BY <1>1, EnqueuedTyped DEF Upsert, Shapes, TypeOK, AttemptsLeft
  <2> QED BY <1>1, <2>1, <2>2, WrittenTyped DEF Upsert, Shapes, TypeOK, keyVars
<1>2. CASE ReadState(r)
  <2>1. request' \in [Requests -> CallRecords]
    BY <1>2 DEF ReadState, Shapes, TypeOK, CallRecords
  <2> QED BY <1>2, <2>1 DEF ReadState, Shapes, TypeOK, AttemptsLeft, keyVars, queueVars
<1>3. CASE PatchState(r)
  <2>1. request' \in [Requests -> CallRecords]
    BY <1>3, GoTyped DEF PatchState, Shapes
  <2>2. Written(r, document.version)
    BY <1>3 DEF PatchState, Unchanged
  <2> QED BY <1>3, <2>1, <2>2, WrittenTyped DEF PatchState, Shapes, TypeOK, AttemptsLeft, keyVars, queueVars
<1>4. CASE Refuse(r)
  BY <1>4, GoTyped DEF Refuse, Shapes, TypeOK, AttemptsLeft, keyVars, queueVars
<1>5. CASE Audit(r)
  BY <1>5, GoTyped DEF Audit, Shapes, TypeOK, AttemptsLeft, keyVars, queueVars
<1>6. CASE ClaimOwn(r)
  <2>1. PICK j \in JobIds : ClaimJob(r, j)
    BY <1>6 DEF ClaimOwn, OwnJobs
  <2> QED BY <1>6, <2>1, ClaimTyped DEF ClaimOwn, ClaimJob, Shapes, TypeOK, keyVars, writeVars
<1>7. CASE QueueWorkedOff(r)
  BY <1>7, GoTyped DEF QueueWorkedOff, Shapes, TypeOK, AttemptsLeft, keyVars, queueVars
<1>8. CASE End(r)
  <2>1. request' \in [Requests -> CallRecords]
    BY <1>8, FreeTyped DEF End, Shapes, TypeOK
  <2>2. key' \in [Keys -> KeyRecords] /\ overrun' = overrun
    <3>1. PICK status \in {"completed", "failed"} : Merge(Key(r), status)
      BY <1>8 DEF End, Complete, Fail
    <3>2. Key(r) \in Keys
      BY DEF Shapes, TypeOK, Key, CallRecords
    <3>3. [key[Key(r)] EXCEPT !.status = status] \in KeyRecords
      BY <3>1, <3>2, KeyMarked DEF Shapes, TypeOK
    <3> QED BY <3>1, <3>2, <3>3 DEF Merge, Shapes, TypeOK
  <2> QED BY <1>8, <2>1, <2>2 DEF End, Shapes, TypeOK, AttemptsLeft, queueVars
<1> QED BY <1>1, <1>2, <1>3, <1>4, <1>5, <1>6, <1>7, <1>8 DEF Serve

LEMMA StepShaped == Shapes /\ [Next]_vars => Shapes'
<1> SUFFICES ASSUME Shapes, [Next]_vars PROVE Shapes'
  OBVIOUS
<1>1. ASSUME NEW r \in Requests, NEW k \in Keys, Arrive(r, k) PROVE Shapes'
  <2>1. [at |-> "STARTED", key |-> k, saw |-> 0] \in CallRecords
    BY DEF CallRecords, QueueAssumption
  <2>2. request' \in [Requests -> CallRecords]
    BY <1>1, <2>1 DEF Arrive, Shapes, TypeOK
  <2>3. key' \in [Keys -> KeyRecords] /\ overrun' = overrun
    BY <1>1 DEF Arrive, Begin, Shapes, TypeOK, KeyRecords
  <2> QED BY <1>1, <2>2, <2>3 DEF Arrive, Shapes, TypeOK, AttemptsLeft, queueVars
<1>2. ASSUME NEW c \in Crons, ClaimDue(c) PROVE Shapes'
  <2>1. PICK j \in JobIds : ClaimJob(c, j)
    BY <1>2 DEF ClaimDue
  <2> QED BY <1>2, <2>1, ClaimTyped DEF ClaimDue, ClaimJob, Shapes, TypeOK, keyVars, writeVars
<1>3. ASSUME NEW w \in Runners, Die(w) PROVE Shapes'
  <2>1. runner' \in [Runners -> RunnerRecords]
    BY <1>3, RestingTyped DEF Die, Abandon, Shapes, TypeOK
  <2>2. request' \in [Requests -> CallRecords]
    BY <1>3, FreeTyped DEF Die, Shapes, TypeOK
  <2> QED BY <1>3, <2>1, <2>2 DEF Die, Abandon, Shapes, TypeOK, AttemptsLeft, keyVars
<1>4. ASSUME NEW k \in Keys, CleanUp(k), UNCHANGED <<queueVars, writeVars>> PROVE Shapes'
  <2>1. key' \in [Keys -> KeyRecords] /\ overrun' = overrun
    BY <1>4 DEF CleanUp, NoKey, Shapes, TypeOK, KeyRecords
  <2> QED BY <1>4, <2>1 DEF Shapes, TypeOK, AttemptsLeft, queueVars, writeVars
<1>5. ASSUME Tick PROVE Shapes'
  <2>1. key' \in [Keys -> KeyRecords] /\ overrun' \in SUBSET Keys
    <3> DEFINE left(k) == IF key[k].left > 0 THEN key[k].left - 1 ELSE 0
    <3>1. \A k \in Keys : left(k) \in 0..TTL
      BY DEF Shapes, TypeOK, KeyRecords
    <3>4. key' = [k \in Keys |-> [key[k] EXCEPT !.left = left(k)]]
      BY <1>5, Zenon DEF Tick, KeyTick
    <3>2. \A r \in Requests : Key(r) \in Keys
      BY DEF Shapes, TypeOK, Key, CallRecords
    <3> HIDE DEF left
    <3>5. key' \in [Keys -> KeyRecords]
      BY <3>1, <3>4, KeyAged DEF Shapes, TypeOK
    <3>6. overrun' \in SUBSET Keys
      BY <1>5, <3>2 DEF Tick, KeyTick, Shapes, TypeOK
    <3> QED BY <3>5, <3>6
  <2>2. jobs' \in [JobIds -> JobRecords] /\ AttemptsLeft'
    BY <1>5 DEF Tick, QueueTick, Shapes, TypeOK, AttemptsLeft, JobRecords
  <2> QED BY <1>5, <2>1, <2>2 DEF Tick, QueueTick, Shapes, TypeOK, writeVars
<1>6. ASSUME UNCHANGED vars PROVE Shapes'
  BY <1>6 DEF Shapes, TypeOK, AttemptsLeft, vars, keyVars, queueVars, writeVars
<1> QED BY <1>1, <1>2, <1>3, <1>4, <1>5, <1>6, ServeShaped, WorkShaped DEF Next

\* Keys, jobs, views, versions and calls always have their shapes, and a job that is
\* due has an attempt left.
THEOREM WriteTypeCorrect == Spec => []TypeOK
BY InitShaped, StepShaped, PTL DEF Spec, Shapes

-----------------------------------------------------------------------------
(* Effects. A version is written by a client that expects the one before it,   *)
(* and what a PATCH has checked holds as long as the version it has read does. *)
Expected(k) == intent[k].expected

Provenance ==
  \A i \in DOMAIN history :
    Expected(history[i][1]) = i - 1 \/ (i = 1 /\ Expected(history[i][1]) = NoVersion)

ReadsHold ==
  \A r \in Requests : At(r, "READ") =>
    /\ request[r].saw = Wish(r).expected /\ request[r].saw <= document.version
    /\ request[r].saw = document.version => Wish(r).state \in AllowedTransitions[document.state]

Effects == TypeOK /\ Provenance /\ ReadsHold

\* A version that is expected is written.
LEMMA WrittenProven ==
  ASSUME Effects, NEW r \in Requests, Written(r, document.version), intent' = intent,
         VersionMatches(Wish(r).expected) \/ Wish(r).expected = document.version,
         request' = [request EXCEPT ![r].at = "COMMITTED"]
  PROVE  Provenance' /\ ReadsHold'
<1> DEFINE entry == <<Key(r), Wish(r).route>>
<1>1. history' = Append(history, entry) /\ document'.version = document.version + 1
  BY DEF Written
<1>2. entry \in Keys \X Routes /\ entry[1] = Key(r)
  BY DEF Effects, TypeOK, Key, Wish, CallRecords, Wishes
<1>3. Expected(Key(r)) = document.version \/ (document.version = 0 /\ Expected(Key(r)) = NoVersion)
  BY DEF VersionMatches, Expected, Wish
<1> DEFINE entries == Keys \X Routes
<1>4. history \in Seq(entries) /\ Len(history) = document.version /\ document.version \in Nat
  BY DEF Effects, TypeOK
<1> HIDE DEF entry, entries
<1>5. DOMAIN history' = 1..(document.version + 1) /\ DOMAIN history = 1..document.version
  BY <1>1, <1>2, <1>4 DEF entries
<1>6. \A i \in 1..document.version : history'[i] = history[i]
  BY <1>1, <1>2, <1>4 DEF entries
<1>7. history'[document.version + 1] = entry
  BY <1>1, <1>2, <1>4 DEF entries
<1>8. Provenance'
  <2> SUFFICES ASSUME NEW i \in 1..(document.version + 1)
               PROVE  \/ Expected(history'[i][1]) = i - 1
                      \/ i = 1 /\ Expected(history'[i][1]) = NoVersion
    BY <1>5 DEF Provenance, Expected
  <2>1. CASE i = document.version + 1
    BY <1>2, <1>3, <1>4, <1>7, <2>1
  <2>2. CASE i # document.version + 1
    <3>1. i \in DOMAIN history /\ history'[i] = history[i]
      BY <1>4, <1>5, <1>6, <2>2
    <3> QED BY <3>1 DEF Effects, Provenance
  <2> QED BY <2>1, <2>2
<1>9. ReadsHold'
  <2> SUFFICES ASSUME NEW q \in Requests, At(q, "READ")'
               PROVE  /\ request[q].saw = Wish(q).expected /\ request'[q] = request[q]
                      /\ request[q].saw <= document.version + 1 /\ request[q].saw # document.version + 1
    BY <1>1 DEF ReadsHold, Wish, Key
  <2>1. q # r /\ request'[q] = request[q]
    BY DEF At, Effects, TypeOK
  <2>2. At(q, "READ")
    BY <2>1 DEF At
  <2>3. request[q].saw \in Nat
    BY DEF Effects, TypeOK, CallRecords
  <2> QED BY <1>4, <2>1, <2>2, <2>3 DEF Effects, ReadsHold
<1> QED BY <1>8, <1>9

\* A call that moves on without a write keeps what holds of the effects.
LEMMA MovedOn ==
  ASSUME Effects, UNCHANGED <<document, intent, history>>,
         \A r \in Requests : At(r, "READ")' => request'[r] = request[r]
  PROVE  Provenance' /\ ReadsHold'
<1>1. Provenance'
  BY DEF Effects, Provenance, Expected
<1>2. ReadsHold'
  BY DEF Effects, ReadsHold, At, Wish, Key
<1> QED BY <1>1, <1>2

\* A call that is in another phase than READ afterwards.
LEMMA OthersKept ==
  ASSUME TypeOK, NEW r \in Requests, NEW at, at # "READ", Go(r, at)
  PROVE  \A q \in Requests : At(q, "READ")' => request'[q] = request[q]
BY DEF TypeOK, Go, At, CallRecords

LEMMA ServeEffects == ASSUME Effects, NEW r \in Requests, Serve(r) PROVE Provenance' /\ ReadsHold'
<1> TypeOK
  BY DEF Effects
<1>1. CASE Upsert(r)
  BY <1>1, WrittenProven DEF Upsert, Go
<1>2. CASE ReadState(r)
  <2> DEFINE n == document.version
             read == [request[r] EXCEPT !.at = "READ", !.saw = n]
  <2>1. request' = [request EXCEPT ![r] = read]
    BY <1>2 DEF ReadState
  <2>2. read.saw = n /\ read.key = request[r].key
    BY DEF TypeOK, CallRecords
  <2>3. Wish(r).expected = n /\ Wish(r).state \in AllowedTransitions[document.state] /\ n \in Nat
    BY <1>2 DEF ReadState, TypeOK
  <2>4. UNCHANGED <<document, intent, history>>
    BY <1>2 DEF ReadState
  <2> HIDE DEF read, n
  <2>5. Provenance'
    BY <2>4 DEF Effects, Provenance, Expected
  <2>6. ReadsHold'
    <3> SUFFICES ASSUME NEW q \in Requests, At(q, "READ")'
                 PROVE  /\ request'[q].saw = Wish(q)'.expected /\ request'[q].saw <= n
                        /\ request'[q].saw = n => Wish(q)'.state \in AllowedTransitions[document.state]
      BY <2>4 DEF ReadsHold, n
    <3>1. CASE q = r
      <4>1. request'[q] = read
        BY <2>1, <3>1 DEF TypeOK
      <4>2. Wish(q)' = Wish(r)
        BY <2>2, <2>4, <3>1, <4>1 DEF Wish, Key
      <4> QED BY <2>2, <2>3, <4>1, <4>2
    <3>2. CASE q # r
      <4>1. request'[q] = request[q]
        BY <2>1, <3>2 DEF TypeOK
      <4> QED BY <2>4, <4>1 DEF Effects, ReadsHold, At, Wish, Key, n
    <3> QED BY <3>1, <3>2
  <2> QED BY <2>5, <2>6
<1>3. CASE PatchState(r)
  <2>1. Written(r, document.version) /\ Wish(r).expected = document.version
    BY <1>3 DEF PatchState, Unchanged, Effects, ReadsHold
  <2> QED BY <1>3, <2>1, WrittenProven DEF PatchState, Go
<1>4. CASE Refuse(r)
  BY <1>4, MovedOn, OthersKept DEF Refuse
<1>5. CASE Audit(r)
  BY <1>5, MovedOn, OthersKept DEF Audit
<1>6. CASE ClaimOwn(r)
  BY <1>6, MovedOn DEF ClaimOwn, writeVars
<1>7. CASE QueueWorkedOff(r)
  BY <1>7, MovedOn, OthersKept DEF QueueWorkedOff
<1>8. CASE End(r)
  <2>1. \A q \in Requests : At(q, "READ")' => request'[q] = request[q]
    BY <1>8 DEF End, At, TypeOK, Free
  <2> QED BY <1>8, <2>1, MovedOn DEF End
<1> QED BY <1>1, <1>2, <1>3, <1>4, <1>5, <1>6, <1>7, <1>8 DEF Serve

LEMMA StepEffects == Effects /\ [Next]_vars => (Provenance /\ ReadsHold)'
<1> SUFFICES ASSUME Effects, [Next]_vars PROVE Provenance' /\ ReadsHold'
  OBVIOUS
<1> TypeOK
  BY DEF Effects
<1>1. ASSUME NEW r \in Requests, NEW k \in Keys, Arrive(r, k) PROVE Provenance' /\ ReadsHold'
  <2>1. \A q \in Requests : At(q, "READ")' => request'[q] = request[q]
    BY <1>1 DEF Arrive, At, TypeOK
  <2> QED BY <1>1, <2>1, MovedOn DEF Arrive
<1>2. ASSUME NEW c \in Crons, ClaimDue(c) PROVE Provenance' /\ ReadsHold'
  BY <1>2, MovedOn DEF ClaimDue, writeVars
<1>3. ASSUME NEW w \in Runners, Work(w) PROVE Provenance' /\ ReadsHold'
  BY <1>3, MovedOn DEF Work, writeVars
<1>4. ASSUME NEW w \in Runners, Die(w) PROVE Provenance' /\ ReadsHold'
  <2>1. \A q \in Requests : At(q, "READ")' => request'[q] = request[q]
    BY <1>4 DEF Die, At, TypeOK, Free
  <2> QED BY <1>4, <2>1, MovedOn DEF Die
<1>5. ASSUME NEW k \in Keys, CleanUp(k), UNCHANGED <<queueVars, writeVars>>
      PROVE  Provenance' /\ ReadsHold'
  BY <1>5, MovedOn DEF writeVars
<1>6. ASSUME Tick PROVE Provenance' /\ ReadsHold'
  BY <1>6, MovedOn DEF Tick, writeVars
<1>7. ASSUME UNCHANGED vars PROVE Provenance' /\ ReadsHold'
  BY <1>7, MovedOn DEF vars, writeVars
<1> QED BY <1>1, <1>2, <1>3, <1>4, <1>5, <1>6, <1>7, ServeEffects DEF Next

LEMMA InitEffects == Init => Provenance /\ ReadsHold
BY DEF Init, Provenance, ReadsHold, At, Free

LEMMA EffectsHold == Spec => []Effects
<1>1. Shapes => TypeOK
  BY DEF Shapes
<1>2. TypeOK /\ Provenance /\ ReadsHold /\ [Next]_vars => (Provenance /\ ReadsHold)'
  BY StepEffects DEF Effects
<1> QED BY <1>1, <1>2, InitShaped, StepShaped, InitEffects, PTL DEF Spec, Effects

\* What a client asks for under one key happens at most once, for any number of calls,
\* repetitions, deaths and expired keys: the version it expects is there only once.
THEOREM AlwaysAppliedOnce == Spec => []AppliedOnce
<1>1. Effects => AppliedOnce
  <2> SUFFICES ASSUME Effects, NEW i \in DOMAIN history, NEW j \in DOMAIN history,
                      history[i][1] = history[j][1]
               PROVE  i = j
    BY DEF AppliedOnce
  <2>1. i \in Nat \ {0} /\ j \in Nat \ {0}
    BY DEF Effects, TypeOK
  <2> QED BY <2>1 DEF Effects, Provenance, NoVersion
<1> QED BY <1>1, EffectsHold, PTL

\* A PATCH leaves from the state the document is in when it is written.
THEOREM TransitionsAlwaysFromPresent == Spec => TransitionsFromPresentState
<1> DEFINE A == history' # history /\ history'[Len(history')][2] = "PATCH"
                => document'.state \in AllowedTransitions[document.state]
<1>1. Effects /\ [Next]_vars => [A]_vars
  <2> SUFFICES ASSUME Effects, [Next]_vars, history' # history, history'[Len(history')][2] = "PATCH"
               PROVE  document'.state \in AllowedTransitions[document.state]
    OBVIOUS
  <2>1. PICK r \in Requests : Upsert(r) \/ PatchState(r)
    BY DEF Next, vars, keyVars, queueVars, writeVars, Serve, ReadState, Refuse, Audit, ClaimOwn,
           QueueWorkedOff, End, Arrive, ClaimDue, Work, Die, Tick
  <2>2. Written(r, document.version)
    BY <2>1 DEF Upsert, PatchState, Unchanged
  <2> DEFINE entry == <<Key(r), Wish(r).route>>
             entries == Keys \X Routes
  <2>3. entry \in entries /\ history \in Seq(entries) /\ history' = Append(history, entry)
    BY <2>2 DEF Written, Effects, TypeOK, Key, Wish, CallRecords, Wishes
  <2>4. entry[2] = Wish(r).route
    OBVIOUS
  <2> HIDE DEF entry, entries
  <2>5. history'[Len(history')] = entry
    BY <2>3
  <2>6. PatchState(r)
    BY <2>1, <2>4, <2>5 DEF Upsert
  <2>7. Wish(r).state \in AllowedTransitions[document.state]
    BY <2>6 DEF PatchState, Unchanged, Effects, ReadsHold
  <2> QED BY <2>2, <2>7 DEF Written
<1> QED BY <1>1, EffectsHold, PTL DEF Spec, TransitionsFromPresentState

-----------------------------------------------------------------------------
(* Keys. A key whose call runs in time is pending, and only that call ends it. *)
InTime(k) == k \notin overrun
HoldsKey(r) == ~At(r, "FREE") /\ InTime(Key(r))

KeysHeld ==
  /\ \A r \in Requests : HoldsKey(r) => key[Key(r)].status = "pending" /\ key[Key(r)].left > 0
  /\ \A r, q \in Requests : HoldsKey(r) /\ ~At(q, "FREE") /\ Key(q) = Key(r) => q = r

Held == TypeOK /\ KeysHeld

\* A step that leaves the keys alone and at most ends calls keeps what is held.
LEMMA KeysKept ==
  ASSUME Held, UNCHANGED keyVars,
         \A r \in Requests : ~At(r, "FREE")' => ~At(r, "FREE") /\ Key(r)' = Key(r)
  PROVE  KeysHeld'
BY DEF Held, KeysHeld, HoldsKey, InTime, keyVars

LEMMA GoneOn ==
  ASSUME TypeOK, NEW r \in Requests, NEW at, Go(r, at), ~At(r, "FREE")
  PROVE  \A q \in Requests : ~At(q, "FREE")' => ~At(q, "FREE") /\ Key(q)' = Key(q)
BY DEF TypeOK, Go, At, Key, CallRecords

LEMMA ServeHeld == ASSUME Held, NEW r \in Requests, Serve(r) PROVE KeysHeld'
<1> TypeOK
  BY DEF Held
<1>1. CASE Upsert(r)
  BY <1>1, GoneOn, KeysKept DEF Upsert, At
<1>2. CASE ReadState(r)
  <2> DEFINE n == document.version
             read == [request[r] EXCEPT !.at = "READ", !.saw = n]
  <2>1. request' = [request EXCEPT ![r] = read]
    BY <1>2 DEF ReadState
  <2>2. read.at = "READ" /\ read.key = request[r].key
    BY DEF TypeOK, CallRecords
  <2> HIDE DEF read, n
  <2>3. \A q \in Requests : ~At(q, "FREE")' => ~At(q, "FREE") /\ Key(q)' = Key(q)
    BY <1>2, <2>1, <2>2 DEF ReadState, TypeOK, At, Key
  <2> QED BY <1>2, <2>3, KeysKept DEF ReadState
<1>3. CASE PatchState(r)
  BY <1>3, GoneOn, KeysKept DEF PatchState, At
<1>4. CASE Refuse(r)
  BY <1>4, GoneOn, KeysKept DEF Refuse, At
<1>5. CASE Audit(r)
  BY <1>5, GoneOn, KeysKept DEF Audit, At
<1>6. CASE ClaimOwn(r)
  BY <1>6, KeysKept DEF ClaimOwn, writeVars, At, Key
<1>7. CASE QueueWorkedOff(r)
  BY <1>7, GoneOn, KeysKept DEF QueueWorkedOff, At
<1>8. CASE End(r)
  <2>1. PICK status \in {"completed", "failed"} : Merge(Key(r), status)
    BY <1>8 DEF End, Complete, Fail
  <2>2. /\ ~At(r, "FREE") /\ overrun' = overrun
        /\ \A k \in Keys \ {Key(r)} : key'[k] = key[k]
    BY <1>8, <2>1 DEF End, At, Merge, TypeOK
  <2>3. \A q \in Requests : ~At(q, "FREE")' => ~At(q, "FREE") /\ q # r /\ Key(q)' = Key(q)
    BY <1>8 DEF End, At, Key, TypeOK, Free
  <2>4. \A q \in Requests : ~At(q, "FREE") /\ q # r /\ InTime(Key(q)) => Key(q) # Key(r)
    BY <2>2 DEF Held, KeysHeld, HoldsKey
  <2>5. \A q \in Requests : Key(q) \in Keys
    BY DEF TypeOK, Key, CallRecords
  <2> QED BY <2>2, <2>3, <2>4, <2>5 DEF Held, KeysHeld, HoldsKey, InTime
<1> QED BY <1>1, <1>2, <1>3, <1>4, <1>5, <1>6, <1>7, <1>8 DEF Serve

LEMMA StepHeld == Held /\ [Next]_vars => KeysHeld'
<1> SUFFICES ASSUME Held, [Next]_vars PROVE KeysHeld'
  OBVIOUS
<1> TypeOK
  BY DEF Held
<1>0. \A q \in Requests : Key(q) \in Keys
  BY DEF TypeOK, Key, CallRecords
<1>1. ASSUME NEW r \in Requests, NEW k \in Keys, Arrive(r, k) PROVE KeysHeld'
  <2> DEFINE began == [status |-> "pending", left |-> TTL]
  <2>1. /\ overrun' = overrun /\ key'[k] = began
        /\ \A j \in Keys \ {k} : key'[j] = key[j]
    BY <1>1 DEF Arrive, Begin, TypeOK
  <2>2. began.status = "pending" /\ began.left > 0
    OBVIOUS
  <2>3. \A q \in Requests : ~At(q, "FREE") /\ InTime(k) => Key(q) # k
    <3> SUFFICES ASSUME NEW q \in Requests, ~At(q, "FREE"), InTime(k), Key(q) = k PROVE FALSE
      OBVIOUS
    <3>1. key[k].status = "pending" /\ key[k].left > 0
      BY DEF Held, KeysHeld, HoldsKey
    <3> QED BY <1>1, <3>1 DEF Arrive, Begin, Startable
  <2>4. /\ At(r, "FREE") /\ Key(r)' = k
        /\ \A q \in Requests : ~At(q, "FREE")' => q = r \/ (~At(q, "FREE") /\ Key(q)' = Key(q))
    BY <1>1 DEF Arrive, At, Key, TypeOK
  <2> HIDE DEF began
  <2>5. ASSUME NEW q \in Requests, HoldsKey(q)'
        PROVE  key'[Key(q)'].status = "pending" /\ key'[Key(q)'].left > 0
    <3>1. CASE q = r
      BY <2>1, <2>2, <2>4, <3>1
    <3>2. CASE q # r
      <4>1. HoldsKey(q) /\ Key(q)' = Key(q)
        BY <2>1, <2>4, <2>5, <3>2 DEF HoldsKey, InTime
      <4>2. Key(q) # k
        BY <2>3, <4>1 DEF HoldsKey
      <4> QED BY <1>0, <2>1, <4>1, <4>2 DEF Held, KeysHeld
    <3> QED BY <3>1, <3>2
  <2>6. ASSUME NEW q \in Requests, NEW p \in Requests, HoldsKey(q)', ~At(p, "FREE")', Key(p)' = Key(q)'
        PROVE  p = q
    <3>1. CASE q = r \/ p = r
      BY <2>1, <2>3, <2>4, <2>6, <3>1 DEF HoldsKey, InTime
    <3>2. CASE q # r /\ p # r
      BY <2>1, <2>4, <2>6, <3>2 DEF Held, KeysHeld, HoldsKey, InTime
    <3> QED BY <3>1, <3>2
  <2> QED BY <2>5, <2>6 DEF KeysHeld
<1>2. ASSUME NEW c \in Crons, ClaimDue(c) PROVE KeysHeld'
  BY <1>2, KeysKept DEF ClaimDue, writeVars, At, Key
<1>3. ASSUME NEW w \in Runners, Work(w) PROVE KeysHeld'
  BY <1>3, KeysKept DEF Work, writeVars, At, Key
<1>4. ASSUME NEW w \in Runners, Die(w) PROVE KeysHeld'
  <2>1. \A q \in Requests : ~At(q, "FREE")' => ~At(q, "FREE") /\ Key(q)' = Key(q)
    BY <1>4 DEF Die, At, Key, TypeOK, Free
  <2> QED BY <1>4, <2>1, KeysKept DEF Die
<1>5. ASSUME NEW k \in Keys, CleanUp(k), UNCHANGED <<queueVars, writeVars>> PROVE KeysHeld'
  <2>1. UNCHANGED <<request, overrun>> /\ key[k].left = 0 /\ \A j \in Keys \ {k} : key'[j] = key[j]
    BY <1>5 DEF CleanUp, writeVars, TypeOK
  <2>2. \A q \in Requests : HoldsKey(q) => Key(q) # k
    BY <2>1 DEF Held, KeysHeld
  <2>3. \A q \in Requests : /\ Key(q)' = Key(q) /\ (At(q, "FREE")' <=> At(q, "FREE"))
                           /\ (HoldsKey(q)' <=> HoldsKey(q))
    BY <2>1 DEF HoldsKey, At, Key, InTime
  <2> QED BY <1>0, <2>1, <2>2, <2>3 DEF Held, KeysHeld
<1>6. ASSUME Tick PROVE KeysHeld'
  <2> DEFINE left(k) == IF key[k].left > 0 THEN key[k].left - 1 ELSE 0
  <2>1. key' = [k \in Keys |-> [key[k] EXCEPT !.left = left(k)]] /\ request' = request
    BY <1>6, Zenon DEF Tick, KeyTick, writeVars
  <2>2. \A k \in Keys : key'[k].status = key[k].status /\ key'[k].left = left(k)
    BY <2>1 DEF TypeOK, KeyRecords
  <2>3. \A q \in Requests : HoldsKey(q)' => HoldsKey(q) /\ key[Key(q)].left # 1
    BY <1>6, <2>1 DEF Tick, KeyTick, HoldsKey, InTime, At, Key
  <2>4. \A q \in Requests : Key(q)' = Key(q) /\ (At(q, "FREE")' <=> At(q, "FREE"))
    BY <2>1 DEF At, Key
  <2>5. ASSUME NEW q \in Requests, HoldsKey(q)'
        PROVE  key'[Key(q)'].status = "pending" /\ key'[Key(q)'].left > 0
    <3>1. key[Key(q)].status = "pending" /\ key[Key(q)].left > 0 /\ key[Key(q)].left # 1
      BY <2>3, <2>5 DEF Held, KeysHeld
    <3>2. key[Key(q)].left \in Nat
      BY <1>0 DEF TypeOK, KeyRecords
    <3> QED BY <1>0, <2>2, <2>4, <3>1, <3>2
  <2> QED BY <2>3, <2>4, <2>5 DEF Held, KeysHeld
<1>7. ASSUME UNCHANGED vars PROVE KeysHeld'
  BY <1>7, KeysKept DEF vars, writeVars, At, Key
<1> QED BY <1>1, <1>2, <1>3, <1>4, <1>5, <1>6, <1>7, ServeHeld DEF Next

\* Two calls with one key run at a time only after one of them has outlived its key.
THEOREM AlwaysAloneUnlessLate == Spec => []RunsAloneUnlessLate
<1>1. Shapes => TypeOK
  BY DEF Shapes
<1>2. Init => KeysHeld
  BY DEF Init, KeysHeld, HoldsKey, At, Free
<1>3. TypeOK /\ KeysHeld /\ [Next]_vars => KeysHeld'
  BY StepHeld DEF Held
<1>4. KeysHeld => RunsAloneUnlessLate
  <2> SUFFICES ASSUME KeysHeld, NEW k \in Keys \ overrun PROVE Cardinality(Running(k)) <= 1
    BY DEF RunsAloneUnlessLate
  <2>1. CASE Running(k) = {}
    BY <2>1, FS_EmptySet
  <2>2. CASE Running(k) # {}
    <3>1. PICK r \in Requests : ~At(r, "FREE") /\ Key(r) = k
      BY <2>2 DEF Running
    <3>2. Running(k) = {r}
      BY <3>1 DEF KeysHeld, HoldsKey, InTime, Running
    <3>3. Cardinality(Running(k)) = 1
      BY <3>2, FS_Singleton
    <3> QED BY <3>3
  <2> QED BY <2>1, <2>2
<1> QED BY <1>1, <1>2, <1>3, <1>4, InitShaped, StepShaped, PTL DEF Spec

-----------------------------------------------------------------------------
(* Views. Whoever rebuilds a view alone has read what is at least as new as    *)
(* what the view shows, and as the change its job is about.                    *)
Lone(v) == v \notin overtaken

JobsHeld ==
  /\ \A j \in JobIds : jobs[j].status # "NONE" => j[1] <= document.version
  /\ \A w \in Runners : ~RunnerAt(w, "NO") =>
       runner[w].job \in JobIds /\ jobs[runner[w].job].status = "PROCESSING"
  /\ \A w, o \in Runners : ~RunnerAt(w, "NO") /\ ~RunnerAt(o, "NO") /\ runner[w].job = runner[o].job
       => w = o

ReadsFresh ==
  /\ \A v \in Views : views[v] <= document.version
  /\ \A w \in Runners : RunnerAt(w, "READ") =>
       /\ runner[w].job[1] <= runner[w].saw /\ runner[w].saw <= document.version
       /\ Lone(View(w)) => views[View(w)] <= runner[w].saw
  /\ \A w, o \in Runners : RunnerAt(w, "READ") /\ RunnerAt(o, "READ") /\ View(w) = View(o)
       /\ Lone(View(w)) => w = o

JobsFresh ==
  /\ \A w \in Runners : RunnerAt(w, "WRITTEN") /\ Lone(View(w)) =>
       runner[w].job[1] <= views[View(w)]
  /\ \A j \in JobIds : jobs[j].status = "DONE" /\ Lone(j[2]) => j[1] <= views[j[2]]

Fresh == JobsHeld /\ ReadsFresh /\ JobsFresh

\* Nothing about the queue changes.
LEMMA QueueKept ==
  ASSUME Fresh, UNCHANGED queueVars, document' = document
  PROVE  Fresh'
BY DEF Fresh, JobsHeld, ReadsFresh, JobsFresh, Lone, View, RunnerAt, queueVars

\* A write asks for rebuilds of its version, or of none.
LEMMA WriteFresh ==
  ASSUME TypeOK, Fresh, UNCHANGED <<runner, views, overtaken>>,
         document'.version = document.version + 1,
         jobs' = jobs \/ jobs' = Enqueued(document.version + 1)
  PROVE  Fresh'
<1>1. document.version \in Nat /\ \A v \in Views : views[v] \in Nat
  BY DEF TypeOK
<1>2. \A w \in Runners : runner[w].saw \in Nat
  BY DEF TypeOK, RunnerRecords
<1>3. \A j \in JobIds : j[1] \in Nat
  BY DEF JobIds
<1>4. ASSUME NEW j \in JobIds
      PROVE  \/ jobs'[j] = jobs[j]
             \/ j[1] = document.version + 1 /\ jobs'[j].status = "READY" /\ jobs[j].status = "NONE"
  <2>1. CASE jobs' = jobs
    BY <2>1
  <2>2. CASE jobs' = Enqueued(document.version + 1) /\ j[1] # document.version + 1
    BY <2>2 DEF Enqueued
  <2>3. CASE jobs' = Enqueued(document.version + 1) /\ j[1] = document.version + 1
    <3>1. jobs'[j].status = "READY"
      BY <2>3 DEF Enqueued, NoJob
    <3>2. jobs[j].status = "NONE"
      BY <1>1, <2>3 DEF Fresh, JobsHeld
    <3> QED BY <2>3, <3>1, <3>2
  <2> QED BY <2>1, <2>2, <2>3
<1>5. JobsHeld'
  <2>1. \A j \in JobIds : jobs'[j].status # "NONE" => j[1] <= document.version + 1
    BY <1>1, <1>3, <1>4 DEF Fresh, JobsHeld
  <2>2. \A w \in Runners : ~RunnerAt(w, "NO") => jobs'[runner[w].job].status = "PROCESSING"
    BY <1>4 DEF Fresh, JobsHeld
  <2> QED BY <2>1, <2>2 DEF Fresh, JobsHeld, RunnerAt
<1>6. ReadsFresh'
  <2>1. \A v \in Views : views[v] <= document.version + 1
    BY <1>1 DEF Fresh, ReadsFresh
  <2>2. \A w \in Runners : RunnerAt(w, "READ") => runner[w].saw <= document.version + 1
    BY <1>1, <1>2 DEF Fresh, ReadsFresh
  <2> QED BY <2>1, <2>2 DEF Fresh, ReadsFresh, RunnerAt, View, Lone
<1>7. JobsFresh'
  BY <1>4 DEF Fresh, JobsFresh, RunnerAt, View, Lone
<1> QED BY <1>5, <1>6, <1>7 DEF Fresh

LEMMA ClaimFresh ==
  ASSUME TypeOK, Fresh, NEW w \in Runners, NEW j \in JobIds, ClaimJob(w, j), document' = document
  PROVE  Fresh'
<1> DEFINE claimed == [jobs[j] EXCEPT !.status = "PROCESSING", !.attempts = @ + 1]
           taken == [at |-> "CLAIMED", job |-> j, saw |-> 0]
<1>1. jobs' = [jobs EXCEPT ![j] = claimed] /\ runner' = [runner EXCEPT ![w] = taken]
      /\ UNCHANGED <<views, overtaken>>
  BY DEF ClaimJob
<1>2. claimed.status = "PROCESSING"
  BY DEF TypeOK, JobRecords
<1>3. taken.at = "CLAIMED" /\ taken.job = j
  OBVIOUS
<1>4. jobs[j].status \in {"READY", "FAILED"} /\ RunnerAt(w, "NO")
  BY DEF ClaimJob, Due
<1> HIDE DEF claimed, taken
<1>5. \A i \in JobIds : IF i = j THEN jobs'[i].status = "PROCESSING" ELSE jobs'[i] = jobs[i]
  BY <1>1, <1>2 DEF TypeOK
<1>6. \A o \in Runners : IF o = w THEN runner'[o].at = "CLAIMED" /\ runner'[o].job = j
                         ELSE runner'[o] = runner[o]
  BY <1>1, <1>3 DEF TypeOK
<1>7. \A o \in Runners : ~RunnerAt(o, "NO") => runner[o].job # j
  BY <1>4 DEF Fresh, JobsHeld
<1>8. JobsHeld'
  BY <1>4, <1>5, <1>6, <1>7 DEF Fresh, JobsHeld, RunnerAt
<1>9. ReadsFresh'
  BY <1>1, <1>6 DEF Fresh, ReadsFresh, RunnerAt, View, Lone
<1>10. JobsFresh'
  BY <1>1, <1>5, <1>6 DEF Fresh, JobsFresh, RunnerAt, View, Lone
<1> QED BY <1>8, <1>9, <1>10 DEF Fresh

LEMMA ReadFresh ==
  ASSUME TypeOK, Fresh, NEW w \in Runners, ReadView(w, document.version), document' = document
  PROVE  Fresh'
<1> DEFINE n == document.version
           read == [runner[w] EXCEPT !.at = "READ", !.saw = n]
<1>1. runner' = [runner EXCEPT ![w] = read] /\ UNCHANGED <<jobs, views>> /\ RunnerAt(w, "CLAIMED")
  BY DEF ReadView
<1>2. read.at = "READ" /\ read.saw = n /\ read.job = runner[w].job
  BY DEF TypeOK, RunnerRecords
<1> HIDE DEF read, n
<1>3. \A o \in Runners : IF o = w THEN /\ runner'[o].at = "READ" /\ runner'[o].saw = n
                                     /\ runner'[o].job = runner[o].job
                         ELSE runner'[o] = runner[o]
  BY <1>1, <1>2 DEF TypeOK
<1>4. \A o \in Runners : View(o)' = View(o)
  BY <1>3 DEF View
<1>5. \A v \in Views : Lone(v)' => Lone(v) /\ \A o \in Runners : RunnerAt(o, "READ") => ~(View(o) = v /\ View(w) = v)
  BY DEF ReadView, Lone
<1>6. View(w) \in Views /\ \A o \in Runners : View(o) \in Views
  BY DEF TypeOK, RunnerRecords, JobNames, View
<1>7. runner[w].job \in JobIds /\ jobs[runner[w].job].status = "PROCESSING"
  BY <1>1 DEF Fresh, JobsHeld, RunnerAt
<1>8. runner[w].job[1] <= n
  BY <1>7 DEF Fresh, JobsHeld, n
<1>9. n \in Nat /\ \A v \in Views : views[v] <= n
  BY DEF TypeOK, Fresh, ReadsFresh, n
<1>10. JobsHeld'
  BY <1>1, <1>3 DEF Fresh, JobsHeld, RunnerAt
<1>11. ReadsFresh'
  <2>1. ASSUME NEW o \in Runners, RunnerAt(o, "READ")'
        PROVE  /\ runner'[o].job[1] <= runner'[o].saw /\ runner'[o].saw <= document.version
               /\ Lone(View(o))' => views[View(o)] <= runner'[o].saw
    <3>1. CASE o = w
      BY <1>3, <1>6, <1>8, <1>9, <3>1 DEF n
    <3>2. CASE o # w
      <4>1. runner'[o] = runner[o] /\ RunnerAt(o, "READ") /\ (Lone(View(o))' => Lone(View(o)))
        BY <1>3, <1>4, <1>5, <1>6, <2>1, <3>2 DEF RunnerAt
      <4> QED BY <4>1 DEF Fresh, ReadsFresh
    <3> QED BY <3>1, <3>2
  <2>2. ASSUME NEW o \in Runners, NEW p \in Runners, RunnerAt(o, "READ")', RunnerAt(p, "READ")',
               View(o) = View(p), Lone(View(o))'
        PROVE  o = p
    <3>1. CASE o = w \/ p = w
      BY <1>3, <1>4, <1>5, <1>6, <2>2, <3>1 DEF RunnerAt
    <3>2. CASE o # w /\ p # w
      <4>1. RunnerAt(o, "READ") /\ RunnerAt(p, "READ") /\ Lone(View(o))
        BY <1>3, <1>4, <1>5, <1>6, <2>2, <3>2 DEF RunnerAt
      <4> QED BY <2>2, <4>1 DEF Fresh, ReadsFresh
    <3> QED BY <3>1, <3>2
  <2> QED BY <1>1, <1>4, <1>9, <2>1, <2>2 DEF ReadsFresh, n
<1>12. JobsFresh'
  <2>1. \A o \in Runners : RunnerAt(o, "WRITTEN")' => RunnerAt(o, "WRITTEN") /\ runner'[o] = runner[o]
    BY <1>3 DEF RunnerAt
  <2>2. \A j \in JobIds : j[2] \in Views
    BY DEF JobIds
  <2> QED BY <1>1, <1>4, <1>5, <1>6, <2>1, <2>2 DEF Fresh, JobsFresh
<1> QED BY <1>10, <1>11, <1>12 DEF Fresh

LEMMA WrittenFresh ==
  ASSUME TypeOK, Fresh, NEW w \in Runners, WriteView(w), document' = document
  PROVE  Fresh'
<1> DEFINE moved == [runner[w] EXCEPT !.at = "WRITTEN"]
<1>1. /\ RunnerAt(w, "READ") /\ UNCHANGED <<jobs, overtaken>>
      /\ views' = [views EXCEPT ![View(w)] = runner[w].saw] /\ runner' = [runner EXCEPT ![w] = moved]
  BY DEF WriteView
<1>2. moved.at = "WRITTEN" /\ moved.saw = runner[w].saw /\ moved.job = runner[w].job
  BY DEF TypeOK, RunnerRecords
<1> HIDE DEF moved
<1>3. \A o \in Runners : /\ runner'[o].job = runner[o].job /\ runner'[o].saw = runner[o].saw
                        /\ runner'[o].at = IF o = w THEN "WRITTEN" ELSE runner[o].at
  BY <1>1, <1>2 DEF TypeOK
<1>4. \A o \in Runners : View(o)' = View(o) /\ View(o) \in Views
  BY <1>3 DEF View, TypeOK, RunnerRecords, JobNames
<1>5. \A v \in Views : views'[v] = IF v = View(w) THEN runner[w].saw ELSE views[v]
  BY <1>1 DEF TypeOK
<1>6. /\ runner[w].job[1] <= runner[w].saw /\ runner[w].saw <= document.version
      /\ Lone(View(w)) => views[View(w)] <= runner[w].saw
  BY <1>1 DEF Fresh, ReadsFresh
<1>7. /\ document.version \in Nat /\ runner[w].saw \in Nat /\ \A v \in Views : views[v] \in Nat
      /\ \A j \in JobIds : j[1] \in Nat /\ j[2] \in Views
  BY DEF TypeOK, RunnerRecords, JobIds
<1>8. JobsHeld'
  BY <1>1, <1>3 DEF Fresh, JobsHeld, RunnerAt
<1>9. ReadsFresh'
  <2>1. \A v \in Views : views'[v] <= document.version
    BY <1>5, <1>6 DEF Fresh, ReadsFresh
  <2>2. ASSUME NEW o \in Runners, RunnerAt(o, "READ")'
        PROVE  /\ runner[o].job[1] <= runner[o].saw /\ runner[o].saw <= document.version
               /\ Lone(View(o)) => views'[View(o)] <= runner[o].saw
    <3>1. o # w /\ RunnerAt(o, "READ")
      BY <1>3, <2>2 DEF RunnerAt
    <3>2. Lone(View(o)) => View(o) # View(w)
      BY <1>1, <3>1 DEF Fresh, ReadsFresh
    <3> QED BY <1>4, <1>5, <3>1, <3>2 DEF Fresh, ReadsFresh
  <2>3. \A o \in Runners : RunnerAt(o, "READ")' => RunnerAt(o, "READ")
    BY <1>3 DEF RunnerAt
  <2> QED BY <1>1, <1>3, <1>4, <2>1, <2>2, <2>3 DEF Fresh, ReadsFresh, Lone
<1>10. JobsFresh'
  <2>1. \A v \in Views : Lone(v) => views[v] <= views'[v] /\ views'[v] \in Nat
    BY <1>5, <1>6, <1>7
  <2>2. ASSUME NEW o \in Runners, RunnerAt(o, "WRITTEN")', Lone(View(o))
        PROVE  runner[o].job[1] <= views'[View(o)]
    <3>1. CASE o = w
      BY <1>4, <1>5, <1>6, <3>1
    <3>2. CASE o # w
      <4>1. runner[o].job \in JobIds /\ runner[o].job[1] <= views[View(o)]
        BY <1>3, <2>2, <3>2 DEF Fresh, JobsFresh, JobsHeld, RunnerAt
      <4> QED BY <1>4, <1>7, <2>1, <2>2, <4>1
    <3> QED BY <3>1, <3>2
  <2>3. ASSUME NEW j \in JobIds, jobs[j].status = "DONE", Lone(j[2])
        PROVE  j[1] <= views'[j[2]]
    BY <1>7, <2>1, <2>3 DEF Fresh, JobsFresh
  <2> QED BY <1>1, <1>3, <1>4, <2>2, <2>3 DEF JobsFresh, Lone
<1> QED BY <1>8, <1>9, <1>10 DEF Fresh

\* A runner lets go of its job, whose status becomes FAILED or DEAD, DONE if the view
\* was written, or stays.
LEMMA LetGoFresh ==
  ASSUME TypeOK, Fresh, NEW w \in Runners, UNCHANGED <<views, overtaken, document>>,
         runner' = [runner EXCEPT ![w] = Resting],
         \/ jobs' = jobs
         \/ /\ ~RunnerAt(w, "NO")
            /\ \A j \in JobIds \ {runner[w].job} : jobs'[j] = jobs[j]
            /\ \/ jobs'[runner[w].job].status \in {"FAILED", "DEAD"}
               \/ jobs'[runner[w].job].status = "DONE" /\ RunnerAt(w, "WRITTEN")
  PROVE  Fresh'
<1>1. \A o \in Runners : ~RunnerAt(o, "NO")' => o # w /\ runner'[o] = runner[o] /\ ~RunnerAt(o, "NO")
  BY DEF TypeOK, RunnerAt, Resting
<1>2. ~RunnerAt(w, "NO") => \A o \in Runners : o # w /\ ~RunnerAt(o, "NO") => runner[o].job # runner[w].job
  BY DEF Fresh, JobsHeld
<1>3. \A o \in Runners : RunnerAt(o, "READ")' \/ RunnerAt(o, "WRITTEN")' => ~RunnerAt(o, "NO")'
  BY DEF RunnerAt
<1>4. \A o \in Runners : ~RunnerAt(o, "NO") => runner[o].job \in JobIds /\ jobs[runner[o].job].status = "PROCESSING"
  BY DEF Fresh, JobsHeld
<1>5. JobsHeld'
  <2>1. \A j \in JobIds : jobs'[j].status # "NONE" => j[1] <= document.version
    BY <1>4 DEF Fresh, JobsHeld
  <2>2. \A o \in Runners : ~RunnerAt(o, "NO")' => jobs'[runner[o].job].status = "PROCESSING"
    BY <1>1, <1>2, <1>4
  <2> QED BY <1>1, <1>4, <2>1, <2>2 DEF Fresh, JobsHeld
<1>6. ReadsFresh'
  <2>1. \A o \in Runners : RunnerAt(o, "READ")' =>
          runner'[o] = runner[o] /\ RunnerAt(o, "READ") /\ View(o)' = View(o)
    BY <1>1, <1>3 DEF RunnerAt, View
  <2> QED BY <2>1 DEF Fresh, ReadsFresh, Lone
<1>7. JobsFresh'
  <2>1. \A o \in Runners : RunnerAt(o, "WRITTEN")' =>
          runner'[o] = runner[o] /\ RunnerAt(o, "WRITTEN") /\ View(o)' = View(o)
    BY <1>1, <1>3 DEF RunnerAt, View
  <2>2. ASSUME NEW j \in JobIds, jobs'[j].status = "DONE", Lone(j[2])
        PROVE  j[1] <= views[j[2]]
    <3>1. CASE jobs'[j] = jobs[j]
      BY <2>2, <3>1 DEF Fresh, JobsFresh
    <3>2. CASE j = runner[w].job /\ RunnerAt(w, "WRITTEN")
      BY <2>2, <3>2 DEF Fresh, JobsFresh, View
    <3> QED BY <2>2, <3>1, <3>2
  <2> QED BY <2>1, <2>2 DEF Fresh, JobsFresh, Lone
<1> QED BY <1>5, <1>6, <1>7 DEF Fresh

LEMMA WorkFresh == ASSUME TypeOK, Fresh, NEW w \in Runners, Work(w) PROVE Fresh'
<1>0. document' = document
  BY DEF Work, writeVars
<1>1. CASE ReadView(w, document.version)
  BY <1>0, <1>1, ReadFresh
<1>2. CASE WriteView(w)
  BY <1>0, <1>2, WrittenFresh
<1> DEFINE j == runner[w].job
<1>3. CASE JobDone(w)
  <2>1. ~RunnerAt(w, "NO") /\ RunnerAt(w, "WRITTEN")
    BY <1>3 DEF JobDone, RunnerAt
  <2>2. j \in JobIds
    BY <2>1 DEF Fresh, JobsHeld
  <2> DEFINE done == [jobs[j] EXCEPT !.status = "DONE"]
  <2>3. done.status = "DONE" /\ jobs' = [jobs EXCEPT ![j] = done]
    BY <1>3, <2>2 DEF JobDone, TypeOK, JobRecords
  <2> HIDE DEF done
  <2>4. jobs'[j].status = "DONE" /\ \A i \in JobIds \ {j} : jobs'[i] = jobs[i]
    BY <2>2, <2>3 DEF TypeOK
  <2> QED BY <1>0, <1>3, <2>1, <2>4, LetGoFresh DEF JobDone
<1>4. CASE JobFails(w)
  <2>1. ~RunnerAt(w, "NO")
    BY <1>4 DEF JobFails
  <2>2. j \in JobIds
    BY <2>1 DEF Fresh, JobsHeld
  <2>3. \A job \in JobRecords : Failed(job).status \in {"FAILED", "DEAD"}
    <3> SUFFICES ASSUME NEW job \in JobRecords PROVE Failed(job).status \in {"FAILED", "DEAD"}
      OBVIOUS
    <3> DEFINE status == IF job.attempts >= MaxAttempts THEN "DEAD" ELSE "FAILED"
    <3>1. status \in {"FAILED", "DEAD"}
      OBVIOUS
    <3>2. Failed(job) = [job EXCEPT !.status = status, !.wait = 1]
      BY Zenon DEF Failed
    <3> HIDE DEF status
    <3> QED BY <3>1, <3>2 DEF JobRecords
  <2>4. jobs' = [jobs EXCEPT ![j] = Failed(jobs[j])]
    BY <1>4 DEF JobFails
  <2>5. jobs'[j].status \in {"FAILED", "DEAD"} /\ \A i \in JobIds \ {j} : jobs'[i] = jobs[i]
    BY <2>2, <2>3, <2>4 DEF TypeOK
  <2> QED BY <1>0, <1>4, <2>1, <2>5, LetGoFresh DEF JobFails
<1> QED BY <1>1, <1>2, <1>3, <1>4 DEF Work, RunJob

LEMMA ServeFresh == ASSUME TypeOK, Fresh, NEW r \in Requests, Serve(r) PROVE Fresh'
<1>1. CASE Upsert(r)
  BY <1>1, WriteFresh DEF Upsert, Written
<1>2. CASE ReadState(r)
  BY <1>2, QueueKept DEF ReadState
<1>3. CASE PatchState(r)
  BY <1>3, WriteFresh DEF PatchState, Unchanged, Written, queueVars
<1>4. CASE Refuse(r)
  BY <1>4, QueueKept DEF Refuse
<1>5. CASE Audit(r)
  BY <1>5, QueueKept DEF Audit
<1>6. CASE ClaimOwn(r)
  <2>1. PICK j \in JobIds : ClaimJob(r, j)
    BY <1>6 DEF ClaimOwn, OwnJobs
  <2> QED BY <1>6, <2>1, ClaimFresh DEF ClaimOwn, writeVars
<1>7. CASE QueueWorkedOff(r)
  BY <1>7, QueueKept DEF QueueWorkedOff
<1>8. CASE End(r)
  BY <1>8, QueueKept DEF End
<1> QED BY <1>1, <1>2, <1>3, <1>4, <1>5, <1>6, <1>7, <1>8 DEF Serve

LEMMA StepFresh == TypeOK /\ Fresh /\ [Next]_vars => Fresh'
<1> SUFFICES ASSUME TypeOK, Fresh, [Next]_vars PROVE Fresh'
  OBVIOUS
<1>1. ASSUME NEW r \in Requests, NEW k \in Keys, Arrive(r, k) PROVE Fresh'
  BY <1>1, QueueKept DEF Arrive
<1>2. ASSUME NEW c \in Crons, ClaimDue(c) PROVE Fresh'
  <2>1. PICK j \in JobIds : ClaimJob(c, j)
    BY <1>2 DEF ClaimDue
  <2> QED BY <1>2, <2>1, ClaimFresh DEF ClaimDue, writeVars
<1>3. ASSUME NEW w \in Runners, Die(w) PROVE Fresh'
  BY <1>3, LetGoFresh DEF Die, Abandon
<1>4. ASSUME NEW k \in Keys, CleanUp(k), UNCHANGED <<queueVars, writeVars>> PROVE Fresh'
  BY <1>4, QueueKept DEF writeVars
<1>5. ASSUME Tick PROVE Fresh'
  <2>1. \A j \in JobIds : jobs'[j].status = jobs[j].status
    BY <1>5 DEF Tick, QueueTick, TypeOK, JobRecords
  <2> QED BY <1>5, <2>1 DEF Tick, QueueTick, writeVars, Fresh, JobsHeld, ReadsFresh, JobsFresh, Lone,
            View, RunnerAt
<1>6. ASSUME UNCHANGED vars PROVE Fresh'
  BY <1>6, QueueKept DEF vars, writeVars
<1> QED BY <1>1, <1>2, <1>3, <1>4, <1>5, <1>6, ServeFresh, WorkFresh DEF Next

\* A view whose jobs are all done shows the last change that asked for it, for any
\* number of views, changes and runners, unless two rebuilds of it met.
THEOREM AlwaysFreshUnlessOvertaken == Spec => []FreshUnlessOvertaken
<1>1. Shapes => TypeOK
  BY DEF Shapes
<1>2. Init => Fresh
  <2> SUFFICES ASSUME Init PROVE Fresh
    OBVIOUS
  <2>1. \A j \in JobIds : jobs[j].status = "NONE"
    BY DEF Init, QueueInit, NoJob
  <2>2. \A w \in Runners : runner[w].at = "NO"
    BY DEF Init, QueueInit, Resting
  <2>3. \A v \in Views : views[v] = 0
    BY DEF Init, QueueInit
  <2>4. document.version = 0
    BY DEF Init
  <2> QED BY <2>1, <2>2, <2>3, <2>4 DEF Fresh, JobsHeld, ReadsFresh, JobsFresh, RunnerAt
<1>3. TypeOK /\ Fresh => FreshUnlessOvertaken
  <2> SUFFICES ASSUME TypeOK, Fresh, NEW v \in Views \ overtaken, NEW i \in Asked,
                      jobs[<<i, v>>].status = "DONE"
               PROVE  views[v] >= i
    BY DEF FreshUnlessOvertaken
  <2>1. i \in 1..MaxVersion
    BY DEF Asked, TypeOK
  <2>2. <<i, v>> \in JobIds /\ <<i, v>>[1] = i /\ <<i, v>>[2] = v
    BY <2>1 DEF JobIds
  <2>3. i <= views[v]
    BY <2>2 DEF Fresh, JobsFresh, Lone
  <2> QED BY <2>1, <2>3 DEF TypeOK
<1> QED BY <1>1, <1>2, <1>3, InitShaped, StepShaped, StepFresh, PTL DEF Spec
=============================================================================
