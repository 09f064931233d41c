--------------------------- MODULE MutationProofs ---------------------------
(***************************************************************************)
(* What holds of the outbox and of those that feed it for any number of    *)
(* workers, events, faults and attempts, and any length of a lease.        *)
(***************************************************************************)
EXTENDS MutationProperties, SequenceTheorems, FiniteSetTheorems, TLAPS

EventType ==
  [type : EventTypes, payload : States \cup {"NONE"}, status : Statuses, attempts : Nat,
   token : Nat, left : 0..Lease, wait : {0, 1}, delivered : BOOLEAN, handled : BOOLEAN]

WorkerType ==
  [at : {"IDLE", "INLINE", "HANDLING", "DELIVERING", "SUCCEEDED", "FAILED"},
   event : 0..MaxEvents, token : Nat, beating : BOOLEAN, lapsed : BOOLEAN]

\* Shapes, and a worker that is not idle has an event; only a busy one renews a lease.
Typed ==
  /\ outbox \in Seq(EventType) /\ Len(outbox) <= MaxEvents
  /\ worker \in [Workers -> WorkerType]
  /\ faults \in 0..MaxFaults
  /\ \A w \in Workers : ~At(w, "IDLE") => worker[w].event \in DOMAIN outbox
  /\ \A w \in Workers : worker[w].beating => Busy(w)

-----------------------------------------------------------------------------
(***************************************************************************)
(* Five ways to move.  A worker takes an event, works on the one it has,   *)
(* or is through with it; time passes; an event is enqueued.               *)
(***************************************************************************)
\* Worker w becomes r and event i becomes e; nothing else changes.
Touches(w, i, e, r) ==
  /\ w \in Workers /\ i \in DOMAIN outbox /\ e \in EventType /\ r \in WorkerType
  /\ outbox' \in Seq(EventType) /\ Len(outbox') = Len(outbox)
  /\ worker' \in [Workers -> WorkerType]
  /\ \A j \in DOMAIN outbox : outbox'[j] = IF j = i THEN e ELSE outbox[j]
  /\ \A v \in Workers : worker'[v] = IF v = w THEN r ELSE worker[v]
  /\ e.type = outbox[i].type /\ e.payload = outbox[i].payload
  /\ outbox[i].delivered => e.delivered
  /\ outbox[i].handled => e.handled

Takes(w) ==
  \E i \in DOMAIN outbox, e \in EventType, r \in WorkerType :
    /\ Touches(w, i, e, r) /\ ~Busy(w) /\ Claimable(outbox[i]) /\ faults' = faults
    /\ e.status = "PROCESSING" /\ e.left = Lease
    /\ e.attempts = outbox[i].attempts + 1 /\ e.token = outbox[i].attempts + 1
    /\ r.at = "HANDLING" /\ r.event = i /\ r.token = outbox[i].attempts + 1 /\ ~r.lapsed

Works(w) ==
  \E e \in EventType, r \in WorkerType :
    /\ Touches(w, worker[w].event, e, r) /\ Busy(w) /\ faults' = faults
    /\ e.status = Event(w).status /\ e.attempts = Event(w).attempts /\ e.token = Event(w).token
    /\ e.left \in {Event(w).left, Lease}
    /\ r.at \notin {"IDLE", "INLINE"} /\ r.event = worker[w].event
    /\ r.token = worker[w].token /\ r.lapsed = worker[w].lapsed

Ends(w) ==
  \E e \in EventType :
    /\ Touches(w, worker[w].event, e, Idle) /\ ~At(w, "IDLE")
    /\ \/ e = Event(w) /\ faults' = faults + 1 /\ faults' <= MaxFaults
       \/ e = Event(w) /\ faults' = faults /\ (Busy(w) => ~Owns(w))
       \/ /\ Busy(w) /\ Owns(w) /\ faults' = faults
          /\ e.attempts = Event(w).attempts /\ e.token = NoToken
          /\ \/ e.status = "DONE" /\ At(w, "SUCCEEDED")
             \/ e.status = "DEAD"
             \/ e.status = "FAILED" /\ worker[w].token < MaxAttempts

Aged(e) == [e EXCEPT !.left = IF @ > 0 THEN @ - 1 ELSE 0, !.wait = 0]

Ages ==
  /\ outbox' \in Seq(EventType) /\ Len(outbox') = Len(outbox)
  /\ \A i \in DOMAIN outbox : outbox'[i] = Aged(outbox[i])
  /\ worker' \in [Workers -> WorkerType]
  /\ \A w \in Workers : worker'[w] = [worker[w] EXCEPT !.lapsed = @ \/ RunsOut(w)]
  /\ faults' \in 0..MaxFaults /\ faults' >= faults
  /\ (\E w \in Workers : RunsOut(w)) => faults' > faults

Grows ==
  /\ outbox' \in Seq(EventType) /\ Len(outbox') = Len(outbox) + 1 /\ Len(outbox') <= MaxEvents
  /\ \A i \in DOMAIN outbox : outbox'[i] = outbox[i]
  /\ \E type \in EventTypes, payload \in States \cup {"NONE"} :
        outbox'[Len(outbox) + 1] = NewEvent(type, payload)
  /\ worker' \in [Workers -> WorkerType]
  /\ \A w \in Workers :
        \/ worker'[w] = worker[w]
        \/ At(w, "IDLE") /\ worker'[w] = [Idle EXCEPT !.at = "INLINE", !.event = Len(outbox) + 1]
  /\ faults' = faults

LEMMA Lengths ==
  ASSUME Typed
  PROVE  /\ DOMAIN outbox = 1..Len(outbox) /\ Len(outbox) \in Nat
         /\ \A i \in DOMAIN outbox : outbox[i] \in EventType
         /\ \A i \in DOMAIN outbox : i \in 1..MaxEvents
BY OutboxAssumption DEF Typed

LEMMA IdleTyped == Idle \in WorkerType
BY OutboxAssumption DEF Idle, WorkerType, NoToken

\* A step that rewrites one event and one worker touches those.
LEMMA TouchesBy ==
  ASSUME Typed, NEW w \in Workers, NEW i \in DOMAIN outbox, NEW e \in EventType, NEW r \in WorkerType,
         outbox' = [outbox EXCEPT ![i] = e], worker' = [worker EXCEPT ![w] = r],
         e.type = outbox[i].type, e.payload = outbox[i].payload,
         outbox[i].delivered => e.delivered, outbox[i].handled => e.handled
  PROVE  Touches(w, i, e, r)
<1>1. outbox \in Seq(EventType) /\ i \in 1..Len(outbox)
  BY Lengths DEF Typed
<1>2. /\ outbox' \in Seq(EventType) /\ Len(outbox') = Len(outbox)
      /\ \A j \in 1..Len(outbox) : outbox'[j] = IF j = i THEN e ELSE outbox[j]
  BY <1>1, ExceptSeq
<1>3. worker' \in [Workers -> WorkerType] /\ \A v \in Workers : worker'[v] = IF v = w THEN r ELSE worker[v]
  BY DEF Typed
<1> QED
  BY <1>2, <1>3, Lengths DEF Touches

LEMMA SameTouches ==
  ASSUME Typed, NEW w \in Workers, NEW i \in DOMAIN outbox, NEW r \in WorkerType,
         outbox' = outbox, worker' = [worker EXCEPT ![w] = r]
  PROVE  Touches(w, i, outbox[i], r)
<1>1. outbox[i] \in EventType
  BY Lengths
<1>2. outbox' = [outbox EXCEPT ![i] = outbox[i]]
  BY DEF Typed
<1> QED
  BY <1>1, <1>2, TouchesBy

LEMMA ClaimTakes ==
  ASSUME Typed, NEW w \in Workers, NEW i \in DOMAIN outbox, NEW inline \in BOOLEAN, Claim(w, i, inline)
  PROVE  Takes(w)
<1> DEFINE e == [outbox[i] EXCEPT !.status = "PROCESSING", !.attempts = outbox[i].attempts + 1,
                                  !.token = outbox[i].attempts + 1, !.left = Lease]
           r == [at |-> "HANDLING", event |-> i, token |-> outbox[i].attempts + 1,
                 beating |-> ~inline, lapsed |-> FALSE]
<1>1. outbox[i] \in EventType /\ i \in 0..MaxEvents
  BY Lengths, OutboxAssumption
<1>2. e \in EventType /\ r \in WorkerType
  <2>1. outbox[i].attempts + 1 \in Nat /\ Lease \in 0..Lease /\ (~inline) \in BOOLEAN
    BY <1>1, OutboxAssumption DEF EventType
  <2>2. e \in EventType
    BY <1>1, <2>1 DEF EventType, Statuses
  <2>3. r \in WorkerType
    BY <1>1, <2>1 DEF WorkerType
  <2> QED
    BY <2>2, <2>3
<1>3. /\ e.status = "PROCESSING" /\ e.left = Lease /\ e.attempts = outbox[i].attempts + 1
      /\ e.token = outbox[i].attempts + 1 /\ e.type = outbox[i].type
      /\ e.payload = outbox[i].payload /\ e.delivered = outbox[i].delivered
      /\ e.handled = outbox[i].handled
  BY <1>1 DEF EventType
<1>4. r.at = "HANDLING" /\ r.event = i /\ r.token = outbox[i].attempts + 1 /\ ~r.lapsed
  OBVIOUS
<1>5. outbox' = [outbox EXCEPT ![i] = e] /\ worker' = [worker EXCEPT ![w] = r]
  BY DEF Claim
<1>6. ~Busy(w) /\ Claimable(outbox[i]) /\ faults' = faults
  BY DEF Claim, Busy, At
<1> HIDE DEF e, r
<1>7. Touches(w, i, e, r)
  BY <1>2, <1>3, <1>5, TouchesBy
<1> QED
  BY <1>2, <1>3, <1>4, <1>6, <1>7 DEF Takes

LEMMA ClaimingTakes ==
  ASSUME Typed, NEW w \in Workers, ClaimInBatch(w) \/ ClaimInline(w)
  PROVE  Takes(w) /\ worker'[w].at = "HANDLING"
<1>1. ASSUME ClaimInBatch(w) PROVE Takes(w)
  BY <1>1, ClaimTakes DEF ClaimInBatch
<1>2. ASSUME ClaimInline(w) PROVE Takes(w)
  <2>1. Claim(w, worker[w].event, TRUE)
    BY <1>2 DEF ClaimInline
  <2>2. At(w, "INLINE")
    BY <2>1 DEF Claim
  <2>3. worker[w].event \in DOMAIN outbox
    BY <2>2 DEF Typed, At
  <2> QED
    BY <2>1, <2>3, ClaimTakes
<1>3. Takes(w)
  BY <1>1, <1>2
<1> QED
  BY <1>3 DEF Takes, Touches

\* A busy worker that does not end stays with its event; the event may come nearer
\* to its end.
LEMMA WorksBy ==
  ASSUME Typed, NEW w \in Workers, Busy(w), NEW e \in EventType, NEW r \in WorkerType,
         outbox' = [outbox EXCEPT ![worker[w].event] = e], worker' = [worker EXCEPT ![w] = r],
         faults' = faults,
         e.type = Event(w).type, e.payload = Event(w).payload,
         Event(w).delivered => e.delivered, Event(w).handled => e.handled,
         e.status = Event(w).status, e.attempts = Event(w).attempts, e.token = Event(w).token,
         e.left \in {Event(w).left, Lease},
         r.at \notin {"IDLE", "INLINE"}, r.event = worker[w].event,
         r.token = worker[w].token, r.lapsed = worker[w].lapsed
  PROVE  Works(w)
<1>1. worker[w].event \in DOMAIN outbox
  BY DEF Typed, Busy, At
<1>2. Touches(w, worker[w].event, e, r)
  BY <1>1, TouchesBy DEF Event
<1> QED
  BY <1>2 DEF Works

LEMMA BeatWorks ==
  ASSUME Typed, NEW w \in Workers, Heartbeat(w)
  PROVE  Works(w)
<1>1. Busy(w) /\ worker[w] \in WorkerType /\ worker[w].event \in DOMAIN outbox
  BY DEF Typed, Heartbeat, Busy, At
<1>2. Event(w) \in EventType
  BY <1>1, Lengths DEF Event
<1>3. CASE outbox' = [outbox EXCEPT ![worker[w].event].left = Lease] /\ UNCHANGED worker
  <2> DEFINE e == [Event(w) EXCEPT !.left = Lease]
  <2>1. e \in EventType /\ e.type = Event(w).type /\ e.payload = Event(w).payload
        /\ e.delivered = Event(w).delivered /\ e.handled = Event(w).handled
        /\ e.status = Event(w).status /\ e.attempts = Event(w).attempts
        /\ e.token = Event(w).token /\ e.left = Lease
    BY <1>2, OutboxAssumption DEF EventType
  <2>2. outbox' = [outbox EXCEPT ![worker[w].event] = e]
    BY <1>3 DEF Event
  <2>3. worker' = [worker EXCEPT ![w] = worker[w]] /\ faults' = faults
    BY <1>3 DEF Typed, Heartbeat
  <2> HIDE DEF e
  <2> QED
    BY <1>1, <2>1, <2>2, <2>3, WorksBy DEF Busy
<1>4. CASE worker' = [worker EXCEPT ![w].beating = FALSE] /\ UNCHANGED outbox
  <2> DEFINE r == [worker[w] EXCEPT !.beating = FALSE]
  <2>1. r \in WorkerType /\ r.at = worker[w].at /\ r.event = worker[w].event
        /\ r.token = worker[w].token /\ r.lapsed = worker[w].lapsed
    BY <1>1 DEF WorkerType
  <2>2. worker' = [worker EXCEPT ![w] = r] /\ faults' = faults
    BY <1>4 DEF Heartbeat
  <2>3. outbox' = [outbox EXCEPT ![worker[w].event] = Event(w)]
    BY <1>1, <1>4 DEF Typed, Event
  <2> HIDE DEF r
  <2> QED
    BY <1>1, <1>2, <2>1, <2>2, <2>3, WorksBy DEF Busy
<1> QED
  BY <1>3, <1>4 DEF Heartbeat

LEMMA ThrowWorks ==
  ASSUME Typed, NEW w \in Workers, Throws(w)
  PROVE  Works(w) /\ worker'[w].at = "FAILED" /\ outbox' = outbox
<1>1. Busy(w) /\ worker[w] \in WorkerType /\ worker[w].event \in DOMAIN outbox
  BY DEF Typed, Throws, Busy, At
<1>2. Event(w) \in EventType
  BY <1>1, Lengths DEF Event
<1> DEFINE r == [worker[w] EXCEPT !.at = "FAILED", !.beating = FALSE]
<1>3. r \in WorkerType /\ r.at = "FAILED" /\ r.event = worker[w].event
      /\ r.token = worker[w].token /\ r.lapsed = worker[w].lapsed
  BY <1>1 DEF WorkerType
<1>4. worker' = [worker EXCEPT ![w] = r] /\ faults' = faults /\ outbox' = outbox
  BY DEF Throws
<1>5. outbox' = [outbox EXCEPT ![worker[w].event] = Event(w)]
  BY <1>1, <1>4 DEF Typed, Event
<1> HIDE DEF r
<1>6. Works(w)
  BY <1>1, <1>2, <1>3, <1>4, <1>5, WorksBy
<1>7. worker'[w] = r
  BY <1>4 DEF Typed
<1> QED
  BY <1>3, <1>4, <1>6, <1>7

LEMMA HandledWorks ==
  ASSUME Typed, NEW w \in Workers, Handled(w)
  PROVE  /\ Works(w) /\ worker'[w].at = "DELIVERING"
         /\ outbox'[worker[w].event].handled
         /\ \A i \in DOMAIN outbox : i # worker[w].event => outbox'[i] = outbox[i]
<1>1. Busy(w) /\ worker[w] \in WorkerType /\ worker[w].event \in DOMAIN outbox
  BY DEF Typed, Handled, Busy, At
<1>2. Event(w) \in EventType
  BY <1>1, Lengths DEF Event
<1> DEFINE e == [Event(w) EXCEPT !.handled = TRUE]
           r == [worker[w] EXCEPT !.at = "DELIVERING"]
<1>3. e \in EventType /\ e.type = Event(w).type /\ e.payload = Event(w).payload
      /\ e.delivered = Event(w).delivered /\ e.handled = TRUE /\ e.left = Event(w).left
      /\ e.status = Event(w).status /\ e.attempts = Event(w).attempts /\ e.token = Event(w).token
  BY <1>2 DEF EventType
<1>4. r \in WorkerType /\ r.at = "DELIVERING" /\ r.event = worker[w].event
      /\ r.token = worker[w].token /\ r.lapsed = worker[w].lapsed
  BY <1>1 DEF WorkerType
<1>5. outbox' = [outbox EXCEPT ![worker[w].event] = e] /\ worker' = [worker EXCEPT ![w] = r]
      /\ faults' = faults
  BY DEF Handled, Go, Event
<1> HIDE DEF e, r
<1>6. Works(w)
  BY <1>1, <1>3, <1>4, <1>5, WorksBy
<1>7. worker'[w] = r /\ outbox'[worker[w].event] = e
      /\ \A i \in DOMAIN outbox : i # worker[w].event => outbox'[i] = outbox[i]
  BY <1>1, <1>5 DEF Typed
<1> QED
  BY <1>3, <1>4, <1>6, <1>7

\* Creating the delivery, whether the notifications are all created or not.
LEMMA DeliveryWorks ==
  ASSUME Typed, NEW w \in Workers, NEW at \in {"SUCCEEDED", "FAILED"}, At(w, "DELIVERING"),
         outbox' = [outbox EXCEPT ![worker[w].event].delivered = TRUE],
         worker' = [worker EXCEPT ![w].at = at, ![w].beating = FALSE], faults' = faults
  PROVE  /\ Works(w) /\ worker'[w].at = at
         /\ outbox'[worker[w].event].delivered
         /\ outbox'[worker[w].event].handled = Event(w).handled
         /\ \A i \in DOMAIN outbox : i # worker[w].event => outbox'[i] = outbox[i]
<1>1. Busy(w) /\ worker[w] \in WorkerType /\ worker[w].event \in DOMAIN outbox
  BY DEF Typed, Busy, At
<1>2. Event(w) \in EventType
  BY <1>1, Lengths DEF Event
<1> DEFINE e == [Event(w) EXCEPT !.delivered = TRUE]
           r == [worker[w] EXCEPT !.at = at, !.beating = FALSE]
<1>3. e \in EventType /\ e.type = Event(w).type /\ e.payload = Event(w).payload
      /\ e.delivered = TRUE /\ e.handled = Event(w).handled /\ e.left = Event(w).left
      /\ e.status = Event(w).status /\ e.attempts = Event(w).attempts /\ e.token = Event(w).token
  BY <1>2 DEF EventType
<1>4. r \in WorkerType /\ r.at = at /\ r.event = worker[w].event
      /\ r.token = worker[w].token /\ r.lapsed = worker[w].lapsed
  BY <1>1 DEF WorkerType
<1>5. outbox' = [outbox EXCEPT ![worker[w].event] = e] /\ worker' = [worker EXCEPT ![w] = r]
  BY DEF Event
<1> HIDE DEF e, r
<1>6. Works(w)
  BY <1>1, <1>3, <1>4, <1>5, WorksBy
<1>7. worker'[w] = r /\ outbox'[worker[w].event] = e
      /\ \A i \in DOMAIN outbox : i # worker[w].event => outbox'[i] = outbox[i]
  BY <1>1, <1>5 DEF Typed
<1> QED
  BY <1>3, <1>4, <1>6, <1>7

\* A worker is through with its event: it came too late, was killed, or marks it.
LEMMA LeaveEnds ==
  ASSUME Typed, NEW w \in Workers, InlineTooLate(w) \/ Crash(w)
  PROVE  Ends(w) /\ outbox' = outbox /\ worker'[w] = Idle
<1>1. worker[w].event \in DOMAIN outbox /\ ~At(w, "IDLE")
  BY DEF Typed, InlineTooLate, Crash, At
<1>2. outbox' = outbox /\ worker' = [worker EXCEPT ![w] = Idle]
  BY DEF InlineTooLate, Crash
<1>3. Touches(w, worker[w].event, Event(w), Idle) /\ Event(w) \in EventType
  BY <1>1, <1>2, SameTouches, IdleTyped, Lengths DEF Event
<1>4. CASE InlineTooLate(w)
  <2>1. faults' = faults /\ ~Busy(w)
    BY <1>4 DEF InlineTooLate, Busy, At
  <2> QED
    BY <1>1, <1>2, <1>3, <2>1 DEF Ends, Typed
<1>5. CASE Crash(w)
  <2>1. faults' = faults + 1 /\ faults' <= MaxFaults
    BY <1>5, OutboxAssumption DEF Crash, Typed
  <2> QED
    BY <1>1, <1>2, <1>3, <2>1 DEF Ends, Typed
<1> QED
  BY <1>4, <1>5

LEMMA MarkEnds ==
  ASSUME Typed, NEW w \in Workers, Mark(w)
  PROVE  Ends(w) /\ worker'[w] = Idle
<1>1. Busy(w) /\ worker[w] \in WorkerType /\ worker[w].event \in DOMAIN outbox /\ ~At(w, "IDLE")
  BY DEF Typed, Mark, Busy, At
<1>2. Event(w) \in EventType
  BY <1>1, Lengths DEF Event
<1>3. worker' = [worker EXCEPT ![w] = Idle] /\ faults' = faults
  BY DEF Mark
<1>4. 0 \in 0..Lease /\ NoToken \in Nat
  BY OutboxAssumption DEF NoToken
<1>5. CASE ~Owns(w)
  <2>1. outbox' = outbox
    BY <1>5 DEF Mark, MarkSuccess, MarkFailure
  <2>2. Touches(w, worker[w].event, Event(w), Idle)
    BY <1>1, <1>3, <2>1, SameTouches, IdleTyped DEF Event
  <2> QED
    BY <1>1, <1>2, <1>3, <1>5, <2>2 DEF Ends, Typed
<1>6. CASE Owns(w) /\ At(w, "SUCCEEDED")
  <2> DEFINE e == [Event(w) EXCEPT !.status = "DONE", !.token = NoToken, !.left = 0]
  <2>1. e \in EventType /\ e.type = Event(w).type /\ e.payload = Event(w).payload
        /\ e.delivered = Event(w).delivered /\ e.handled = Event(w).handled
        /\ e.status = "DONE" /\ e.attempts = Event(w).attempts /\ e.token = NoToken
    BY <1>2, <1>4 DEF EventType, Statuses
  <2>2. outbox' = [outbox EXCEPT ![worker[w].event] = e]
    BY <1>6 DEF Mark, MarkSuccess, Event, At
  <2> HIDE DEF e
  <2>3. Touches(w, worker[w].event, e, Idle)
    BY <1>1, <1>3, <2>1, <2>2, TouchesBy, IdleTyped DEF Event
  <2> QED
    BY <1>1, <1>3, <1>6, <2>1, <2>3 DEF Ends, Typed
<1>7. CASE Owns(w) /\ At(w, "FAILED")
  <2> DEFINE mark == IF worker[w].token >= MaxAttempts THEN "DEAD" ELSE "FAILED"
             e == [Event(w) EXCEPT !.status = mark, !.token = NoToken, !.left = 0, !.wait = 1]
  <2>1. mark = "DEAD" \/ (mark = "FAILED" /\ worker[w].token < MaxAttempts)
    BY <1>1, OutboxAssumption DEF WorkerType
  <2>2. outbox' = [outbox EXCEPT ![worker[w].event] = e]
    BY <1>7 DEF Mark, MarkFailure, Event, At
  <2> HIDE DEF mark
  <2>3. e \in EventType /\ e.type = Event(w).type /\ e.payload = Event(w).payload
        /\ e.delivered = Event(w).delivered /\ e.handled = Event(w).handled
        /\ e.status = mark /\ e.attempts = Event(w).attempts /\ e.token = NoToken
    BY <1>2, <1>4, <2>1 DEF EventType, Statuses
  <2> HIDE DEF e
  <2>4. Touches(w, worker[w].event, e, Idle)
    BY <1>1, <1>3, <2>2, <2>3, TouchesBy, IdleTyped DEF Event
  <2> QED
    BY <1>1, <1>3, <1>7, <2>1, <2>3, <2>4 DEF Ends, Typed
<1> QED
  BY <1>3, <1>5, <1>6, <1>7 DEF Mark, Typed

LEMMA AgedTyped ==
  ASSUME NEW e \in EventType
  PROVE  /\ Aged(e) \in EventType
         /\ Aged(e).left = IF e.left > 0 THEN e.left - 1 ELSE 0
         /\ Aged(e).type = e.type /\ Aged(e).payload = e.payload /\ Aged(e).status = e.status
         /\ Aged(e).attempts = e.attempts /\ Aged(e).token = e.token
         /\ Aged(e).delivered = e.delivered /\ Aged(e).handled = e.handled
<1>1. e.left \in 0..Lease /\ Lease \in Nat
  BY OutboxAssumption DEF EventType
<1>2. (IF e.left > 0 THEN e.left - 1 ELSE 0) \in 0..Lease
  BY <1>1
<1> QED
  BY <1>2 DEF EventType, Aged

LEMMA TickAges ==
  ASSUME Typed, Tick
  PROVE  Ages
<1> DEFINE late == {w \in Workers : RunsOut(w)}
<1>1. /\ faults' = faults + Cardinality(late) /\ faults + Cardinality(late) <= MaxFaults
      /\ outbox' = [i \in DOMAIN outbox |-> Aged(outbox[i])]
      /\ worker' = [w \in Workers |-> [worker[w] EXCEPT !.lapsed = @ \/ w \in late]]
  BY DEF Tick, Aged
<1>2. IsFiniteSet(late)
  BY OutboxAssumption, FS_Subset
<1>3. Cardinality(late) \in Nat /\ (Cardinality(late) = 0 <=> late = {})
  BY <1>2, FS_CardinalityType, FS_EmptySet
<1>4. faults' \in 0..MaxFaults /\ faults' >= faults /\ (late # {} => faults' > faults)
  BY <1>1, <1>3 DEF Typed
<1>5. /\ outbox' \in Seq(EventType) /\ Len(outbox') = Len(outbox)
      /\ \A i \in DOMAIN outbox : outbox'[i] = Aged(outbox[i])
  <2>1. outbox' \in [1..Len(outbox) -> EventType]
    BY <1>1, Lengths, AgedTyped
  <2>2. outbox' \in Seq(EventType)
    BY <2>1, Lengths, SeqDef
  <2> QED
    BY <1>1, <2>1, <2>2, Lengths, LenProperties
<1>6. ASSUME NEW w \in Workers
      PROVE  /\ worker'[w] = [worker[w] EXCEPT !.lapsed = @ \/ RunsOut(w)]
             /\ worker'[w] \in WorkerType
  <2>1. worker'[w] = [worker[w] EXCEPT !.lapsed = @ \/ RunsOut(w)]
    BY <1>1
  <2>2. worker[w] \in WorkerType
    BY DEF Typed
  <2>3. (worker[w].lapsed \/ RunsOut(w)) \in BOOLEAN
    OBVIOUS
  <2> QED
    BY <2>1, <2>2, <2>3 DEF WorkerType
<1>7. worker' \in [Workers -> WorkerType]
  BY <1>1, <1>6
<1> QED
  BY <1>4, <1>5, <1>6, <1>7 DEF Ages

LEMMA EnqueueGrows ==
  ASSUME Typed, NEW type \in EventTypes, NEW payload \in States \cup {"NONE"},
         Enqueue(type, payload), faults' = faults,
         \/ worker' = worker
         \/ \E w \in Workers : /\ At(w, "IDLE")
                               /\ worker' = [worker EXCEPT ![w] =
                                     [Idle EXCEPT !.at = "INLINE", !.event = Len(outbox) + 1]]
  PROVE  Grows /\ outbox'[Len(outbox) + 1] = NewEvent(type, payload)
<1>1. NewEvent(type, payload) \in EventType
  <2>1. 0 \in 0..Lease
    BY OutboxAssumption
  <2> QED
    BY <2>1 DEF NewEvent, EventType, Statuses, NoToken
<1>2. outbox \in Seq(EventType) /\ Len(outbox) \in Nat /\ DOMAIN outbox = 1..Len(outbox)
  BY Lengths DEF Typed
<1>3. /\ outbox' \in Seq(EventType) /\ Len(outbox') = Len(outbox) + 1
      /\ \A i \in DOMAIN outbox : outbox'[i] = outbox[i]
      /\ outbox'[Len(outbox) + 1] = NewEvent(type, payload)
      /\ Len(outbox) < MaxEvents
  BY <1>1, <1>2, AppendProperties DEF Enqueue
<1> DEFINE r == [Idle EXCEPT !.at = "INLINE", !.event = Len(outbox) + 1]
<1>4. r \in WorkerType
  <2>1. Len(outbox) + 1 \in 0..MaxEvents
    BY <1>2, <1>3, OutboxAssumption
  <2> QED
    BY <2>1, IdleTyped DEF WorkerType
<1> HIDE DEF r
<1>5. /\ worker' \in [Workers -> WorkerType]
      /\ \A w \in Workers : worker'[w] = worker[w] \/ (At(w, "IDLE") /\ worker'[w] = r)
  <2>1. CASE worker' = worker
    BY <2>1 DEF Typed
  <2>2. CASE \E w \in Workers : At(w, "IDLE") /\ worker' = [worker EXCEPT ![w] = r]
    BY <2>2, <1>4 DEF Typed
  <2> QED
    BY <2>1, <2>2 DEF r
<1>6. Len(outbox') <= MaxEvents
  BY <1>2, <1>3, OutboxAssumption
<1> QED
  BY <1>3, <1>5, <1>6 DEF Grows, r

Rests == UNCHANGED outboxVars

LEMMA RosterMoves ==
  ASSUME Typed, NEW w \in Workers, RosterStep(w)
  PROVE  Works(w) \/ Rests
<1>1. CASE ReadPeople(w) \/ ReadRows(w) \/ WriteRows(w) \/ Refuse(w) \/ SheetFails(w)
  BY <1>1 DEF ReadPeople, ReadRows, WriteRows, Refuse, SheetFails, Rests
<1>2. CASE EndPush(w) \/ PushThrows(w)
  <2>1. Throws(w) \/ Handled(w)
    BY <1>2 DEF EndPush, PushThrows
  <2> QED
    BY <2>1, ThrowWorks, HandledWorks
<1> QED
  BY <1>1, <1>2 DEF RosterStep

LEMMA NotifyMoves ==
  ASSUME Typed, NEW w \in Workers, Notify(w) \/ NotifyFails(w)
  PROVE  /\ Works(w) /\ At(w, "DELIVERING")
         /\ worker'[w].at = IF Notify(w) THEN "SUCCEEDED" ELSE "FAILED"
         /\ outbox'[worker[w].event].delivered
         /\ outbox'[worker[w].event].handled = Event(w).handled
         /\ \A i \in DOMAIN outbox : i # worker[w].event => outbox'[i] = outbox[i]
<1>1. CASE Notify(w)
  <2>1. /\ At(w, "DELIVERING") /\ faults' = faults
        /\ outbox' = [outbox EXCEPT ![worker[w].event].delivered = TRUE]
        /\ worker' = [worker EXCEPT ![w].at = "SUCCEEDED", ![w].beating = FALSE]
    BY <1>1 DEF Notify, Delivered
  <2> QED
    BY <1>1, <2>1, DeliveryWorks
<1>2. CASE NotifyFails(w) /\ ~Notify(w)
  <2>1. /\ At(w, "DELIVERING") /\ faults' = faults
        /\ outbox' = [outbox EXCEPT ![worker[w].event].delivered = TRUE]
        /\ worker' = [worker EXCEPT ![w].at = "FAILED", ![w].beating = FALSE]
    BY <1>2 DEF NotifyFails
  <2> QED
    BY <1>2, <2>1, DeliveryWorks
<1> QED
  BY <1>1, <1>2

LEMMA ChangeMoves ==
  ASSUME Typed, transaction \in [state : States, submittedBy : Users],
         NEW u \in Users, NEW s \in States, ChangeState(u, s)
  PROVE  Grows
BY EnqueueGrows DEF ChangeState, EventTypes

LEMMA PressMoves ==
  ASSUME Typed, NEW w \in Workers, PressPush(w)
  PROVE  Grows /\ outbox'[Len(outbox) + 1] = NewEvent("participation.roster.changed", "NONE")
BY EnqueueGrows DEF PressPush, EventTypes

Moves ==
  \/ \E w \in Workers : Takes(w) \/ Works(w) \/ Ends(w)
  \/ Ages \/ Grows \/ Rests

\* Every step moves the outbox in one of the five ways, or not at all.
LEMMA NextMoves ==
  ASSUME Typed, transaction \in [state : States, submittedBy : Users], [Next]_vars
  PROVE  Moves
<1>1. ASSUME NEW w \in Workers, Proceed(w) PROVE Moves
  <2>1. CASE ClaimInBatch(w) \/ ClaimInline(w)
    BY <2>1, ClaimingTakes DEF Moves
  <2>2. CASE InlineTooLate(w)
    BY <2>2, LeaveEnds DEF Moves
  <2>3. CASE Fails(w)
    BY <2>3, ThrowWorks DEF Fails, Moves
  <2>4. CASE Mark(w)
    BY <2>4, MarkEnds DEF Moves
  <2>5. CASE NoHandler(w)
    BY <2>5, HandledWorks DEF NoHandler, Moves
  <2>6. CASE RosterStep(w)
    BY <2>6, RosterMoves DEF Moves
  <2>7. CASE Notify(w) \/ NotifyFails(w)
    BY <2>7, NotifyMoves DEF Moves
  <2> QED
    BY <1>1, <2>1, <2>2, <2>3, <2>4, <2>5, <2>6, <2>7 DEF Proceed
<1>2. ASSUME NEW w \in Workers, PressPush(w) PROVE Moves
  BY <1>2, PressMoves DEF Moves
<1>3. ASSUME NEW w \in Workers, Heartbeat(w) PROVE Moves
  BY <1>3, BeatWorks DEF Moves
<1>4. ASSUME NEW w \in Workers, RosterCrash(w) PROVE Moves
  BY <1>4, LeaveEnds DEF RosterCrash, Moves
<1>5. ASSUME StrayArrives PROVE Moves
  BY <1>5 DEF StrayArrives, Rests, Moves
<1>6. ASSUME NEW u \in Users, NEW s \in States, ChangeState(u, s) PROVE Moves
  BY <1>6, ChangeMoves DEF Moves
<1>7. ASSUME Tick PROVE Moves
  BY <1>7, TickAges DEF Moves
<1>8. CASE UNCHANGED vars
  BY <1>8 DEF vars, Rests, Moves
<1>9. CASE UNCHANGED outboxVars
  BY <1>9 DEF Rests, Moves
<1> QED
  BY <1>1, <1>2, <1>3, <1>4, <1>5, <1>6, <1>7, <1>8, <1>9 DEF Next

-----------------------------------------------------------------------------
(* Shapes are kept. *)
LEMMA TouchesTyped ==
  ASSUME Typed, NEW w, NEW i, NEW e, NEW r, Touches(w, i, e, r), faults' \in 0..MaxFaults,
         r.at # "IDLE" => r.event \in DOMAIN outbox,
         r.beating => r.at \notin {"IDLE", "INLINE"}
  PROVE  Typed'
<1>1. DOMAIN outbox' = DOMAIN outbox
  BY Lengths, LenProperties DEF Touches
<1>2. /\ outbox' \in Seq(EventType) /\ Len(outbox') <= MaxEvents
      /\ worker' \in [Workers -> WorkerType]
  BY DEF Touches, Typed
<1>3. ASSUME NEW v \in Workers
      PROVE  /\ worker'[v].at # "IDLE" => worker'[v].event \in DOMAIN outbox'
             /\ worker'[v].beating => worker'[v].at \notin {"IDLE", "INLINE"}
  <2>1. CASE v = w
    BY <1>1, <2>1 DEF Touches
  <2>2. CASE v # w
    BY <1>1, <2>2 DEF Touches, Typed, At, Busy
  <2> QED
    BY <2>1, <2>2
<1> QED
  BY <1>2, <1>3 DEF Typed, At, Busy

LEMMA MovesTyped ==
  ASSUME Typed, Moves
  PROVE  Typed'
<1>0. faults \in 0..MaxFaults
  BY DEF Typed
<1>1. ASSUME NEW w \in Workers, Takes(w) PROVE Typed'
  <2>1. PICK i \in DOMAIN outbox, e \in EventType, r \in WorkerType :
          Touches(w, i, e, r) /\ faults' = faults /\ r.at = "HANDLING" /\ r.event = i
    BY <1>1 DEF Takes
  <2> QED
    BY <1>0, <2>1, TouchesTyped
<1>2. ASSUME NEW w \in Workers, Works(w) PROVE Typed'
  <2>1. PICK e \in EventType, r \in WorkerType :
          /\ Touches(w, worker[w].event, e, r) /\ faults' = faults
          /\ r.at \notin {"IDLE", "INLINE"} /\ r.event = worker[w].event
    BY <1>2 DEF Works
  <2>2. worker[w].event \in DOMAIN outbox
    BY <2>1 DEF Touches
  <2> QED
    BY <1>0, <2>1, <2>2, TouchesTyped
<1>3. ASSUME NEW w \in Workers, Ends(w) PROVE Typed'
  <2>1. PICK e \in EventType : Touches(w, worker[w].event, e, Idle)
    BY <1>3 DEF Ends
  <2>2. faults' \in 0..MaxFaults
    BY <1>0, <1>3, OutboxAssumption DEF Ends
  <2>3. Idle.at = "IDLE" /\ Idle.beating = FALSE
    BY DEF Idle
  <2> QED
    BY <2>1, <2>2, <2>3, TouchesTyped
<1>4. CASE Ages
  <2>1. DOMAIN outbox' = DOMAIN outbox
    BY <1>4, Lengths, LenProperties DEF Ages
  <2>2. ASSUME NEW v \in Workers
        PROVE  /\ worker'[v].at = worker[v].at /\ worker'[v].event = worker[v].event
               /\ worker'[v].beating = worker[v].beating
    BY <1>4 DEF Ages, Typed, WorkerType
  <2> QED
    BY <1>4, <2>1, <2>2 DEF Ages, Typed, At, Busy
<1>5. CASE Grows
  <2>1. DOMAIN outbox' = 1..(Len(outbox) + 1) /\ DOMAIN outbox \subseteq DOMAIN outbox'
    BY <1>5, Lengths, LenProperties DEF Grows
  <2>2. ASSUME NEW v \in Workers
        PROVE  /\ worker'[v].at # "IDLE" => worker'[v].event \in DOMAIN outbox'
               /\ worker'[v].beating => worker'[v].at \notin {"IDLE", "INLINE"}
    <3>1. CASE worker'[v] = worker[v]
      BY <2>1, <3>1 DEF Typed, At, Busy
    <3>2. CASE worker'[v] = [Idle EXCEPT !.at = "INLINE", !.event = Len(outbox) + 1]
      <4>1. Len(outbox) + 1 \in DOMAIN outbox'
        BY <2>1, Lengths
      <4> QED
        BY <3>2, <4>1 DEF Idle
    <3> QED
      BY <1>5, <3>1, <3>2 DEF Grows
  <2>3. faults' \in 0..MaxFaults /\ outbox' \in Seq(EventType) /\ Len(outbox') <= MaxEvents
        /\ worker' \in [Workers -> WorkerType]
    BY <1>0, <1>5 DEF Grows
  <2> QED
    BY <2>2, <2>3 DEF Typed, At, Busy
<1>6. CASE Rests
  BY <1>6 DEF Rests, outboxVars, Typed, At, Busy
<1> QED
  BY <1>1, <1>2, <1>3, <1>4, <1>5, <1>6 DEF Moves

-----------------------------------------------------------------------------
(***************************************************************************)
(* Claims.  A live worker is one whose claim has not run out.              *)
(***************************************************************************)
Live(w) == Busy(w) /\ ~worker[w].lapsed

Held == \A w \in Workers : Live(w) => Owns(w) /\ Event(w).left > 0
Dated == \A w \in Workers : Busy(w) => worker[w].token <= Event(w).attempts
Apart == \A v, w \in Workers :
  Busy(v) /\ Busy(w) /\ v # w /\ worker[v].event = worker[w].event =>
    worker[v].token # worker[w].token
Latest == \A i \in DOMAIN outbox :
  outbox[i].status = "PROCESSING" => outbox[i].token = outbox[i].attempts

Claims == Held /\ Dated /\ Apart /\ Latest

\* The same for the next state, worker by worker and event by event.
LEMMA ClaimsNext ==
  ASSUME \A v \in Workers : worker'[v].at \notin {"IDLE", "INLINE"} =>
           /\ worker'[v].token <= outbox'[worker'[v].event].attempts
           /\ ~worker'[v].lapsed =>
                /\ outbox'[worker'[v].event].status = "PROCESSING"
                /\ outbox'[worker'[v].event].token = worker'[v].token
                /\ outbox'[worker'[v].event].left > 0,
         \A v, u \in Workers :
           /\ worker'[v].at \notin {"IDLE", "INLINE"} /\ worker'[u].at \notin {"IDLE", "INLINE"}
           /\ v # u /\ worker'[v].event = worker'[u].event
           => worker'[v].token # worker'[u].token,
         \A i \in DOMAIN outbox' :
           outbox'[i].status = "PROCESSING" => outbox'[i].token = outbox'[i].attempts
  PROVE  Claims'
BY DEF Claims, Held, Dated, Apart, Latest, Live, Busy, Owns, Event

LEMMA TakesClaims ==
  ASSUME Typed, Claims, NEW w \in Workers, Takes(w)
  PROVE  Claims'
<1>1. PICK i \in DOMAIN outbox, e \in EventType, r \in WorkerType :
        /\ Touches(w, i, e, r) /\ ~Busy(w) /\ Claimable(outbox[i])
        /\ e.status = "PROCESSING" /\ e.left = Lease
        /\ e.attempts = outbox[i].attempts + 1 /\ e.token = outbox[i].attempts + 1
        /\ r.at = "HANDLING" /\ r.event = i /\ r.token = outbox[i].attempts + 1 /\ ~r.lapsed
  BY DEF Takes
<1>2. /\ worker'[w] = r /\ outbox'[i] = e
      /\ \A v \in Workers : v # w => worker'[v] = worker[v]
      /\ \A j \in DOMAIN outbox : j # i => outbox'[j] = outbox[j]
      /\ DOMAIN outbox' = DOMAIN outbox
  BY <1>1, Lengths, LenProperties DEF Touches
<1>3. outbox[i].attempts \in Nat /\ Lease > 0 /\ \A v \in Workers : worker[v].token \in Nat
  <2>1. outbox[i] \in EventType /\ \A v \in Workers : worker[v] \in WorkerType
    BY Lengths DEF Typed
  <2> QED
    BY <2>1, OutboxAssumption DEF EventType, WorkerType
<1>4. ASSUME NEW v \in Workers, Busy(v)
      PROVE  /\ v # w /\ worker[v].event \in DOMAIN outbox
             /\ worker[v].event = i => worker[v].lapsed /\ worker[v].token <= outbox[i].attempts
  <2>1. v # w /\ worker[v].event \in DOMAIN outbox
    BY <1>1, <1>4 DEF Typed, Busy, At
  <2>2. ASSUME worker[v].event = i PROVE worker[v].lapsed
    BY <1>1, <1>4, <2>2 DEF Claims, Held, Live, Owns, Event, Claimable, IsStaleProcessing
  <2> QED
    BY <1>4, <2>1, <2>2 DEF Claims, Dated, Event
<1>5. ASSUME NEW v \in Workers, worker'[v].at \notin {"IDLE", "INLINE"}
      PROVE  /\ worker'[v].token <= outbox'[worker'[v].event].attempts
             /\ ~worker'[v].lapsed =>
                  /\ outbox'[worker'[v].event].status = "PROCESSING"
                  /\ outbox'[worker'[v].event].token = worker'[v].token
                  /\ outbox'[worker'[v].event].left > 0
  <2>1. CASE v = w
    BY <1>1, <1>2, <1>3, <2>1
  <2>2. CASE v # w
    <3>1. worker'[v] = worker[v] /\ Busy(v)
      BY <1>2, <1>5, <2>2 DEF Busy
    <3>2. CASE worker[v].event = i
      BY <1>1, <1>2, <1>3, <1>4, <3>1, <3>2
    <3>3. CASE worker[v].event # i
      <4>1. outbox'[worker[v].event] = Event(v)
        BY <1>2, <1>4, <3>1, <3>3 DEF Event
      <4> QED
        BY <3>1, <4>1 DEF Claims, Held, Dated, Live, Owns
    <3> QED
      BY <3>2, <3>3
  <2> QED
    BY <2>1, <2>2
<1>6. ASSUME NEW v \in Workers, NEW u \in Workers,
             worker'[v].at \notin {"IDLE", "INLINE"}, worker'[u].at \notin {"IDLE", "INLINE"},
             v # u, worker'[v].event = worker'[u].event
      PROVE  worker'[v].token # worker'[u].token
  <2>1. CASE v # w /\ u # w
    BY <1>2, <1>6, <2>1 DEF Claims, Apart, Busy
  <2>2. CASE v = w
    <3>1. Busy(u) /\ worker'[u] = worker[u]
      BY <1>2, <1>6, <2>2 DEF Busy
    <3> QED
      BY <1>1, <1>2, <1>3, <1>4, <1>6, <2>2, <3>1
  <2>3. CASE u = w
    <3>1. Busy(v) /\ worker'[v] = worker[v]
      BY <1>2, <1>6, <2>3 DEF Busy
    <3> QED
      BY <1>1, <1>2, <1>3, <1>4, <1>6, <2>3, <3>1
  <2> QED
    BY <2>1, <2>2, <2>3
<1>7. ASSUME NEW j \in DOMAIN outbox', outbox'[j].status = "PROCESSING"
      PROVE  outbox'[j].token = outbox'[j].attempts
  BY <1>1, <1>2, <1>7 DEF Claims, Latest
<1> QED
  BY <1>5, <1>6, <1>7, ClaimsNext

LEMMA WorksClaims ==
  ASSUME Typed, Claims, NEW w \in Workers, Works(w)
  PROVE  Claims'
<1>1. PICK e \in EventType, r \in WorkerType :
        /\ Touches(w, worker[w].event, e, r) /\ Busy(w)
        /\ e.status = Event(w).status /\ e.attempts = Event(w).attempts /\ e.token = Event(w).token
        /\ e.left \in {Event(w).left, Lease}
        /\ r.at \notin {"IDLE", "INLINE"} /\ r.event = worker[w].event
        /\ r.token = worker[w].token /\ r.lapsed = worker[w].lapsed
  BY DEF Works
<1>2. Lease > 0
  BY OutboxAssumption
<1>3. ASSUME NEW v \in Workers
      PROVE  /\ worker'[v].at \notin {"IDLE", "INLINE"} <=> Busy(v)
             /\ worker'[v].event = worker[v].event /\ worker'[v].token = worker[v].token
             /\ worker'[v].lapsed = worker[v].lapsed
  BY <1>1 DEF Touches, Busy
<1>4. ASSUME NEW j \in DOMAIN outbox
      PROVE  /\ outbox'[j].status = outbox[j].status /\ outbox'[j].token = outbox[j].token
             /\ outbox'[j].attempts = outbox[j].attempts
             /\ outbox[j].left > 0 => outbox'[j].left > 0
  BY <1>1, <1>2 DEF Touches, Event
<1>5. DOMAIN outbox' = DOMAIN outbox
  BY <1>1, Lengths, LenProperties DEF Touches
<1>6. \A v \in Workers : Busy(v) => worker[v].event \in DOMAIN outbox
  BY DEF Typed, Busy, At
<1> QED
  BY <1>3, <1>4, <1>5, <1>6, ClaimsNext DEF Claims, Held, Dated, Apart, Latest, Live, Owns, Event

LEMMA EndsClaims ==
  ASSUME Typed, Claims, NEW w \in Workers, Ends(w)
  PROVE  Claims'
<1>1. PICK e \in EventType :
        /\ Touches(w, worker[w].event, e, Idle)
        /\ \/ e = Event(w)
           \/ /\ Busy(w) /\ Owns(w) /\ e.attempts = Event(w).attempts
              /\ e.status # "PROCESSING"
  BY DEF Ends
<1>2. \A v \in Workers : Busy(v) => worker[v].event \in DOMAIN outbox
  BY DEF Typed, Busy, At
<1>3. /\ DOMAIN outbox' = DOMAIN outbox
      /\ \A v \in Workers : worker'[v].at \notin {"IDLE", "INLINE"} =>
            v # w /\ worker'[v] = worker[v] /\ Busy(v)
  BY <1>1, Lengths, LenProperties DEF Touches, Idle, Busy
<1>4. ASSUME NEW j \in DOMAIN outbox
      PROVE  /\ outbox'[j].attempts = outbox[j].attempts
             /\ outbox'[j].status = "PROCESSING" => outbox'[j] = outbox[j]
  BY <1>1 DEF Touches, Event
<1>5. ASSUME NEW v \in Workers, v # w, Live(v)
      PROVE  outbox'[worker[v].event] = outbox[worker[v].event]
  <2>1. CASE worker[v].event = worker[w].event /\ Busy(w) /\ Owns(w)
    BY <1>5, <2>1 DEF Claims, Held, Apart, Live, Owns, Event
  <2> QED
    BY <1>1, <1>2, <1>5, <2>1 DEF Touches, Event, Live
<1> QED
  BY <1>2, <1>3, <1>4, <1>5, ClaimsNext DEF Claims, Held, Dated, Apart, Latest, Live, Owns, Event

LEMMA AgesClaims ==
  ASSUME Typed, Claims, Ages
  PROVE  Claims'
<1>1. ASSUME NEW j \in DOMAIN outbox
      PROVE  /\ outbox'[j].status = outbox[j].status /\ outbox'[j].token = outbox[j].token
             /\ outbox'[j].attempts = outbox[j].attempts
             /\ outbox[j].left > 0 /\ outbox[j].left # 1 => outbox'[j].left > 0
  <2>1. outbox[j] \in EventType /\ outbox'[j] = Aged(outbox[j])
    BY Lengths DEF Ages
  <2>2. outbox[j].left \in Nat
    BY <2>1, OutboxAssumption DEF EventType
  <2> QED
    BY <2>1, <2>2, AgedTyped
<1>2. ASSUME NEW v \in Workers
      PROVE  /\ worker'[v].at = worker[v].at /\ worker'[v].event = worker[v].event
             /\ worker'[v].token = worker[v].token
             /\ ~worker'[v].lapsed => ~worker[v].lapsed /\ ~RunsOut(v)
  BY DEF Ages, Typed, WorkerType
<1>3. DOMAIN outbox' = DOMAIN outbox
  BY Lengths, LenProperties DEF Ages
<1>4. \A v \in Workers : Busy(v) => worker[v].event \in DOMAIN outbox
  BY DEF Typed, Busy, At
<1>5. ASSUME NEW v \in Workers, Live(v), ~RunsOut(v)
      PROVE  Event(v).left # 1
  BY <1>5 DEF Claims, Held, Live, Busy, RunsOut, At
<1> QED
  BY <1>1, <1>2, <1>3, <1>4, <1>5, ClaimsNext
  DEF Claims, Held, Dated, Apart, Latest, Live, Busy, Owns, Event

LEMMA GrowsClaims ==
  ASSUME Typed, Claims, Grows
  PROVE  Claims'
<1>1. ASSUME NEW v \in Workers, worker'[v].at \notin {"IDLE", "INLINE"}
      PROVE  worker'[v] = worker[v] /\ Busy(v) /\ worker[v].event \in DOMAIN outbox
  BY <1>1 DEF Grows, Idle, Busy, Typed, At
<1>2. DOMAIN outbox' = 1..(Len(outbox) + 1) /\ \A i \in DOMAIN outbox : outbox'[i] = outbox[i]
  BY Lengths, LenProperties DEF Grows
<1>3. outbox'[Len(outbox) + 1].status # "PROCESSING"
  BY DEF Grows, NewEvent
<1>4. \A i \in DOMAIN outbox' : i \in DOMAIN outbox \/ i = Len(outbox) + 1
  BY <1>2, Lengths
<1> QED
  BY <1>1, <1>2, <1>3, <1>4, ClaimsNext DEF Claims, Held, Dated, Apart, Latest, Live, Owns, Event

LEMMA MovesClaims ==
  ASSUME Typed, Claims, Moves
  PROVE  Claims'
<1>1. CASE Rests
  BY <1>1 DEF Rests, outboxVars, Claims, Held, Dated, Apart, Latest, Live, Busy, Owns, Event
<1> QED
  BY <1>1, TakesClaims, WorksClaims, EndsClaims, AgesClaims, GrowsClaims DEF Moves

-----------------------------------------------------------------------------
(***************************************************************************)
(* Attempts.  Every attempt beyond the last that is counted was paid for   *)
(* by a fault: a claim that nobody alive holds was lost by a crash or ran  *)
(* out.                                                                    *)
(***************************************************************************)
Abandoned(i) == \A w \in Workers : Live(w) => worker[w].event # i

\* The bounds of one event, for the record e, n faults and whether it is abandoned.
Within(e, n, abandoned) ==
  /\ e.token <= e.attempts
  /\ e.attempts <= MaxAttempts + n
  /\ e.status \in {"PENDING", "FAILED"} => e.attempts < MaxAttempts
  /\ e.status = "PROCESSING" /\ abandoned => e.attempts < MaxAttempts + n

Bounded == \A i \in DOMAIN outbox : Within(outbox[i], faults, Abandoned(i))

LEMMA TakesBounded ==
  ASSUME Typed, Claims, Bounded, NEW w \in Workers, Takes(w)
  PROVE  Bounded'
<1>1. PICK i \in DOMAIN outbox, e \in EventType, r \in WorkerType :
        /\ Touches(w, i, e, r) /\ ~Busy(w) /\ Claimable(outbox[i]) /\ faults' = faults
        /\ e.status = "PROCESSING"
        /\ e.attempts = outbox[i].attempts + 1 /\ e.token = outbox[i].attempts + 1
        /\ r.at = "HANDLING" /\ r.event = i /\ ~r.lapsed
  BY DEF Takes
<1>2. outbox[i] \in EventType /\ DOMAIN outbox' = DOMAIN outbox
  BY <1>1, Lengths, LenProperties DEF Touches
<1>3. outbox[i].attempts \in Nat /\ MaxAttempts \in Nat /\ faults \in Nat
  BY <1>2, OutboxAssumption DEF EventType, Typed
<1>4. outbox[i].attempts < MaxAttempts + faults
  <2>1. CASE outbox[i].status \in {"PENDING", "FAILED"}
    BY <1>3, <2>1 DEF Bounded, Within
  <2>2. CASE outbox[i].status = "PROCESSING"
    <3>1. outbox[i].left = 0
      BY <1>1, <2>2 DEF Claimable, IsStaleProcessing
    <3>2. Abandoned(i)
      BY <3>1 DEF Abandoned, Claims, Held, Event
    <3> QED
      BY <2>2, <3>2 DEF Bounded, Within
  <2> QED
    BY <1>1, <2>1, <2>2 DEF Claimable
<1>5. ~Abandoned(i)'
  BY <1>1 DEF Abandoned, Live, Busy, Touches
<1>6. ASSUME NEW j \in DOMAIN outbox, j # i, Abandoned(j)'
      PROVE  Abandoned(j)
  BY <1>1, <1>6 DEF Abandoned, Live, Busy, Touches
<1>7. ASSUME NEW j \in DOMAIN outbox
      PROVE  Within(outbox'[j], faults', Abandoned(j)')
  <2>1. CASE j = i
    <3>1. outbox'[j] = e
      BY <1>1, <2>1 DEF Touches
    <3> QED
      BY <1>1, <1>3, <1>4, <1>5, <2>1, <3>1 DEF Within
  <2>2. CASE j # i
    BY <1>1, <1>6, <2>2 DEF Touches, Bounded, Within
  <2> QED
    BY <2>1, <2>2
<1> QED
  BY <1>2, <1>7 DEF Bounded

LEMMA WorksBounded ==
  ASSUME Typed, Bounded, NEW w \in Workers, Works(w)
  PROVE  Bounded'
<1>1. PICK e \in EventType, r \in WorkerType :
        /\ Touches(w, worker[w].event, e, r) /\ Busy(w) /\ faults' = faults
        /\ e.status = Event(w).status /\ e.attempts = Event(w).attempts /\ e.token = Event(w).token
        /\ r.at \notin {"IDLE", "INLINE"} /\ r.event = worker[w].event
        /\ r.lapsed = worker[w].lapsed
  BY DEF Works
<1>2. \A v \in Workers : /\ worker'[v].at \notin {"IDLE", "INLINE"} <=> Busy(v)
                         /\ worker'[v].event = worker[v].event
                         /\ worker'[v].lapsed = worker[v].lapsed
  BY <1>1 DEF Touches, Busy
<1>3. ASSUME NEW j \in DOMAIN outbox
      PROVE  /\ outbox'[j].status = outbox[j].status /\ outbox'[j].token = outbox[j].token
             /\ outbox'[j].attempts = outbox[j].attempts
             /\ Abandoned(j)' => Abandoned(j)
  <2>1. Abandoned(j)' => Abandoned(j)
    BY <1>2 DEF Abandoned, Live, Busy
  <2> QED
    BY <1>1, <2>1 DEF Touches, Event
<1>4. DOMAIN outbox' = DOMAIN outbox
  BY <1>1, Lengths, LenProperties DEF Touches
<1> QED
  BY <1>1, <1>3, <1>4 DEF Bounded, Within

LEMMA EndsBounded ==
  ASSUME Typed, Claims, Bounded, NEW w \in Workers, Ends(w)
  PROVE  Bounded'
<1>1. PICK e \in EventType :
        /\ Touches(w, worker[w].event, e, Idle)
        /\ \/ e = Event(w) /\ faults' = faults + 1
           \/ e = Event(w) /\ faults' = faults /\ (Busy(w) => ~Owns(w))
           \/ /\ Busy(w) /\ Owns(w) /\ faults' = faults
              /\ e.attempts = Event(w).attempts /\ e.token = NoToken
              /\ \/ e.status \in {"DONE", "DEAD"}
                 \/ e.status = "FAILED" /\ worker[w].token < MaxAttempts
  BY DEF Ends
<1>2. DOMAIN outbox' = DOMAIN outbox
  BY <1>1, Lengths, LenProperties DEF Touches
<1>3. MaxAttempts \in Nat /\ faults \in Nat
  BY OutboxAssumption DEF Typed
<1>4. ASSUME NEW j \in DOMAIN outbox, Abandoned(j)', j # worker[w].event \/ ~Live(w)
      PROVE  Abandoned(j)
  BY <1>1, <1>4 DEF Abandoned, Live, Busy, Touches
<1>5. ASSUME NEW j \in DOMAIN outbox
      PROVE  Within(outbox'[j], faults', Abandoned(j)')
  <2>1. outbox[j] \in EventType /\ Within(outbox[j], faults, Abandoned(j))
    BY Lengths DEF Bounded
  <2>2. outbox[j].attempts \in Nat /\ outbox[j].token \in Nat
    BY <2>1 DEF EventType
  <2>3. CASE j # worker[w].event
    <3>1. outbox'[j] = outbox[j] /\ (faults' = faults \/ faults' = faults + 1)
      BY <1>1, <2>3 DEF Touches
    <3> QED
      BY <1>3, <1>4, <2>1, <2>2, <2>3, <3>1 DEF Within
  <2>4. CASE j = worker[w].event /\ e = Event(w) /\ faults' = faults + 1
    <3>1. outbox'[j] = outbox[j]
      BY <1>1, <2>4 DEF Touches, Event
    <3> QED
      BY <1>3, <2>1, <2>2, <2>4, <3>1 DEF Within
  <2>5. CASE j = worker[w].event /\ e = Event(w) /\ faults' = faults /\ (Busy(w) => ~Owns(w))
    <3>1. outbox'[j] = outbox[j]
      BY <1>1, <2>5 DEF Touches, Event
    <3>2. ~Live(w)
      BY <2>5 DEF Live, Claims, Held
    <3> QED
      BY <1>4, <2>1, <2>5, <3>1, <3>2 DEF Within
  <2>6. CASE /\ j = worker[w].event /\ Busy(w) /\ Owns(w) /\ faults' = faults
             /\ e.attempts = Event(w).attempts /\ e.token = NoToken
             /\ \/ e.status \in {"DONE", "DEAD"}
                \/ e.status = "FAILED" /\ worker[w].token < MaxAttempts
    <3>1. outbox'[j] = e
      BY <1>1, <2>6 DEF Touches
    <3>2. worker[w].token = outbox[j].attempts
      BY <2>6 DEF Owns, Event, Claims, Latest
    <3> QED
      BY <1>3, <2>1, <2>2, <2>6, <3>1, <3>2 DEF Within, Event, NoToken
  <2> QED
    BY <1>1, <2>3, <2>4, <2>5, <2>6
<1> QED
  BY <1>2, <1>5 DEF Bounded

LEMMA AgesBounded ==
  ASSUME Typed, Bounded, Ages
  PROVE  Bounded'
<1>1. DOMAIN outbox' = DOMAIN outbox
  BY Lengths, LenProperties DEF Ages
<1>2. MaxAttempts \in Nat /\ faults \in Nat /\ faults' \in Nat /\ faults' >= faults
  BY OutboxAssumption DEF Typed, Ages
<1>3. ASSUME NEW j \in DOMAIN outbox
      PROVE  Within(outbox'[j], faults', Abandoned(j)')
  <2>1. outbox[j] \in EventType /\ Within(outbox[j], faults, Abandoned(j))
    BY Lengths DEF Bounded
  <2>2. outbox[j].attempts \in Nat /\ outbox[j].token \in Nat
    BY <2>1 DEF EventType
  <2>3. /\ outbox'[j].status = outbox[j].status /\ outbox'[j].token = outbox[j].token
        /\ outbox'[j].attempts = outbox[j].attempts
    BY <2>1, AgedTyped DEF Ages
  <2>4. CASE \E w \in Workers : RunsOut(w)
    <3>1. faults' > faults
      BY <2>4 DEF Ages
    <3> QED
      BY <1>2, <2>1, <2>2, <2>3, <3>1 DEF Within
  <2>5. CASE \A w \in Workers : ~RunsOut(w)
    <3>1. \A v \in Workers : /\ worker'[v].at = worker[v].at /\ worker'[v].event = worker[v].event
                             /\ worker'[v].lapsed = worker[v].lapsed
      BY <2>5 DEF Ages, Typed, WorkerType
    <3>2. Abandoned(j)' => Abandoned(j)
      BY <3>1 DEF Abandoned, Live, Busy
    <3> QED
      BY <1>2, <2>1, <2>2, <2>3, <3>2 DEF Within
  <2> QED
    BY <2>4, <2>5
<1> QED
  BY <1>1, <1>3 DEF Bounded

LEMMA GrowsBounded ==
  ASSUME Typed, Bounded, Grows
  PROVE  Bounded'
<1>0. PICK n \in Nat : n = Len(outbox) + 1
  BY Lengths
<1>1. DOMAIN outbox' = 1..(Len(outbox) + 1) /\ \A i \in DOMAIN outbox : outbox'[i] = outbox[i]
  BY Lengths, LenProperties DEF Grows
<1>2. \A i \in DOMAIN outbox' : i \in DOMAIN outbox \/ i = n
  BY <1>0, <1>1, Lengths
<1>3. \A j : Abandoned(j)' => Abandoned(j)
  BY DEF Grows, Abandoned, Live, Busy, At
<1>4. /\ outbox'[n].status = "PENDING"
      /\ outbox'[n].attempts = 0 /\ outbox'[n].token = 0
  BY <1>0 DEF Grows, NewEvent, NoToken
<1>5. MaxAttempts \in Nat \ {0} /\ faults \in Nat /\ faults' = faults
  BY OutboxAssumption DEF Typed, Grows
<1>6. Within(outbox'[n], faults', Abandoned(n)')
  BY <1>4, <1>5 DEF Within
<1>7. ASSUME NEW j \in DOMAIN outbox
      PROVE  Within(outbox'[j], faults', Abandoned(j)')
  BY <1>1, <1>3, <1>5 DEF Bounded, Within
<1> QED
  BY <1>2, <1>6, <1>7 DEF Bounded

LEMMA MovesBounded ==
  ASSUME Typed, Claims, Bounded, Moves
  PROVE  Bounded'
<1>1. CASE Rests
  BY <1>1 DEF Rests, outboxVars, Bounded, Within, Abandoned, Live, Busy
<1> QED
  BY <1>1, TakesBounded, WorksBounded, EndsBounded, AgesBounded, GrowsBounded DEF Moves

-----------------------------------------------------------------------------
(***************************************************************************)
(* Deliveries.  What an event has got it keeps, and it becomes DONE only   *)
(* when a worker that has succeeded marks it.                              *)
(***************************************************************************)
Complete(i) ==
  /\ outbox[i].delivered /\ outbox[i].handled
  /\ outbox[i].type = "transaction.state_changed" =>
       IF outbox[i].payload = "SUBMITTED"
       THEN \A u \in Approvers : <<i, u>> \in notifications
       ELSE \E u \in Users : <<i, u>> \in notifications

Deliveries ==
  /\ \A w \in Workers : At(w, "DELIVERING") => Event(w).handled
  /\ \A w \in Workers : At(w, "SUCCEEDED") => Complete(worker[w].event)
  /\ \A i \in DOMAIN outbox : outbox[i].status = "DONE" => Complete(i)

\* No event is lost or becomes another.
Keeps ==
  /\ DOMAIN outbox \subseteq DOMAIN outbox'
  /\ \A i \in DOMAIN outbox :
       /\ outbox'[i].type = outbox[i].type /\ outbox'[i].payload = outbox[i].payload
       /\ outbox[i].delivered => outbox'[i].delivered
       /\ outbox[i].handled => outbox'[i].handled
       /\ outbox[i].status \in Finished => outbox'[i].status = outbox[i].status
       /\ outbox'[i].status = "DONE" =>
            \/ outbox[i].status = "DONE"
            \/ \E w \in Workers : At(w, "SUCCEEDED") /\ worker[w].event = i
  /\ \A i \in DOMAIN outbox' \ DOMAIN outbox :
       outbox'[i].status = "PENDING" /\ outbox'[i].handled = FALSE

LEMMA MovesKeeps ==
  ASSUME Typed, Moves
  PROVE  Keeps
<1>1. ASSUME NEW w \in Workers, Takes(w) \/ Works(w) PROVE Keeps
  <2>1. PICK i, e, r :
          /\ Touches(w, i, e, r)
          /\ \/ e.status = "PROCESSING" /\ Claimable(outbox[i])
             \/ e.status = outbox[i].status
    BY <1>1 DEF Takes, Works, Event
  <2>2. e.status \in Finished => outbox[i].status = e.status
    BY <2>1 DEF Finished
  <2>3. outbox[i].status \in Finished => e.status = outbox[i].status
    BY <2>1 DEF Claimable, Finished
  <2>4. DOMAIN outbox' = DOMAIN outbox
    BY <2>1, Lengths, LenProperties DEF Touches
  <2> QED
    BY <2>1, <2>2, <2>3, <2>4 DEF Keeps, Touches, Finished
<1>2. ASSUME NEW w \in Workers, Ends(w) PROVE Keeps
  <2>1. PICK e :
          /\ Touches(w, worker[w].event, e, Idle)
          /\ \/ e = Event(w)
             \/ Owns(w) /\ (e.status = "DONE" => At(w, "SUCCEEDED"))
    BY <1>2 DEF Ends
  <2>2. Event(w).status \in Finished => e.status = Event(w).status
    BY <2>1 DEF Owns, Finished
  <2>3. DOMAIN outbox' = DOMAIN outbox
    BY <2>1, Lengths, LenProperties DEF Touches
  <2>4. ASSUME NEW i \in DOMAIN outbox
        PROVE  /\ outbox'[i].type = outbox[i].type /\ outbox'[i].payload = outbox[i].payload
               /\ outbox[i].delivered => outbox'[i].delivered
               /\ outbox[i].handled => outbox'[i].handled
    BY <2>1 DEF Touches
  <2>5. ASSUME NEW i \in DOMAIN outbox
        PROVE  /\ outbox[i].status \in Finished => outbox'[i].status = outbox[i].status
               /\ outbox'[i].status = "DONE" =>
                    \/ outbox[i].status = "DONE"
                    \/ \E v \in Workers : At(v, "SUCCEEDED") /\ worker[v].event = i
    BY <2>1, <2>2 DEF Touches, Event
  <2> QED
    BY <2>3, <2>4, <2>5 DEF Keeps
<1>3. CASE Ages
  <2>1. DOMAIN outbox' = DOMAIN outbox
    BY <1>3, Lengths, LenProperties DEF Ages
  <2>2. ASSUME NEW i \in DOMAIN outbox
        PROVE  /\ outbox'[i].type = outbox[i].type /\ outbox'[i].payload = outbox[i].payload
               /\ outbox'[i].status = outbox[i].status
               /\ outbox'[i].delivered = outbox[i].delivered
               /\ outbox'[i].handled = outbox[i].handled
    BY <1>3, Lengths, AgedTyped DEF Ages
  <2> QED
    BY <2>1, <2>2 DEF Keeps
<1>4. CASE Grows
  <2>1. DOMAIN outbox' = 1..(Len(outbox) + 1) /\ \A i \in DOMAIN outbox : outbox'[i] = outbox[i]
    BY <1>4, Lengths, LenProperties DEF Grows
  <2>2. /\ DOMAIN outbox \subseteq DOMAIN outbox'
        /\ \A i \in DOMAIN outbox' \ DOMAIN outbox : i = Len(outbox) + 1
    BY <2>1, Lengths
  <2>3. outbox'[Len(outbox) + 1].status = "PENDING" /\ outbox'[Len(outbox) + 1].handled = FALSE
    BY <1>4 DEF Grows, NewEvent
  <2> QED
    BY <2>1, <2>2, <2>3 DEF Keeps
<1>5. CASE Rests
  BY <1>5 DEF Rests, outboxVars, Keeps
<1> QED
  BY <1>1, <1>2, <1>3, <1>4, <1>5 DEF Moves

\* How a worker comes to deliver, and to have succeeded.
Comes(w) ==
  /\ worker'[w].at = "DELIVERING" =>
       \/ At(w, "DELIVERING") /\ worker'[w].event = worker[w].event
       \/ outbox'[worker'[w].event].handled
  /\ worker'[w].at = "SUCCEEDED" =>
       /\ worker'[w].event = worker[w].event
       /\ At(w, "SUCCEEDED") \/ Notify(w)

LEMMA Others ==
  ASSUME NEW v \in Workers, Takes(v) \/ Works(v) \/ Ends(v), NEW w \in Workers, w # v
  PROVE  worker'[w] = worker[w]
BY DEF Takes, Works, Ends, Touches

LEMMA SameComes ==
  ASSUME NEW w \in Workers, worker'[w].at = worker[w].at, worker'[w].event = worker[w].event
  PROVE  Comes(w)
BY DEF Comes, At

\* It is enough to look at the worker that moves.
LEMMA MoverComes ==
  ASSUME NEW v \in Workers, Takes(v) \/ Works(v) \/ Ends(v), Comes(v), NEW w \in Workers
  PROVE  Comes(w)
<1>1. CASE w = v
  BY <1>1
<1>2. CASE w # v
  <2>1. worker'[w] = worker[w]
    BY <1>2, Others
  <2> QED
    BY <2>1, SameComes
<1> QED
  BY <1>1, <1>2

LEMMA HandlerComes ==
  ASSUME Typed, NEW v \in Workers, Throws(v) \/ Handled(v), NEW w \in Workers
  PROVE  Comes(w)
<1>1. CASE Throws(v)
  <2>1. Works(v) /\ worker'[v].at = "FAILED"
    BY <1>1, ThrowWorks
  <2> QED
    BY <2>1, MoverComes DEF Comes
<1>2. CASE Handled(v)
  <2>1. Works(v) /\ worker'[v].at = "DELIVERING" /\ outbox'[worker[v].event].handled
    BY <1>2, HandledWorks
  <2>2. worker'[v].event = worker[v].event
    BY <2>1 DEF Works, Touches
  <2> QED
    BY <2>1, <2>2, MoverComes DEF Comes
<1> QED
  BY <1>1, <1>2

LEMMA NextComes ==
  ASSUME Typed, [Next]_vars, NEW w \in Workers
  PROVE  Comes(w)
<1>1. ASSUME NEW v \in Workers, Proceed(v) PROVE Comes(w)
  <2>1. CASE ClaimInBatch(v) \/ ClaimInline(v)
    <3>1. Takes(v) /\ worker'[v].at = "HANDLING"
      BY <2>1, ClaimingTakes
    <3> QED
      BY <3>1, MoverComes DEF Comes
  <2>2. CASE InlineTooLate(v) \/ Mark(v)
    <3>1. Ends(v) /\ worker'[v] = Idle
      BY <2>2, LeaveEnds, MarkEnds
    <3> QED
      BY <3>1, MoverComes DEF Comes, Idle
  <2>3. CASE Fails(v) \/ NoHandler(v)
    BY <2>3, HandlerComes DEF Fails, NoHandler
  <2>4. CASE RosterStep(v)
    <3>1. CASE ReadPeople(v) \/ ReadRows(v) \/ WriteRows(v) \/ Refuse(v) \/ SheetFails(v)
      <4>1. worker' = worker
        BY <3>1 DEF ReadPeople, ReadRows, WriteRows, Refuse, SheetFails, outboxVars
      <4> QED
        BY <4>1, SameComes
    <3>2. CASE EndPush(v) \/ PushThrows(v)
      <4>1. Throws(v) \/ Handled(v)
        BY <3>2 DEF EndPush, PushThrows
      <4> QED
        BY <4>1, HandlerComes
    <3> QED
      BY <2>4, <3>1, <3>2 DEF RosterStep
  <2>5. CASE Notify(v) \/ NotifyFails(v)
    <3>1. Works(v) /\ worker'[v].at = IF Notify(v) THEN "SUCCEEDED" ELSE "FAILED"
      BY <2>5, NotifyMoves
    <3>2. worker'[v].event = worker[v].event
      BY <3>1 DEF Works, Touches
    <3> QED
      BY <3>1, <3>2, MoverComes DEF Comes
  <2> QED
    BY <1>1, <2>1, <2>2, <2>3, <2>4, <2>5 DEF Proceed
<1>2. ASSUME NEW v \in Workers, PressPush(v) PROVE Comes(w)
  <2>1. Grows
    BY <1>2, PressMoves
  <2>2. worker'[w] = worker[w] \/ worker'[w].at = "INLINE"
    BY <2>1 DEF Grows, Idle
  <2> QED
    BY <2>2, SameComes DEF Comes
<1>3. ASSUME NEW v \in Workers, Heartbeat(v) PROVE Comes(w)
  <2>1. worker'[w].at = worker[w].at /\ worker'[w].event = worker[w].event
    BY <1>3 DEF Heartbeat, Typed, WorkerType
  <2> QED
    BY <2>1, SameComes
<1>4. ASSUME NEW v \in Workers, RosterCrash(v) PROVE Comes(w)
  <2>1. Ends(v) /\ worker'[v] = Idle
    BY <1>4, LeaveEnds DEF RosterCrash
  <2> QED
    BY <2>1, MoverComes DEF Comes, Idle
<1>5. ASSUME Tick PROVE Comes(w)
  <2>1. worker[w] \in WorkerType /\ worker'[w] = [worker[w] EXCEPT !.lapsed = @ \/ RunsOut(w)]
    BY <1>5, TickAges DEF Ages, Typed
  <2>2. worker'[w].at = worker[w].at /\ worker'[w].event = worker[w].event
    BY <2>1 DEF WorkerType
  <2> QED
    BY <2>2, SameComes
<1>6. ASSUME worker' = worker PROVE Comes(w)
  BY <1>6, SameComes
<1>7. CASE StrayArrives
  BY <1>6, <1>7 DEF StrayArrives, outboxVars
<1>8. CASE \E u \in Users, s \in States : ChangeState(u, s)
  BY <1>6, <1>8 DEF ChangeState
<1>9. CASE UNCHANGED vars
  BY <1>6, <1>9 DEF vars, outboxVars
<1>10. CASE UNCHANGED outboxVars
  BY <1>6, <1>10 DEF outboxVars
<1> QED
  BY <1>1, <1>2, <1>3, <1>4, <1>5, <1>7, <1>8, <1>9, <1>10 DEF Next

\* Notifications are never withdrawn, and the submitter is always somebody.
Noted == transaction \in [state : States, submittedBy : Users]
      /\ notifications \in SUBSET ((1..MaxEvents) \X Users)

LEMMA NotifyNotes ==
  ASSUME Typed, Noted, NEW w \in Workers, Notify(w) \/ NotifyFails(w)
  PROVE  Noted' /\ notifications \subseteq notifications'
<1>1. At(w, "DELIVERING") /\ transaction' = transaction
  BY DEF Notify, NotifyFails, Delivered
<1>2. worker[w].event \in 1..MaxEvents
  BY <1>1, Lengths DEF Typed, At
<1>3. Recipients(w) \subseteq Users
  BY NotificationAssumption DEF Recipients, Noted
<1>4. PICK some \in SUBSET Recipients(w) :
        notifications' = notifications \cup NotificationsFor(w, some)
  BY DEF Notify, NotifyFails, CreateAll
<1>5. NotificationsFor(w, some) \subseteq (1..MaxEvents) \X Users
  BY <1>2, <1>3, <1>4 DEF NotificationsFor
<1> QED
  BY <1>1, <1>4, <1>5 DEF Noted

LEMMA NextNotes ==
  ASSUME Typed, Noted, [Next]_vars
  PROVE  Noted' /\ notifications \subseteq notifications'
<1>1. ASSUME NEW w \in Workers, Proceed(w)
      PROVE  Noted' /\ notifications \subseteq notifications'
  <2>1. CASE Notify(w) \/ NotifyFails(w)
    BY <2>1, NotifyNotes
  <2>2. CASE UNCHANGED notificationVars
    BY <2>2 DEF notificationVars, Noted
  <2> QED
    BY <1>1, <2>1, <2>2 DEF Proceed, NoHandler
<1>2. ASSUME NEW u \in Users, NEW s \in States, ChangeState(u, s)
      PROVE  Noted' /\ notifications \subseteq notifications'
  BY <1>2 DEF ChangeState, Noted
<1>3. CASE UNCHANGED notificationVars
  BY <1>3 DEF notificationVars, Noted
<1> QED
  BY <1>1, <1>2, <1>3 DEF Next, vars

LEMMA CompleteKept ==
  ASSUME Keeps, notifications \subseteq notifications', NEW i \in DOMAIN outbox, Complete(i)
  PROVE  Complete(i)'
BY DEF Keeps, Complete

LEMMA NotifyCompletes ==
  ASSUME Typed, Noted, NEW w \in Workers, Notify(w), Event(w).handled, Keeps
  PROVE  Complete(worker[w].event)'
<1> PICK i : i = worker[w].event
  OBVIOUS
<1>1. At(w, "DELIVERING") /\ i \in DOMAIN outbox
  BY DEF Notify, Delivered, Typed, At
<1>2. outbox'[i].delivered /\ outbox'[i].handled
  BY NotifyMoves DEF Event
<1>3. worker'[w].event = worker[w].event
  BY NotifyMoves DEF Works, Touches
<1>4. outbox'[i].type = outbox[i].type /\ outbox'[i].payload = outbox[i].payload
  BY <1>1 DEF Keeps
<1>5. \A u \in Recipients(w) : <<i, u>> \in notifications'
  BY DEF Notify, CreateAll, NotificationsFor
<1>6. CASE outbox[i].type = "transaction.state_changed" /\ outbox[i].payload = "SUBMITTED"
  BY <1>2, <1>3, <1>4, <1>5, <1>6 DEF Recipients, Event, Complete
<1>7. CASE outbox[i].type = "transaction.state_changed" /\ outbox[i].payload # "SUBMITTED"
  <2>1. transaction.submittedBy \in Users /\ <<i, transaction.submittedBy>> \in notifications'
    BY <1>5, <1>7 DEF Recipients, Event, Noted
  <2> QED
    BY <1>2, <1>3, <1>4, <1>7, <2>1 DEF Complete
<1>8. CASE outbox[i].type # "transaction.state_changed"
  BY <1>2, <1>3, <1>4, <1>8 DEF Complete
<1> QED
  BY <1>6, <1>7, <1>8

LEMMA NextDeliveries ==
  ASSUME Typed, Noted, Deliveries, [Next]_vars
  PROVE  Deliveries'
<1>1. Keeps /\ notifications \subseteq notifications'
  BY NextMoves, MovesKeeps, NextNotes DEF Noted
<1>2. \A w \in Workers : ~At(w, "IDLE") => worker[w].event \in DOMAIN outbox
  BY DEF Typed
<1>3. ASSUME NEW w \in Workers, worker'[w].at = "DELIVERING"
      PROVE  outbox'[worker'[w].event].handled
  BY <1>1, <1>2, <1>3, NextComes DEF Comes, Deliveries, Keeps, At, Event
<1>4. ASSUME NEW w \in Workers, worker'[w].at = "SUCCEEDED"
      PROVE  Complete(worker[w].event)' /\ worker'[w].event = worker[w].event
  <2>1. worker'[w].event = worker[w].event /\ (At(w, "SUCCEEDED") \/ Notify(w))
    BY <1>4, NextComes DEF Comes
  <2>2. CASE At(w, "SUCCEEDED")
    <3>1. PICK i \in DOMAIN outbox : i = worker[w].event
      BY <1>2, <2>2 DEF At
    <3>2. Complete(i)'
      BY <1>1, <2>2, <3>1, CompleteKept DEF Deliveries
    <3> QED
      BY <2>1, <3>1, <3>2 DEF Complete
  <2>3. CASE Notify(w)
    <3>1. Event(w).handled
      BY <2>3 DEF Notify, Delivered, Deliveries
    <3> QED
      BY <1>1, <2>1, <2>3, <3>1, NotifyCompletes
  <2> QED
    BY <2>1, <2>2, <2>3
<1>5. ASSUME NEW i \in DOMAIN outbox', outbox'[i].status = "DONE"
      PROVE  Complete(i)'
  <2>1. i \in DOMAIN outbox
    BY <1>1, <1>5 DEF Keeps
  <2>2. Complete(i)
    BY <1>1, <1>5, <2>1 DEF Keeps, Deliveries
  <2> QED
    BY <1>1, <2>1, <2>2, CompleteKept
<1> QED
  BY <1>3, <1>4, <1>5 DEF Deliveries, At, Event

-----------------------------------------------------------------------------
(***************************************************************************)
(* The roster.  A worker that is somewhere in its push is handling a       *)
(* roster event.  As long as pushes do not meet, one is going at most, it  *)
(* holds every name of the sheet once it has read the rows, and so does    *)
(* the write that was given up.                                            *)
(***************************************************************************)
PushType == [at : {"NO", "PEOPLE", "ROWS"} \cup Results, names : SUBSET Names]
SeenType == [since : [1..MaxEvents -> SUBSET Names], moves : 0..MaxMoves, met : BOOLEAN]

RosterTyped ==
  /\ people \in SUBSET Names /\ sheet \in SUBSET Names /\ status \in Results
  /\ push \in [Workers -> PushType]
  /\ stray \in SUBSET (SUBSET Names)
  /\ seen \in SeenType

\* A push to the sheet of which the event tells has ended.
Told(i) == outbox[i].type = "participation.roster.changed" /\ outbox[i].handled

OneGoes == \A v, w \in Workers : Going(v) /\ Going(w) => v = w
NoneIsAhead == \A w \in Workers : push[w].at \in {"PEOPLE", "ROWS", "OK"} => stray = {}
OneIsStray == \A rows, others \in stray : rows = others
StrayCovers == \A rows \in stray : sheet \subseteq rows
RowsCover == \A w \in Workers : push[w].at = "ROWS" => sheet \subseteq push[w].names
NamesCover == \A w \in Workers, i \in DOMAIN outbox : Told(i) \/ i = worker[w].event =>
  /\ push[w].at \in {"PEOPLE", "ROWS"} => seen.since[i] \subseteq push[w].names
  /\ push[w].at = "OK" => seen.since[i] \subseteq sheet
ToldCovered == \A i \in DOMAIN outbox : Told(i) => seen.since[i] \subseteq sheet \/ status # "OK"

Alone ==
  /\ OneGoes /\ NoneIsAhead /\ OneIsStray /\ StrayCovers
  /\ RowsCover /\ NamesCover /\ ToldCovered

Roster ==
  /\ \A i \in 1..MaxEvents : seen.since[i] \subseteq people
  /\ \A w \in Workers : Going(w) => Pushing(w)
  /\ ~seen.met => Alone

LEMMA SetsPush ==
  ASSUME RosterTyped, NEW w \in Workers, NEW at \in {"NO", "PEOPLE", "ROWS"} \cup Results,
         NEW names \in SUBSET Names, SetPush(w, at, names)
  PROVE  /\ push' \in [Workers -> PushType]
         /\ push'[w].at = at /\ push'[w].names = names
         /\ \A v \in Workers : v # w => push'[v] = push[v]
<1>1. [at |-> at, names |-> names] \in PushType
  BY DEF PushType
<1> QED
  BY <1>1 DEF RosterTyped, SetPush

LEMMA MayStrayTyped ==
  ASSUME RosterTyped, NEW w \in Workers, MayStray(w)
  PROVE  stray' \in SUBSET (SUBSET Names)
<1>1. push[w].names \in SUBSET Names
  BY DEF RosterTyped, PushType
<1> QED
  BY <1>1 DEF MayStray, RosterTyped

LEMMA RosterStepTyped ==
  ASSUME RosterTyped, NEW w \in Workers, RosterStep(w) \/ RosterCrash(w)
  PROVE  RosterTyped'
<1>0. push[w] \in PushType /\ people \in SUBSET Names /\ sheet \in SUBSET Names /\ seen \in SeenType
  BY DEF RosterTyped
<1>1. push[w].names \in SUBSET Names /\ push[w].at \in {"NO", "PEOPLE", "ROWS"} \cup Results
  BY <1>0 DEF PushType
<1>2. CASE ReadPeople(w)
  <2>1. push' \in [Workers -> PushType]
    BY <1>0, <1>2, SetsPush DEF ReadPeople
  <2>2. seen' = [seen EXCEPT !.met = @ \/ stray # {} \/ \E v \in Workers : Going(v)]
    BY <1>2 DEF ReadPeople
  <2>3. (seen.met \/ stray # {} \/ \E v \in Workers : Going(v)) \in BOOLEAN
    OBVIOUS
  <2>4. seen' \in SeenType
    BY <1>0, <2>2, <2>3 DEF SeenType
  <2> QED
    BY <1>2, <2>1, <2>4 DEF ReadPeople, RosterTyped
<1>3. CASE ReadRows(w)
  <2>1. MergeRosterRows(push[w].names) \in SUBSET Names
    BY <1>0, <1>1 DEF MergeRosterRows
  <2>2. push' \in [Workers -> PushType]
    BY <1>3, <2>1, SetsPush DEF ReadRows
  <2> QED
    BY <1>3, <2>2 DEF ReadRows, RosterTyped
<1>4. CASE WriteRows(w)
  <2>1. push' \in [Workers -> PushType]
    BY <1>4, SetsPush DEF WriteRows, Results
  <2> QED
    BY <1>1, <1>4, <2>1 DEF WriteRows, RosterTyped
<1>5. CASE Refuse(w)
  <2>1. push' \in [Workers -> PushType]
    BY <1>5, SetsPush DEF Refuse, Results
  <2> QED
    BY <1>5, <2>1 DEF Refuse, RosterTyped
<1>6. CASE SheetFails(w)
  <2>1. push' \in [Workers -> PushType]
    BY <1>6, SetsPush DEF SheetFails, Results
  <2>2. stray' \in SUBSET (SUBSET Names)
    BY <1>6, MayStrayTyped DEF SheetFails
  <2> QED
    BY <1>6, <2>1, <2>2 DEF SheetFails, RosterTyped
<1>7. CASE EndPush(w)
  <2>1. push' \in [Workers -> PushType]
    BY <1>7, SetsPush DEF EndPush
  <2>2. status' \in Results
    BY <1>7 DEF EndPush, Record
  <2> QED
    BY <1>7, <2>1, <2>2 DEF EndPush, RosterTyped
<1>8. CASE PushThrows(w)
  <2>1. push' \in [Workers -> PushType]
    BY <1>8, SetsPush DEF PushThrows
  <2> QED
    BY <1>8, <2>1 DEF PushThrows, RosterTyped
<1>9. CASE RosterCrash(w)
  <2>1. push' \in [Workers -> PushType]
    BY <1>9, SetsPush DEF RosterCrash
  <2>2. stray' \in SUBSET (SUBSET Names)
    BY <1>9, MayStrayTyped DEF RosterCrash
  <2> QED
    BY <1>9, <2>1, <2>2 DEF RosterCrash, RosterTyped
<1> QED
  BY <1>2, <1>3, <1>4, <1>5, <1>6, <1>7, <1>8, <1>9 DEF RosterStep

\* Another nickname, and a button pressed.
LEMMA PeopleTyped ==
  ASSUME RosterTyped, NEW n \in Names, AddNickname(n) \/ DropNickname(n)
  PROVE  /\ RosterTyped' /\ seen'.met = seen.met
         /\ \A i \in 1..MaxEvents : seen'.since[i] \subseteq seen.since[i]
         /\ (\A i \in 1..MaxEvents : seen.since[i] \subseteq people) =>
              \A i \in 1..MaxEvents : seen'.since[i] \subseteq people'
<1>1. /\ seen \in SeenType /\ seen.moves \in Nat /\ seen.moves < MaxMoves
      /\ people' \in SUBSET Names
  BY RosterAssumption DEF RosterTyped, SeenType, AddNickname, DropNickname
<1>2. seen.moves + 1 \in 0..MaxMoves
  BY <1>1, RosterAssumption
<1>3. CASE AddNickname(n)
  <2>1. seen' = [seen EXCEPT !.moves = seen.moves + 1]
    BY <1>3 DEF AddNickname
  <2>2. seen' \in SeenType /\ seen'.since = seen.since /\ seen'.met = seen.met
    BY <1>1, <1>2, <2>1 DEF SeenType
  <2> QED
    BY <1>1, <1>3, <2>2 DEF AddNickname, RosterTyped
<1>4. CASE DropNickname(n)
  <2> DEFINE since == [i \in DOMAIN seen.since |-> seen.since[i] \ {n}]
  <2>1. seen' = [seen EXCEPT !.since = since, !.moves = seen.moves + 1]
    BY <1>4 DEF DropNickname
  <2>2. since \in [1..MaxEvents -> SUBSET Names]
        /\ \A i \in 1..MaxEvents : since[i] = seen.since[i] \ {n}
    BY <1>1 DEF SeenType
  <2> HIDE DEF since
  <2>3. seen' \in SeenType /\ seen'.since = since /\ seen'.met = seen.met
    BY <1>1, <1>2, <2>1, <2>2 DEF SeenType
  <2> QED
    BY <1>1, <1>4, <2>2, <2>3 DEF DropNickname, RosterTyped
<1> QED
  BY <1>3, <1>4

LEMMA PressTyped ==
  ASSUME Typed, RosterTyped, NEW w \in Workers, PressPush(w), NEW n \in Nat, n = Len(outbox) + 1
  PROVE  /\ RosterTyped' /\ seen'.met = seen.met
         /\ \A i \in 1..MaxEvents : seen'.since[i] = IF i = n THEN people ELSE seen.since[i]
<1>1. seen \in SeenType /\ people \in SUBSET Names
  BY DEF RosterTyped
<1>2. seen' = [seen EXCEPT !.since = [seen.since EXCEPT ![n] = people]]
  BY <1>1 DEF PressPush, SeenType
<1> DEFINE since == [seen.since EXCEPT ![n] = people]
<1>3. since \in [1..MaxEvents -> SUBSET Names]
      /\ \A i \in 1..MaxEvents : since[i] = IF i = n THEN people ELSE seen.since[i]
  BY <1>1 DEF SeenType
<1> HIDE DEF since
<1>4. seen' \in SeenType /\ seen'.since = since /\ seen'.met = seen.met
  BY <1>1, <1>2, <1>3 DEF SeenType, since
<1> QED
  BY <1>3, <1>4 DEF PressPush, RosterTyped

LEMMA StrayTyped ==
  ASSUME RosterTyped, StrayArrives
  PROVE  /\ RosterTyped' /\ seen'.since = seen.since
         /\ seen'.met = (seen.met \/ \E w \in Workers : Going(w))
<1>1. seen \in SeenType /\ seen' = [seen EXCEPT !.met = @ \/ \E w \in Workers : Going(w)]
  BY DEF RosterTyped, StrayArrives
<1>2. (seen.met \/ \E w \in Workers : Going(w)) \in BOOLEAN
  OBVIOUS
<1>3. /\ seen' \in SeenType /\ seen'.since = seen.since
      /\ seen'.met = (seen.met \/ \E w \in Workers : Going(w))
  BY <1>1, <1>2 DEF SeenType
<1>4. sheet' \in SUBSET Names /\ stray' \in SUBSET (SUBSET Names)
  BY DEF StrayArrives, RosterTyped
<1> QED
  BY <1>3, <1>4 DEF StrayArrives, RosterTyped

LEMMA NextRosterTyped ==
  ASSUME Typed, RosterTyped, [Next]_vars
  PROVE  RosterTyped'
<1>1. CASE UNCHANGED rosterVars
  BY <1>1 DEF rosterVars, RosterTyped
<1>2. ASSUME NEW w \in Workers, RosterStep(w) \/ RosterCrash(w) PROVE RosterTyped'
  BY <1>2, RosterStepTyped
<1>3. ASSUME NEW w \in Workers, PressPush(w) PROVE RosterTyped'
  <2>1. PICK n \in Nat : n = Len(outbox) + 1
    BY Lengths
  <2> QED
    BY <1>3, <2>1, PressTyped
<1>4. ASSUME NEW n \in Names, AddNickname(n) \/ DropNickname(n) PROVE RosterTyped'
  BY <1>4, PeopleTyped
<1>5. CASE StrayArrives
  BY <1>5, StrayTyped
<1>6. ASSUME NEW w \in Workers, Proceed(w) PROVE RosterTyped'
  BY <1>1, <1>2, <1>6 DEF Proceed, NoHandler
<1> QED
  BY <1>1, <1>2, <1>3, <1>4, <1>5, <1>6 DEF Next, vars

-----------------------------------------------------------------------------
(* Steps that leave the roster, the sheet and the pushes alone. *)

\* A worker in the middle of a push is handling its event, and goes on doing so.
Undisturbed ==
  /\ \A w \in Workers : Going(w) =>
       /\ Pushing(w) => Pushing(w)'
       /\ worker'[w].event = worker[w].event
  /\ \A i \in DOMAIN outbox' : Told(i)' => i \in DOMAIN outbox /\ Told(i)

LEMMA CalmRoster ==
  ASSUME Typed, Roster, Undisturbed, UNCHANGED rosterVars
  PROVE  Roster'
<1>1. \A w \in Workers : Going(w) => Going(w)' /\ worker[w].event \in DOMAIN outbox
  BY DEF Roster, Typed, Pushing, At, Going, rosterVars
<1>2. \A w \in Workers : Going(w)' => Going(w) /\ Pushing(w)'
  BY DEF Roster, Undisturbed, Going, rosterVars
<1>3. \A w \in Workers : push[w].at \in {"PEOPLE", "ROWS", "OK"} => Going(w)
  BY DEF Going
<1>4. ASSUME ~seen.met
      PROVE  Alone'
  <2>1. Alone
    BY <1>4 DEF Roster
  <2>2. (OneGoes /\ NoneIsAhead /\ OneIsStray /\ StrayCovers /\ RowsCover)'
    BY <2>1, <1>2 DEF Alone, OneGoes, NoneIsAhead, OneIsStray, StrayCovers, RowsCover, rosterVars
  <2>3. NamesCover'
    BY <2>1, <1>1, <1>3 DEF Alone, NamesCover, Undisturbed, rosterVars
  <2>4. ToldCovered'
    BY <2>1 DEF Alone, ToldCovered, Undisturbed, rosterVars
  <2> QED
    BY <2>2, <2>3, <2>4 DEF Alone
<1> QED
  BY <1>2, <1>4 DEF Roster, rosterVars

\* Whoever moves is not in the middle of a push, and ends no push.
LEMMA MoverUndisturbed ==
  ASSUME Typed, Keeps, NEW v \in Workers, ~Pushing(v), Roster,
         \A w \in Workers : w # v => worker'[w] = worker[w],
         \A i \in DOMAIN outbox' : outbox'[i].type = "participation.roster.changed" /\ outbox'[i].handled =>
           i \in DOMAIN outbox /\ outbox[i].handled
  PROVE  Undisturbed
<1>1. ASSUME NEW w \in Workers, Going(w)
      PROVE  (Pushing(w) => Pushing(w)') /\ worker'[w].event = worker[w].event
  <2>1. w # v
    BY <1>1 DEF Roster
  <2>2. worker'[w] = worker[w]
    BY <2>1
  <2>3. ASSUME Pushing(w) PROVE outbox'[worker[w].event].type = outbox[worker[w].event].type
    BY <2>3 DEF Keeps, Typed, Pushing, At
  <2> QED
    BY <2>2, <2>3 DEF Pushing, At, NeedsHandler, Event
<1>2. ASSUME NEW i \in DOMAIN outbox', Told(i)'
      PROVE  i \in DOMAIN outbox /\ Told(i)
  BY <1>2 DEF Keeps, Told
<1> QED
  BY <1>1, <1>2 DEF Undisturbed

\* The same if all workers stay where they are.
LEMMA RestUndisturbed ==
  ASSUME Typed, Keeps,
         \A w \in Workers : worker'[w].at = worker[w].at /\ worker'[w].event = worker[w].event,
         \A i \in DOMAIN outbox' : outbox'[i].type = "participation.roster.changed" /\ outbox'[i].handled =>
           i \in DOMAIN outbox /\ outbox[i].handled
  PROVE  Undisturbed
<1>1. ASSUME NEW w \in Workers, Pushing(w)
      PROVE  Pushing(w)'
  <2>1. outbox'[worker[w].event].type = outbox[worker[w].event].type
    BY <1>1 DEF Keeps, Typed, Pushing, At
  <2> QED
    BY <1>1, <2>1 DEF Pushing, At, NeedsHandler, Event
<1>2. ASSUME NEW i \in DOMAIN outbox', Told(i)'
      PROVE  i \in DOMAIN outbox /\ Told(i)
  BY <1>2 DEF Keeps, Told
<1> QED
  BY <1>1, <1>2 DEF Undisturbed

\* An event is handled by its handler only: claims, renewals, marks and time leave that alone.
LEMMA SameHandled ==
  ASSUME Typed, Keeps, DOMAIN outbox' = DOMAIN outbox,
         \A i \in DOMAIN outbox : outbox'[i].handled = outbox[i].handled
  PROVE  \A i \in DOMAIN outbox' : outbox'[i].type = "participation.roster.changed" /\ outbox'[i].handled =>
           i \in DOMAIN outbox /\ outbox[i].handled
OBVIOUS

LEMMA HandlesNothing ==
  ASSUME Typed, NEW w \in Workers,
         ClaimInBatch(w) \/ ClaimInline(w) \/ InlineTooLate(w) \/ Throws(w) \/ Mark(w) \/ Heartbeat(w)
  PROVE  DOMAIN outbox' = DOMAIN outbox /\ \A i \in DOMAIN outbox : outbox'[i].handled = outbox[i].handled
<1>1. \A i \in DOMAIN outbox : outbox[i] \in EventType
  BY Lengths
<1>2. CASE outbox' = outbox
  BY <1>2
<1>3. CASE Heartbeat(w) /\ outbox' # outbox
  <2>1. outbox' = [outbox EXCEPT ![worker[w].event].left = Lease]
    BY <1>3 DEF Heartbeat
  <2> QED
    BY <1>1, <2>1 DEF EventType
<1>4. ASSUME NEW i \in DOMAIN outbox, NEW inline, Claim(w, i, inline)
      PROVE  DOMAIN outbox' = DOMAIN outbox /\ \A j \in DOMAIN outbox : outbox'[j].handled = outbox[j].handled
  <2>1. outbox' = [outbox EXCEPT ![i] =
          [@ EXCEPT !.status = "PROCESSING", !.attempts = outbox[i].attempts + 1,
                    !.token = outbox[i].attempts + 1, !.left = Lease]]
    BY <1>4 DEF Claim
  <2> QED
    BY <1>1, <2>1 DEF EventType
<1>5. CASE ClaimInBatch(w)
  BY <1>4, <1>5 DEF ClaimInBatch
<1>6. CASE ClaimInline(w)
  <2>1. Claim(w, worker[w].event, TRUE)
    BY <1>6 DEF ClaimInline
  <2>2. worker[w].event \in DOMAIN outbox
    BY <2>1 DEF Typed, Claim, At
  <2> QED
    BY <1>4, <2>1, <2>2
<1>7. CASE Mark(w) /\ outbox' # outbox
  <2>1. CASE outbox' = [outbox EXCEPT ![worker[w].event] =
               [@ EXCEPT !.status = "DONE", !.token = NoToken, !.left = 0]]
    BY <1>1, <2>1 DEF EventType
  <2>2. CASE outbox' = [outbox EXCEPT ![worker[w].event] =
               [@ EXCEPT !.status = IF worker[w].token >= MaxAttempts THEN "DEAD" ELSE "FAILED",
                         !.token = NoToken, !.left = 0, !.wait = 1]]
    BY <1>1, <2>2 DEF EventType
  <2> QED
    BY <1>7, <2>1, <2>2 DEF Mark, MarkSuccess, MarkFailure
<1> QED
  BY <1>2, <1>3, <1>5, <1>6, <1>7 DEF InlineTooLate, Throws

\* A worker that claims, comes too late, fails, marks, delivers or handles another event.
LEMMA CalmProceed ==
  ASSUME Typed, Roster, Keeps, NEW w \in Workers, UNCHANGED rosterVars,
         \/ ClaimInBatch(w) \/ ClaimInline(w) \/ InlineTooLate(w) \/ Fails(w) \/ Mark(w)
         \/ NoHandler(w) \/ Notify(w) \/ NotifyFails(w)
  PROVE  Roster'
<1>1. Takes(w) \/ Works(w) \/ Ends(w)
  BY ClaimingTakes, LeaveEnds, MarkEnds, ThrowWorks, HandledWorks, NotifyMoves DEF Fails, NoHandler
<1>2. \A v \in Workers : v # w => worker'[v] = worker[v]
  BY <1>1, Others
<1>3. ~Pushing(w)
  <2>1. CASE ClaimInBatch(w) \/ ClaimInline(w)
    BY <2>1 DEF ClaimInBatch, ClaimInline, Claim, Pushing, At
  <2>2. CASE InlineTooLate(w) \/ Fails(w) \/ Mark(w) \/ NoHandler(w)
    BY <2>2 DEF InlineTooLate, Fails, Mark, NoHandler, Pushing, At
  <2>3. CASE Notify(w) \/ NotifyFails(w)
    BY <2>3, NotifyMoves DEF Pushing, At
  <2> QED
    BY <2>1, <2>2, <2>3
<1>4. \A i \in DOMAIN outbox' : outbox'[i].type = "participation.roster.changed" /\ outbox'[i].handled =>
        i \in DOMAIN outbox /\ outbox[i].handled
  <2>1. CASE ClaimInBatch(w) \/ ClaimInline(w) \/ InlineTooLate(w) \/ Fails(w) \/ Mark(w)
    BY <2>1, HandlesNothing, SameHandled DEF Fails
  <2>2. CASE NoHandler(w)
    <3>1. DOMAIN outbox' = DOMAIN outbox
      BY <2>2, HandledWorks, Lengths, LenProperties DEF NoHandler, Works, Touches
    <3>2. Event(w).type # "participation.roster.changed"
      BY <2>2 DEF NoHandler, NeedsHandler, RequiresHandler
    <3>3. \A i \in DOMAIN outbox : i # worker[w].event => outbox'[i] = outbox[i]
      BY <2>2, HandledWorks DEF NoHandler
    <3> QED
      BY <3>1, <3>2, <3>3 DEF Keeps, Event
  <2>3. CASE Notify(w) \/ NotifyFails(w)
    <3>1. DOMAIN outbox' = DOMAIN outbox
      BY <2>3, NotifyMoves, Lengths, LenProperties DEF Works, Touches
    <3> QED
      BY <2>3, <3>1, NotifyMoves, SameHandled DEF Event
  <2> QED
    BY <2>1, <2>2, <2>3
<1> QED
  BY <1>2, <1>3, <1>4, MoverUndisturbed, CalmRoster

LEMMA CalmNext ==
  ASSUME Typed, Roster, Keeps, UNCHANGED rosterVars,
         \/ \E w \in Workers : Heartbeat(w)
         \/ \E u \in Users, s \in States : ChangeState(u, s)
         \/ Tick
         \/ UNCHANGED outboxVars
  PROVE  Roster'
<1>1. ASSUME NEW w \in Workers, Heartbeat(w) PROVE Undisturbed
  <2>0. worker \in [Workers -> WorkerType]
        /\ (worker' = worker \/ worker' = [worker EXCEPT ![w].beating = FALSE])
    BY <1>1 DEF Heartbeat, Typed
  <2>1. \A v \in Workers : worker'[v].at = worker[v].at /\ worker'[v].event = worker[v].event
    BY <2>0 DEF WorkerType
  <2> QED
    BY <1>1, <2>1, HandlesNothing, SameHandled, RestUndisturbed
<1>2. ASSUME NEW u \in Users, NEW s \in States, ChangeState(u, s) PROVE Undisturbed
  <2>1. worker' = worker
    BY <1>2 DEF ChangeState
  <2>2. Len(outbox) \in Nat /\ DOMAIN outbox = 1..Len(outbox) /\ outbox \in Seq(EventType)
    BY Lengths DEF Typed
  <2>3. outbox' = Append(outbox, NewEvent("transaction.state_changed", s))
    BY <1>2 DEF ChangeState, Enqueue
  <2>4. ASSUME NEW i \in DOMAIN outbox', outbox'[i].handled
        PROVE  i \in DOMAIN outbox /\ outbox[i].handled
    BY <2>2, <2>3, <2>4 DEF NewEvent
  <2> QED
    BY <2>1, <2>4, RestUndisturbed
<1>3. ASSUME Tick PROVE Undisturbed
  <2>1. Ages
    BY <1>3, TickAges
  <2>2. DOMAIN outbox' = DOMAIN outbox /\ \A i \in DOMAIN outbox : outbox'[i].handled = outbox[i].handled
    BY <2>1, Lengths, LenProperties, AgedTyped DEF Ages
  <2>3. ASSUME NEW v \in Workers
        PROVE  worker'[v].at = worker[v].at /\ worker'[v].event = worker[v].event
    <3>1. worker[v] \in WorkerType /\ worker'[v] = [worker[v] EXCEPT !.lapsed = @ \/ RunsOut(v)]
      BY <2>1 DEF Ages, Typed
    <3> QED
      BY <3>1 DEF WorkerType
  <2> QED
    BY <2>2, <2>3, SameHandled, RestUndisturbed
<1>4. ASSUME UNCHANGED outboxVars PROVE Undisturbed
  BY <1>4, RestUndisturbed DEF outboxVars
<1> QED
  BY <1>1, <1>2, <1>3, <1>4, CalmRoster

-----------------------------------------------------------------------------
(* Steps of the roster, the people and the writes that were given up. *)

\* Worker w goes from one stage of its push to another; it keeps its event.
LEMMA StageRoster ==
  ASSUME RosterTyped, Roster, UNCHANGED <<outboxVars, people>>, seen'.since = seen.since,
         NEW w \in Workers, Pushing(w),
         \A v \in Workers : v # w => push'[v] = push[v],
         ~seen'.met => Alone'
  PROVE  Roster'
<1>1. ASSUME NEW v \in Workers, Going(v)' PROVE Pushing(v)'
  <2>1. Pushing(v)' <=> Pushing(v)
    BY DEF outboxVars, Pushing, At, NeedsHandler, Event
  <2> QED
    BY <1>1, <2>1 DEF Roster, Going
<1> QED
  BY <1>1 DEF Roster

LEMMA ReadPeopleRoster ==
  ASSUME Typed, RosterTyped, Roster, NEW w \in Workers, ReadPeople(w)
  PROVE  Roster'
<1>1. seen \in SeenType /\ people \in SUBSET Names
  BY DEF RosterTyped
<1>2. Pushing(w) /\ SetPush(w, "PEOPLE", people) /\ UNCHANGED <<outboxVars, people, sheet, status, stray>>
  BY DEF ReadPeople, Reached
<1>3. /\ push'[w].at = "PEOPLE" /\ push'[w].names = people
      /\ \A v \in Workers : v # w => push'[v] = push[v]
  BY <1>1, <1>2, SetsPush
<1>4. /\ seen'.since = seen.since
      /\ seen'.met = (seen.met \/ stray # {} \/ \E v \in Workers : Going(v))
  BY <1>1 DEF ReadPeople, SeenType
<1>5. ASSUME ~seen'.met
      PROVE  Alone'
  <2>1. Alone /\ stray = {} /\ \A v \in Workers : ~Going(v)
    BY <1>4, <1>5 DEF Roster
  <2>2. \A v \in Workers : push'[v].at # "NO" => v = w
    BY <1>3, <2>1 DEF Going
  <2>3. \A i \in DOMAIN outbox' : Told(i)' <=> Told(i)
    BY <1>2 DEF Told, outboxVars
  <2>4. OneGoes'
    BY <2>2 DEF OneGoes, Going
  <2>5. NoneIsAhead' /\ OneIsStray' /\ StrayCovers'
    BY <1>2, <2>1 DEF NoneIsAhead, OneIsStray, StrayCovers
  <2>6. RowsCover'
    BY <1>3, <2>2 DEF RowsCover
  <2>7. NamesCover'
    <3>1. \A i \in DOMAIN outbox : seen.since[i] \subseteq people
      BY Lengths DEF Roster
    <3> QED
      BY <1>2, <1>3, <1>4, <2>2, <3>1 DEF NamesCover, outboxVars
  <2>8. ToldCovered'
    BY <1>2, <1>4, <2>1, <2>3 DEF Alone, ToldCovered, outboxVars
  <2> QED
    BY <2>4, <2>5, <2>6, <2>7, <2>8 DEF Alone
<1> QED
  BY <1>2, <1>3, <1>4, <1>5, StageRoster

\* From here on nobody else is going, or two pushes have met.
LEMMA OnlyOne ==
  ASSUME Roster, ~seen.met, NEW w \in Workers, Going(w)
  PROVE  Alone /\ \A v \in Workers : v # w => push[v].at = "NO"
BY DEF Roster, Alone, OneGoes, Going

LEMMA ReadRowsRoster ==
  ASSUME RosterTyped, Roster, NEW w \in Workers, ReadRows(w)
  PROVE  Roster'
<1>0. push[w].names \in SUBSET Names /\ sheet \in SUBSET Names
  BY DEF RosterTyped, PushType
<1>1. /\ Pushing(w) /\ push[w].at = "PEOPLE" /\ SetPush(w, "ROWS", push[w].names \cup sheet)
      /\ UNCHANGED <<outboxVars, people, sheet, status, stray, seen>>
  BY DEF ReadRows, Reached, MergeRosterRows
<1>2. /\ push'[w].at = "ROWS" /\ push'[w].names = push[w].names \cup sheet
      /\ \A v \in Workers : v # w => push'[v] = push[v]
  BY <1>0, <1>1, SetsPush
<1>3. ASSUME ~seen.met
      PROVE  Alone'
  <2>1. Alone /\ \A v \in Workers : v # w => push[v].at = "NO"
    BY <1>1, <1>3, OnlyOne DEF Going
  <2>2. \A v \in Workers : push'[v].at # "NO" => v = w
    BY <1>2, <2>1
  <2>3. \A i \in DOMAIN outbox' : Told(i)' <=> Told(i)
    BY <1>1 DEF Told, outboxVars
  <2>4. OneGoes'
    BY <2>2 DEF OneGoes, Going
  <2>5. NoneIsAhead' /\ OneIsStray' /\ StrayCovers'
    BY <1>1, <2>1 DEF Alone, NoneIsAhead, OneIsStray, StrayCovers
  <2>6. RowsCover'
    BY <1>1, <1>2, <2>2 DEF RowsCover
  <2>7. NamesCover'
    <3>1. \A i \in DOMAIN outbox : Told(i) \/ i = worker[w].event => seen.since[i] \subseteq push'[w].names
      BY <1>1, <1>2, <2>1 DEF Alone, NamesCover
    <3> QED
      BY <1>1, <1>2, <2>2, <2>3, <3>1 DEF NamesCover, outboxVars
  <2>8. ToldCovered'
    BY <1>1, <2>1, <2>3 DEF Alone, ToldCovered, outboxVars
  <2> QED
    BY <2>4, <2>5, <2>6, <2>7, <2>8 DEF Alone
<1> QED
  BY <1>1, <1>2, <1>3, StageRoster

LEMMA WriteRowsRoster ==
  ASSUME RosterTyped, Roster, NEW w \in Workers, WriteRows(w)
  PROVE  Roster' /\ (~seen'.met => sheet \subseteq sheet')
<1>1. /\ Pushing(w) /\ push[w].at = "ROWS" /\ SetPush(w, "OK", {}) /\ sheet' = push[w].names
      /\ UNCHANGED <<outboxVars, people, status, stray, seen>>
  BY DEF WriteRows, Reached
<1>2. push'[w].at = "OK" /\ \A v \in Workers : v # w => push'[v] = push[v]
  BY <1>1, SetsPush DEF Results
<1>3. ASSUME ~seen.met
      PROVE  Alone' /\ sheet \subseteq sheet'
  <2>1. Alone /\ \A v \in Workers : v # w => push[v].at = "NO"
    BY <1>1, <1>3, OnlyOne DEF Going
  <2>2. \A v \in Workers : push'[v].at # "NO" => v = w
    BY <1>2, <2>1
  <2>3. \A i \in DOMAIN outbox' : Told(i)' <=> Told(i)
    BY <1>1 DEF Told, outboxVars
  <2>4. OneGoes'
    BY <2>2 DEF OneGoes, Going
  <2>5. stray = {} /\ stray' = {} /\ sheet \subseteq sheet'
    BY <1>1, <2>1 DEF Alone, NoneIsAhead, RowsCover
  <2>6. NoneIsAhead' /\ OneIsStray' /\ StrayCovers'
    BY <2>5 DEF NoneIsAhead, OneIsStray, StrayCovers
  <2>7. RowsCover'
    BY <1>2, <2>2 DEF RowsCover
  <2>8. \A i \in DOMAIN outbox : Told(i) \/ i = worker[w].event => seen.since[i] \subseteq sheet'
    BY <1>1, <2>1 DEF Alone, NamesCover
  <2>9. NamesCover' /\ ToldCovered'
    BY <1>1, <1>2, <2>2, <2>3, <2>8 DEF NamesCover, ToldCovered, outboxVars
  <2> QED
    BY <2>4, <2>5, <2>6, <2>7, <2>9 DEF Alone
<1> QED
  BY <1>1, <1>2, <1>3, StageRoster

\* A push that is refused or fails leaves at most what it was about to write.
LEMMA FailRoster ==
  ASSUME RosterTyped, Roster, NEW w \in Workers, Refuse(w) \/ SheetFails(w)
  PROVE  Roster'
<1>1. PICK result \in {"REFUSED", "API_ERROR"} : SetPush(w, result, {})
  BY DEF Refuse, SheetFails
<1>2. /\ Pushing(w) /\ push[w].at \in {"PEOPLE", "ROWS"}
      /\ UNCHANGED <<outboxVars, people, sheet, status, seen>>
      /\ stray' = stray \/ (push[w].at = "ROWS" /\ stray' = stray \cup {push[w].names})
  BY DEF Refuse, SheetFails, Reached, MayStray
<1>3. push'[w].at = result /\ \A v \in Workers : v # w => push'[v] = push[v]
  BY <1>1, SetsPush DEF Results
<1>4. ASSUME ~seen.met
      PROVE  Alone'
  <2>1. Alone /\ stray = {} /\ \A v \in Workers : v # w => push[v].at = "NO"
    BY <1>2, <1>4, OnlyOne DEF Going, Alone, NoneIsAhead
  <2>2. \A v \in Workers : push'[v].at # "NO" => v = w
    BY <1>3, <2>1
  <2>3. \A i \in DOMAIN outbox' : Told(i)' <=> Told(i)
    BY <1>2 DEF Told, outboxVars
  <2>4. OneGoes'
    BY <2>2 DEF OneGoes, Going
  <2>5. NoneIsAhead' /\ RowsCover' /\ NamesCover'
    <3>1. \A v \in Workers : push'[v].at \notin {"PEOPLE", "ROWS", "OK"}
      BY <1>1, <1>3, <2>2
    <3> QED
      BY <3>1 DEF NoneIsAhead, RowsCover, NamesCover
  <2>6. OneIsStray' /\ StrayCovers'
    BY <1>2, <2>1 DEF OneIsStray, StrayCovers, Alone, RowsCover
  <2>7. ToldCovered'
    BY <1>2, <2>1, <2>3 DEF Alone, ToldCovered, outboxVars
  <2> QED
    BY <2>4, <2>5, <2>6, <2>7 DEF Alone
<1> QED
  BY <1>2, <1>3, <1>4, StageRoster

\* Worker w is through with its push.
LEMMA LeaveRoster ==
  ASSUME Typed, RosterTyped, Roster, Keeps, UNCHANGED <<people, seen>>, NEW w \in Workers,
         push'[w].at = "NO",
         \A v \in Workers : v # w => push'[v] = push[v] /\ worker'[v] = worker[v],
         ~seen.met => Alone'
  PROVE  Roster'
<1>1. ASSUME NEW v \in Workers, Going(v)' PROVE Pushing(v)'
  <2>1. v # w /\ worker'[v] = worker[v] /\ Pushing(v)
    BY <1>1 DEF Roster, Going
  <2>2. outbox'[worker[v].event].type = outbox[worker[v].event].type
    BY <2>1 DEF Keeps, Typed, Pushing, At
  <2> QED
    BY <2>1, <2>2 DEF Pushing, At, NeedsHandler, Event
<1> QED
  BY <1>1 DEF Roster

\* Its result is told, or nothing is: then another attempt follows, or the event is DEAD.
LEMMA EndPushRoster ==
  ASSUME Typed, RosterTyped, Roster, Keeps, NEW w \in Workers, EndPush(w)
  PROVE  Roster'
<1>1. /\ Pushing(w) /\ push[w].at \in Results /\ status' = push[w].at /\ SetPush(w, "NO", {})
      /\ IF push[w].at = "API_ERROR" THEN Throws(w) ELSE Handled(w)
      /\ UNCHANGED <<people, sheet, stray, seen>>
  BY DEF EndPush, Record
<1>2. push'[w].at = "NO" /\ \A v \in Workers : v # w => push'[v] = push[v]
  BY <1>1, SetsPush
<1>3. /\ Works(w)
      /\ \A i \in DOMAIN outbox : i # worker[w].event => outbox'[i] = outbox[i]
      /\ DOMAIN outbox' = DOMAIN outbox
  <2>1. Works(w) /\ \A i \in DOMAIN outbox : i # worker[w].event => outbox'[i] = outbox[i]
    BY <1>1, ThrowWorks, HandledWorks
  <2> QED
    BY <2>1, Lengths, LenProperties DEF Works, Touches
<1>4. \A v \in Workers : v # w => worker'[v] = worker[v]
  BY <1>3, Others
<1>5. ASSUME ~seen.met
      PROVE  Alone'
  <2>1. Alone /\ \A v \in Workers : v # w => push[v].at = "NO"
    BY <1>1, <1>5, OnlyOne DEF Going, Results
  <2>2. \A v \in Workers : push'[v].at = "NO"
    BY <1>2, <2>1
  <2>3. (OneGoes /\ NoneIsAhead /\ RowsCover /\ NamesCover)'
    BY <2>2 DEF OneGoes, Going, NoneIsAhead, RowsCover, NamesCover
  <2>4. (OneIsStray /\ StrayCovers)'
    BY <1>1, <2>1 DEF Alone, OneIsStray, StrayCovers
  <2>5. ASSUME NEW i \in DOMAIN outbox', Told(i)'
        PROVE  seen'.since[i] \subseteq sheet' \/ status' # "OK"
    <3>1. i \in DOMAIN outbox /\ (Told(i) \/ i = worker[w].event)
      BY <1>3, <2>5 DEF Told
    <3>2. push[w].at = "OK" => seen.since[i] \subseteq sheet
      BY <2>1, <3>1 DEF Alone, NamesCover
    <3> QED
      BY <1>1, <3>2
  <2>6. ToldCovered'
    BY <2>5 DEF ToldCovered
  <2> QED
    BY <2>3, <2>4, <2>6 DEF Alone
<1> QED
  BY <1>1, <1>2, <1>4, <1>5, LeaveRoster

LEMMA BreakRoster ==
  ASSUME Typed, RosterTyped, Roster, Keeps, NEW w \in Workers, PushThrows(w) \/ RosterCrash(w)
  PROVE  Roster'
<1>1. /\ SetPush(w, "NO", {}) /\ outbox' = outbox
      /\ \A v \in Workers : v # w => worker'[v] = worker[v]
      /\ UNCHANGED <<people, sheet, status, seen>>
  <2>1. CASE PushThrows(w)
    BY <2>1, ThrowWorks, Others DEF PushThrows
  <2>2. CASE RosterCrash(w)
    BY <2>2, LeaveEnds, Others DEF RosterCrash
  <2> QED
    BY <2>1, <2>2
<1>2. push'[w].at = "NO" /\ \A v \in Workers : v # w => push'[v] = push[v]
  BY <1>1, SetsPush
<1>3. stray' = stray \/ (push[w].at = "ROWS" /\ stray' = stray \cup {push[w].names})
  BY DEF PushThrows, RosterCrash, MayStray
<1>4. ASSUME ~seen.met
      PROVE  Alone'
  <2>1. Alone
    BY <1>4 DEF Roster
  <2>2. \A v \in Workers : Going(v)' => Going(v) /\ v # w /\ push'[v] = push[v]
    BY <1>2 DEF Going
  <2>3. OneGoes'
    BY <2>1, <2>2 DEF Alone, OneGoes
  <2>4. NoneIsAhead'
    <3>1. CASE stray' = stray
      BY <1>2, <2>1, <3>1 DEF Alone, NoneIsAhead
    <3>2. CASE push[w].at = "ROWS"
      <4>1. \A v \in Workers : push'[v].at = "NO"
        BY <1>2, <1>4, <3>2, OnlyOne DEF Going
      <4> QED
        BY <4>1 DEF NoneIsAhead
    <3> QED
      BY <1>3, <3>1, <3>2
  <2>5. OneIsStray' /\ StrayCovers'
    BY <1>1, <1>3, <2>1 DEF Alone, OneIsStray, StrayCovers, NoneIsAhead, RowsCover
  <2>6. RowsCover'
    BY <1>1, <1>2, <2>1 DEF Alone, RowsCover
  <2>7. \A i \in DOMAIN outbox' : Told(i)' <=> Told(i)
    BY <1>1 DEF Told
  <2>8. NamesCover'
    BY <1>1, <1>2, <2>1, <2>7 DEF Alone, NamesCover
  <2>9. ToldCovered'
    BY <1>1, <2>1, <2>7 DEF Alone, ToldCovered
  <2> QED
    BY <2>3, <2>4, <2>5, <2>6, <2>8, <2>9 DEF Alone
<1> QED
  BY <1>1, <1>2, <1>4, LeaveRoster

\* Somebody gets or loses a nickname; the pushes hold what they hold.
LEMMA PeopleRoster ==
  ASSUME Typed, RosterTyped, Roster, NEW n \in Names, AddNickname(n) \/ DropNickname(n),
         UNCHANGED outboxVars
  PROVE  Roster'
<1>1. /\ UNCHANGED <<sheet, status, push, stray>> /\ seen'.met = seen.met
      /\ \A i \in 1..MaxEvents : seen'.since[i] \subseteq seen.since[i]
      /\ \A i \in 1..MaxEvents : seen'.since[i] \subseteq people'
  <2>1. UNCHANGED <<sheet, status, push, stray>>
    BY DEF AddNickname, DropNickname
  <2> QED
    BY <2>1, PeopleTyped DEF Roster
<1>2. \A i \in DOMAIN outbox : i \in 1..MaxEvents
  BY Lengths
<1>3. \A w \in Workers : Going(w)' => Pushing(w)'
  BY <1>1 DEF Roster, Going, outboxVars, Pushing, At, NeedsHandler, Event
<1>4. ASSUME ~seen.met
      PROVE  Alone'
  <2>1. Alone
    BY <1>4 DEF Roster
  <2>2. (OneGoes /\ NoneIsAhead /\ OneIsStray /\ StrayCovers /\ RowsCover)'
    BY <1>1, <2>1 DEF Alone, OneGoes, Going, NoneIsAhead, OneIsStray, StrayCovers, RowsCover
  <2>3. \A i \in DOMAIN outbox' : i \in DOMAIN outbox /\ (Told(i)' <=> Told(i))
    BY DEF Told, outboxVars
  <2>4. NamesCover' /\ ToldCovered'
    BY <1>1, <1>2, <2>1, <2>3 DEF Alone, NamesCover, ToldCovered, outboxVars
  <2> QED
    BY <2>2, <2>4 DEF Alone
<1> QED
  BY <1>1, <1>3, <1>4 DEF Roster

\* A new event has told nothing, and no push has been started for it.
LEMMA PressRoster ==
  ASSUME Typed, RosterTyped, Roster, Keeps, NEW w \in Workers, PressPush(w)
  PROVE  Roster'
<1>1. PICK n \in Nat : n = Len(outbox) + 1
  BY Lengths
<1>2. /\ seen'.met = seen.met
      /\ \A i \in 1..MaxEvents : seen'.since[i] = IF i = n THEN people ELSE seen.since[i]
  BY <1>1, PressTyped
<1>3. /\ UNCHANGED <<people, sheet, status, push, stray>> /\ At(w, "IDLE")
      /\ \A v \in Workers : v # w => worker'[v] = worker[v]
  BY DEF PressPush
<1>4. \A i \in DOMAIN outbox : i # n /\ i \in 1..MaxEvents
  BY <1>1, Lengths
<1>5. ASSUME NEW v \in Workers, Going(v)
      PROVE  v # w /\ worker'[v] = worker[v] /\ Pushing(v)' /\ worker[v].event \in DOMAIN outbox
  <2>1. v # w /\ worker'[v] = worker[v] /\ Pushing(v) /\ worker[v].event \in DOMAIN outbox
    BY <1>3, <1>5 DEF Roster, Pushing, At, Typed
  <2>2. outbox'[worker[v].event].type = outbox[worker[v].event].type
    BY <2>1 DEF Keeps
  <2> QED
    BY <2>1, <2>2 DEF Pushing, At, NeedsHandler, Event
<1>6. ASSUME NEW i \in DOMAIN outbox', Told(i)' \/ i \in DOMAIN outbox
      PROVE  i \in DOMAIN outbox /\ (Told(i)' => Told(i)) /\ seen'.since[i] = seen.since[i]
  <2>1. i \in DOMAIN outbox
    BY <1>6 DEF Keeps, Told
  <2>2. outbox'[i] = outbox[i]
    BY <2>1, PressMoves DEF Grows
  <2> QED
    BY <1>2, <1>4, <2>1, <2>2 DEF Told
<1>7. ASSUME ~seen.met
      PROVE  Alone'
  <2>1. Alone
    BY <1>7 DEF Roster
  <2>2. (OneGoes /\ NoneIsAhead /\ OneIsStray /\ StrayCovers /\ RowsCover)'
    BY <1>3, <2>1 DEF Alone, OneGoes, Going, NoneIsAhead, OneIsStray, StrayCovers, RowsCover
  <2>3. ToldCovered'
    BY <1>3, <1>6, <2>1 DEF Alone, ToldCovered
  <2>4. ASSUME NEW v \in Workers, NEW i \in DOMAIN outbox', Told(i)' \/ i = worker'[v].event,
               push[v].at \in {"PEOPLE", "ROWS", "OK"}
        PROVE  i \in DOMAIN outbox /\ (Told(i) \/ i = worker[v].event) /\ seen'.since[i] = seen.since[i]
    BY <1>5, <1>6, <2>4 DEF Going
  <2>5. NamesCover'
    BY <1>3, <2>1, <2>4 DEF Alone, NamesCover
  <2> QED
    BY <2>2, <2>3, <2>5 DEF Alone
<1>8. \A i \in 1..MaxEvents : seen'.since[i] \subseteq people'
  BY <1>2, <1>3 DEF Roster
<1>9. \A v \in Workers : Going(v)' => Pushing(v)'
  BY <1>3, <1>5 DEF Going
<1> QED
  BY <1>2, <1>7, <1>8, <1>9 DEF Roster

LEMMA StrayRoster ==
  ASSUME Typed, RosterTyped, Roster, StrayArrives
  PROVE  Roster' /\ (~seen'.met => sheet \subseteq sheet')
<1>1. PICK rows \in stray : sheet' = rows /\ stray' = stray \ {rows}
  BY DEF StrayArrives
<1>2. /\ UNCHANGED <<outboxVars, people, status, push>> /\ seen'.since = seen.since
      /\ seen'.met = (seen.met \/ \E w \in Workers : Going(w))
  BY StrayTyped DEF StrayArrives
<1>3. ASSUME ~seen'.met
      PROVE  Alone' /\ sheet \subseteq sheet'
  <2>1. Alone /\ \A w \in Workers : push[w].at = "NO"
    BY <1>2, <1>3 DEF Roster, Going
  <2>2. stray' = {} /\ sheet \subseteq sheet'
    BY <1>1, <2>1 DEF Alone, OneIsStray, StrayCovers
  <2>3. (OneGoes /\ NoneIsAhead /\ RowsCover /\ NamesCover)'
    BY <1>2, <2>1 DEF OneGoes, Going, NoneIsAhead, RowsCover, NamesCover
  <2>4. OneIsStray' /\ StrayCovers'
    BY <2>2 DEF OneIsStray, StrayCovers
  <2>5. \A i \in DOMAIN outbox' : i \in DOMAIN outbox /\ (Told(i)' <=> Told(i))
    BY <1>2 DEF Told, outboxVars
  <2>6. ToldCovered'
    BY <1>2, <2>1, <2>2, <2>5 DEF Alone, ToldCovered
  <2> QED
    BY <2>2, <2>3, <2>4, <2>6 DEF Alone
<1>4. \A w \in Workers : Going(w)' => Pushing(w)'
  BY <1>2 DEF Roster, Going, outboxVars, Pushing, At, NeedsHandler, Event
<1> QED
  BY <1>2, <1>3, <1>4 DEF Roster

\* The sheet loses no name in a step after which no two pushes have met.
LEMMA NextRoster ==
  ASSUME Typed, RosterTyped, Roster, Keeps, [Next]_vars
  PROVE  Roster' /\ (~seen'.met => sheet \subseteq sheet')
<1> DEFINE Goal == Roster' /\ (~seen'.met => sheet \subseteq sheet')
<1>1. ASSUME NEW w \in Workers, RosterStep(w) PROVE Goal
  <2>1. CASE WriteRows(w)
    BY <2>1, WriteRowsRoster
  <2>2. CASE ReadPeople(w) \/ ReadRows(w) \/ Refuse(w) \/ SheetFails(w)
    <3>1. sheet' = sheet
      BY <2>2 DEF ReadPeople, ReadRows, Refuse, SheetFails
    <3> QED
      BY <2>2, <3>1, ReadPeopleRoster, ReadRowsRoster, FailRoster
  <2>3. CASE EndPush(w) \/ PushThrows(w)
    <3>1. sheet' = sheet
      BY <2>3 DEF EndPush, PushThrows
    <3> QED
      BY <2>3, <3>1, EndPushRoster, BreakRoster
  <2> QED
    BY <1>1, <2>1, <2>2, <2>3 DEF RosterStep
<1>2. ASSUME NEW w \in Workers, Proceed(w) PROVE Goal
  <2>1. CASE RosterStep(w)
    BY <1>1, <2>1
  <2>2. CASE /\ UNCHANGED rosterVars
             /\ \/ ClaimInBatch(w) \/ ClaimInline(w) \/ InlineTooLate(w) \/ Fails(w) \/ Mark(w)
                \/ NoHandler(w) \/ Notify(w) \/ NotifyFails(w)
    <3>1. sheet' = sheet
      BY <2>2 DEF rosterVars
    <3> QED
      BY <2>2, <3>1, CalmProceed
  <2> QED
    BY <1>2, <2>1, <2>2 DEF Proceed, NoHandler
<1>3. ASSUME NEW w \in Workers, PressPush(w) PROVE Goal
  BY <1>3, PressRoster DEF PressPush
<1>4. ASSUME NEW w \in Workers, RosterCrash(w) PROVE Goal
  BY <1>4, BreakRoster DEF RosterCrash
<1>5. ASSUME NEW n \in Names, AddNickname(n) \/ DropNickname(n), UNCHANGED outboxVars PROVE Goal
  <2>1. sheet' = sheet
    BY <1>5 DEF AddNickname, DropNickname
  <2> QED
    BY <1>5, <2>1, PeopleRoster
<1>6. CASE StrayArrives
  BY <1>6, StrayRoster
<1>7. CASE /\ UNCHANGED rosterVars
           /\ \/ \E w \in Workers : Heartbeat(w)
              \/ \E u \in Users, s \in States : ChangeState(u, s)
              \/ Tick
              \/ UNCHANGED outboxVars
  <2>1. sheet' = sheet
    BY <1>7 DEF rosterVars
  <2> QED
    BY <1>7, <2>1, CalmNext
<1>8. CASE UNCHANGED vars
  BY <1>7, <1>8 DEF vars
<1> QED
  BY <1>2, <1>3, <1>4, <1>5, <1>6, <1>7, <1>8 DEF Next

-----------------------------------------------------------------------------
(***************************************************************************)
(* The inductive invariant and what follows from it.                       *)
(***************************************************************************)
Inv == Typed /\ Claims /\ Bounded /\ Noted /\ Deliveries /\ RosterTyped /\ Roster

LEMMA InitInv == Init => Inv
<1> SUFFICES ASSUME Init PROVE Inv
  OBVIOUS
<1>1. /\ outbox = <<>> /\ DOMAIN outbox = {} /\ Len(outbox) = 0 /\ faults = 0
      /\ worker = [w \in Workers |-> Idle]
  BY DEF Init, OutboxInit
<1>2. \A w \in Workers : worker[w] = Idle /\ At(w, "IDLE") /\ ~Busy(w) /\ ~worker[w].beating
  BY <1>1 DEF At, Busy, Idle
<1>3. Typed
  BY <1>1, <1>2, IdleTyped, OutboxAssumption DEF Typed
<1>4. Claims /\ Bounded /\ Deliveries
  BY <1>1, <1>2 DEF Claims, Held, Dated, Apart, Latest, Live, Bounded, Deliveries, At
<1>5. Noted
  BY DEF Noted, Init, NotificationInit, States
<1>6. RosterTyped
  <2>1. NoPush \in PushType /\ "OK" \in Results
    BY DEF NoPush, PushType, Results
  <2>2. [since |-> [i \in 1..MaxEvents |-> {}], moves |-> 0, met |-> FALSE] \in SeenType
    BY RosterAssumption DEF SeenType
  <2> QED
    BY <2>1, <2>2 DEF RosterTyped, Init, RosterInit
<1>7. Roster
  <2>1. \A w \in Workers : push[w].at = "NO"
    BY DEF Init, RosterInit, NoPush
  <2>2. /\ stray = {} /\ sheet = {} /\ \A i \in 1..MaxEvents : seen.since[i] = {}
    BY DEF Init, RosterInit
  <2> QED
    BY <1>1, <2>1, <2>2 DEF Roster, Alone, OneGoes, Going, NoneIsAhead, OneIsStray, StrayCovers,
       RowsCover, NamesCover, ToldCovered
<1> QED
  BY <1>3, <1>4, <1>5, <1>6, <1>7 DEF Inv

LEMMA NextInv == Inv /\ [Next]_vars => Inv'
<1> SUFFICES ASSUME Inv, [Next]_vars PROVE Inv'
  OBVIOUS
<1>1. Moves
  BY NextMoves DEF Inv, Noted
<1>2. Typed' /\ Claims' /\ Bounded' /\ Keeps
  BY <1>1, MovesTyped, MovesClaims, MovesBounded, MovesKeeps DEF Inv
<1>3. Noted' /\ Deliveries'
  BY NextNotes, NextDeliveries DEF Inv
<1>4. RosterTyped' /\ Roster'
  BY <1>2, NextRosterTyped, NextRoster DEF Inv
<1> QED
  BY <1>2, <1>3, <1>4 DEF Inv

LEMMA InvAlways == Spec => []Inv
BY InitInv, NextInv, PTL DEF Spec

LEMMA InvTypeOK == Inv => TypeOK
<1> SUFFICES ASSUME Inv PROVE TypeOK
  OBVIOUS
<1>1. ASSUME NEW i \in DOMAIN outbox
      PROVE  /\ outbox[i] \in EventType
             /\ outbox[i].attempts \in 0..(MaxAttempts + MaxFaults)
             /\ outbox[i].token \in 0..(MaxAttempts + MaxFaults)
  <2>1. outbox[i] \in EventType /\ Within(outbox[i], faults, Abandoned(i))
    BY Lengths DEF Inv, Bounded
  <2>2. outbox[i].attempts \in Nat /\ outbox[i].token \in Nat
    BY <2>1 DEF EventType
  <2>3. faults \in 0..MaxFaults /\ MaxAttempts \in Nat /\ MaxFaults \in Nat
    BY OutboxAssumption DEF Inv, Typed
  <2> QED
    BY <2>1, <2>2, <2>3 DEF Within
<1>2. ASSUME NEW i \in DOMAIN outbox
      PROVE  outbox[i] \in
       [type : EventTypes, payload : States \cup {"NONE"}, status : Statuses, attempts : 0..(MaxAttempts + MaxFaults),
        token : 0..(MaxAttempts + MaxFaults), left : 0..Lease, wait : {0, 1}, delivered : BOOLEAN, handled : BOOLEAN]
  BY <1>1 DEF EventType
<1>3. worker \in [Workers -> WorkerType] /\ faults \in 0..MaxFaults
  BY DEF Inv, Typed
<1> QED
  BY <1>2, <1>3 DEF TypeOK, WorkerType, Inv, RosterTyped, PushType, SeenType, Noted

\* Every variable has its type; in particular no event is claimed more often than
\* its attempts and the faults allow.
THEOREM TypesAreKept == Spec => []TypeOK
BY InvAlways, InvTypeOK, PTL

LEMMA InvClaims == Inv => ClaimsEndByExpiry
BY DEF Inv, Claims, Held, Live, Owns, ClaimsEndByExpiry

\* As long as its claim has not run out a worker has it: no batch, no inline call and
\* no mark of an earlier worker takes it away.
THEOREM ClaimsAlwaysEndByExpiry == Spec => []ClaimsEndByExpiry
BY InvAlways, InvClaims, PTL

LEMMA InvDelivered == Inv => DoneMeansDelivered
BY DEF Inv, Deliveries, Complete, DoneMeansDelivered

\* What is DONE was handled, delivered and told to everybody it is for.
THEOREM DoneAlwaysMeansDelivered == Spec => []DoneMeansDelivered
BY InvAlways, InvDelivered, PTL

LEMMA InvReported == Inv => MissingIsReported
<1> SUFFICES ASSUME Inv, NEW i \in DOMAIN outbox,
                    outbox[i].type = "participation.roster.changed", outbox[i].status = "DONE", ~seen.met
             PROVE  seen.since[i] \subseteq sheet \/ status # "OK"
  BY DEF MissingIsReported
<1>1. Told(i)
  BY DEF Inv, Deliveries, Complete, Told
<1> QED
  BY <1>1 DEF Inv, Roster, Alone, ToldCovered

\* A push that ended well brought whoever it was for into the sheet, or said that it
\* did not.
THEOREM MissingAlwaysReported == Spec => []MissingIsReported
BY InvAlways, InvReported, PTL

\* No worker that comes back late changes what is DONE or DEAD.
THEOREM FinishedAlwaysStays == Spec => FinishedStaysFinished
<1>1. Inv /\ [Next]_vars =>
        [\A i \in DOMAIN outbox : outbox[i].status \in Finished => outbox'[i].status = outbox[i].status]_vars
  BY NextMoves, MovesKeeps DEF Inv, Noted, Keeps
<1> QED
  BY <1>1, InvAlways, PTL DEF Spec, FinishedStaysFinished

\* The sheet loses no name as long as pushes do not meet.
THEOREM LonePushesAlwaysKeepNames == Spec => LonePushesKeepNames
<1>1. Inv /\ [Next]_vars => [~seen.met' => sheet \subseteq sheet']_vars
  BY NextMoves, MovesKeeps, NextRoster DEF Inv, Noted
<1> QED
  BY <1>1, InvAlways, PTL DEF Spec, LonePushesKeepNames
=============================================================================
