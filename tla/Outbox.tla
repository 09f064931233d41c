------------------------------- MODULE Outbox -------------------------------
(* The outbox of the BFF and the processes that work it off. Whoever processes *)
(* an event claims it with a token and a lease, renews the lease while the     *)
(* handler runs (in batches, not inline), and marks it under the token. What   *)
(* the handlers do is left to the modules that extend this one.                *)
EXTENDS Integers, Sequences, FiniteSets

CONSTANTS
  Workers,      \* processes that run a batch or an inline call at a time
  Equipped,     \* those started with every handler (app.mjs); the rest is outbox-worker.mjs
  MaxAttempts,  \* attempts before an event is given up (8)
  Lease,        \* lifetime of a claim in ticks (5 minutes)
  MaxEvents,    \* bound: events
  MaxFaults     \* bound: crashes, and claims that run out under a live worker

ASSUME OutboxAssumption ==
  /\ Equipped \subseteq Workers /\ IsFiniteSet(Workers)
  /\ MaxAttempts \in Nat \ {0} /\ Lease \in Nat \ {0}
  /\ MaxEvents \in Nat /\ MaxFaults \in Nat

VARIABLES
  outbox,  \* outbox/<event>, in the order in which they were created
  worker,  \* what each process has claimed and how far it has come
  faults   \* how many faults there were

outboxVars == <<outbox, worker, faults>>

EventTypes == {"participation.roster.changed", "transaction.state_changed"}
RequiresHandler == {"participation.roster.changed"}
Statuses == {"PENDING", "PROCESSING", "FAILED", "DONE", "DEAD"}
Finished == {"DONE", "DEAD"}
NoToken == 0

\* `delivered' stands for outbox_deliveries/<event>; `handled' is history: the
\* event's own handler has ended well.
NewEvent(type, payload) ==
  [type |-> type, payload |-> payload, status |-> "PENDING", attempts |-> 0,
   token |-> NoToken, left |-> 0, wait |-> 0, delivered |-> FALSE, handled |-> FALSE]

\* `lapsed' is history: the claim ran out while the worker was alive.
Idle == [at |-> "IDLE", event |-> 0, token |-> NoToken, beating |-> FALSE, lapsed |-> FALSE]

OutboxInit ==
  /\ outbox = <<>>
  /\ worker = [w \in Workers |-> Idle]
  /\ faults = 0

-----------------------------------------------------------------------------
(* Claims *)
Event(w) == outbox[worker[w].event]
At(w, phase) == worker[w].at = phase
Go(w, phase) == worker' = [worker EXCEPT ![w].at = phase]

\* In the same transaction as the document it tells of.
Enqueue(type, payload) ==
  /\ Len(outbox) < MaxEvents
  /\ outbox' = Append(outbox, NewEvent(type, payload))

\* Mutant: a claim is taken from whoever has it.
StaleAlways(e) == TRUE
\* Mutant: a claim is never taken from a worker that died.
StaleNever(e) == FALSE
IsStaleProcessing(e) == e.left = 0

Claimable(e) ==
  \/ e.status \in {"PENDING", "FAILED"} /\ e.wait = 0
  \/ e.status = "PROCESSING" /\ IsStaleProcessing(e)

\* No two claims have the same token; the number of the attempt serves as one.
\* A batch claims what its queries found due, and looks again when it claims.
Claim(w, i, inline) ==
  /\ At(w, IF inline THEN "INLINE" ELSE "IDLE")
  /\ Claimable(outbox[i])
  /\ outbox' = [outbox EXCEPT ![i] =
       [@ EXCEPT !.status = "PROCESSING", !.attempts = outbox[i].attempts + 1,
                 !.token = outbox[i].attempts + 1, !.left = Lease]]
  /\ worker' = [worker EXCEPT ![w] =
       [at |-> "HANDLING", event |-> i, token |-> outbox[i].attempts + 1,
        beating |-> ~inline, lapsed |-> FALSE]]
  /\ UNCHANGED faults

ClaimInBatch(w) == \E i \in DOMAIN outbox : Claim(w, i, FALSE)

\* The request that has enqueued an event processes it itself, unless a batch was faster.
ClaimInline(w) == Claim(w, worker[w].event, TRUE)
InlineTooLate(w) ==
  /\ At(w, "INLINE") /\ ~Claimable(Event(w))
  /\ worker' = [worker EXCEPT ![w] = Idle]
  /\ UNCHANGED <<outbox, faults>>

\* Mutant: the token is not compared.
OwnsAny(w) == Event(w).status = "PROCESSING"
Owns(w) == Event(w).status = "PROCESSING" /\ Event(w).token = worker[w].token

\* A renewal that finds another token, or fails, is the last one.
Heartbeat(w) ==
  /\ worker[w].beating
  /\ \/ /\ Owns(w) /\ Event(w).left < Lease
        /\ outbox' = [outbox EXCEPT ![worker[w].event].left = Lease]
        /\ UNCHANGED worker
     \/ worker' = [worker EXCEPT ![w].beating = FALSE] /\ UNCHANGED outbox
  /\ UNCHANGED faults

-----------------------------------------------------------------------------
(* After the handler: defaultOutboxHandler goes on, the worker marks the event. *)
Throws(w) ==
  /\ worker[w].at \in {"HANDLING", "DELIVERING", "SUCCEEDED"}
  /\ worker' = [worker EXCEPT ![w].at = "FAILED", ![w].beating = FALSE]
  /\ UNCHANGED <<outbox, faults>>

NeedsHandler(w) == Event(w).type \in RequiresHandler

\* The handler of the event's type has ended, or there is none and none is required.
Handled(w) ==
  /\ At(w, "HANDLING")
  /\ outbox' = [outbox EXCEPT ![worker[w].event].handled = TRUE]
  /\ Go(w, "DELIVERING")
  /\ UNCHANGED faults

\* The delivery is created unless it exists, then the notifications are.
Delivered(w) ==
  /\ At(w, "DELIVERING")
  /\ outbox' = [outbox EXCEPT ![worker[w].event].delivered = TRUE]
  /\ worker' = [worker EXCEPT ![w].at = "SUCCEEDED", ![w].beating = FALSE]
  /\ UNCHANGED faults

\* Mutant: success is marked whoever has the claim.
MarkAnybodysSuccess(w) ==
  outbox' = [outbox EXCEPT ![worker[w].event] = [@ EXCEPT !.status = "DONE", !.token = NoToken]]
MarkSuccess(w) ==
  IF Owns(w)
  THEN outbox' = [outbox EXCEPT ![worker[w].event] =
         [@ EXCEPT !.status = "DONE", !.token = NoToken, !.left = 0]]
  ELSE UNCHANGED outbox

\* A tick is longer than the longest delay before another attempt (300 s).
MarkFailure(w) ==
  IF Owns(w)
  THEN outbox' = [outbox EXCEPT ![worker[w].event] =
         [@ EXCEPT !.status = IF worker[w].token >= MaxAttempts THEN "DEAD" ELSE "FAILED",
                   !.token = NoToken, !.left = 0, !.wait = 1]]
  ELSE UNCHANGED outbox

Mark(w) ==
  /\ \/ At(w, "SUCCEEDED") /\ MarkSuccess(w)
     \/ At(w, "FAILED") /\ MarkFailure(w)
  /\ worker' = [worker EXCEPT ![w] = Idle]
  /\ UNCHANGED faults

-----------------------------------------------------------------------------
(* Faults and time *)
\* The process is killed, or marking a failure failed and ended the batch.
Crash(w) ==
  /\ ~At(w, "IDLE") /\ faults < MaxFaults
  /\ worker' = [worker EXCEPT ![w] = Idle]
  /\ faults' = faults + 1
  /\ UNCHANGED outbox

RunsOut(w) == ~At(w, "IDLE") /\ ~At(w, "INLINE") /\ Owns(w) /\ Event(w).left = 1

Tick ==
  LET late == {w \in Workers : RunsOut(w)} IN
  /\ faults + Cardinality(late) <= MaxFaults
  /\ faults' = faults + Cardinality(late)
  /\ outbox' = [i \in DOMAIN outbox |->
       [outbox[i] EXCEPT !.left = IF @ > 0 THEN @ - 1 ELSE 0, !.wait = 0]]
  /\ worker' = [w \in Workers |-> [worker[w] EXCEPT !.lapsed = @ \/ w \in late]]
=============================================================================
