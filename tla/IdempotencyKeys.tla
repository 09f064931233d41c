-------------------------- MODULE IdempotencyKeys --------------------------
(* The idempotency keys of the mutating routes of the BFF. A request begins by *)
(* taking the key of its client and ends by completing or failing it; neither  *)
(* end looks at what has become of the key meanwhile. The key of a request     *)
(* that never ends expires.                                                    *)
EXTENDS Integers, FiniteSets

CONSTANTS
  Keys,  \* idempotency keys; all requests with one key have the same actor and body
  TTL    \* lifetime of a key in ticks (600 s)

ASSUME KeyAssumption == TTL \in Nat \ {0}

VARIABLES
  key,     \* orgs/<tenant>/idempotency_keys/<key>
  overrun  \* history: keys that expired while one of their requests ran

keyVars == <<key, overrun>>

NoKey == [status |-> "none", left |-> 0]

KeyInit ==
  /\ key = [k \in Keys |-> NoKey]
  /\ overrun = {}

\* Mutant: a pending key does not stop a second request.
FreeUnlessCompleted(k) == key[k].status # "completed"
Startable(k) ==
  \/ key[k].status \in {"none", "failed"}
  \/ key[k].status = "pending" /\ key[k].left = 0

Begin(k) ==
  /\ Startable(k)
  /\ key' = [key EXCEPT ![k] = [status |-> "pending", left |-> TTL]]
  /\ UNCHANGED overrun

Merge(k, status) == key' = [key EXCEPT ![k].status = status] /\ UNCHANGED overrun
Complete(k) == Merge(k, "completed")
Fail(k) == Merge(k, "failed")

\* Expired keys are deleted whatever their status.
CleanUp(k) ==
  /\ key[k].status # "none" /\ key[k].left = 0
  /\ key' = [key EXCEPT ![k] = NoKey]
  /\ UNCHANGED overrun

\* `running' are the keys of the requests that have begun.
KeyTick(running) ==
  /\ key' = [k \in Keys |-> [key[k] EXCEPT !.left = IF @ > 0 THEN @ - 1 ELSE 0]]
  /\ overrun' = overrun \cup {k \in running : key[k].left = 1}
=============================================================================
