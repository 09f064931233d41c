-------------------------- MODULE MCVersionedWrites --------------------------
(* A small instance of VersionedWrites for TLC. *)
EXTENDS WriteProperties

CONSTANTS k1, k2, k3, r1, r2, cron

Ask(route, expected, state) == [route |-> route, expected |-> expected, state |-> state]
Scenario(first, second, third, calls1, calls2) ==
  [intent |-> [k \in Keys |-> CASE k = k1 -> first [] k = k2 -> second [] OTHER -> third],
   calls |-> [r \in Requests |-> IF r = r1 THEN calls1 ELSE calls2],
   faults |-> 1]

\* Two changes whose jobs meet the cron; two decisions about one submission,
\* with calls that are repeated.
MCScenarios ==
  {Scenario(Ask("WRITE", NoVersion, "SUBMITTED"), Ask("WRITE", 1, "SUBMITTED"), Nothing, 2, 0),
   Scenario(Ask("UPSERT", 0, "SUBMITTED"), Ask("PATCH", 1, "APPROVED"), Ask("PATCH", 1, "REJECTED"), 2, 1)}
=============================================================================
