------------------------ MODULE SheetApplyProperties ------------------------
(* What the application of a sheet promises. *)
EXTENDS SheetApply

\* The type of every variable.
TypeOK ==
  /\ run \in [Runs -> [status : {"NONE", "READY", "APPLYING", "APPLIED"},
                       source : Contents, base : Contents, yearBase : Nat,
                       oneWay : BOOLEAN, key : Keys \cup {None},
                       done : [Operations -> {"NONE", "UNCERTAIN", "APPLIED"}]]]
  /\ publication \in [status : {"NONE", "READY", "APPLYING", "APPLIED"},
                      run : Runs \cup {None}, age : Nat]
  /\ mirror \in [source : Contents, target : Contents]
  /\ ledger \in [months : Contents, year : Nat,
                 keys : SUBSET (Runs \X Keys \X Operations)]
  /\ call \in [Calls ->
       [phase : {"IDLE", "RESERVING", "RESTORING", "WORKING", "WAITING", "APPLIED",
                 "CONFIRMED", "OVER"},
        run : Runs \cup {None}, key : Keys \cup {None},
        sent : Operations \cup {"NONE"}, reply : {"NONE", "OK", "REFUSED"},
        seen : [Operations -> {"NONE", "UNCERTAIN", "APPLIED"}],
        age : Nat, alone : BOOLEAN]]
  /\ record \in [edits : Nat, forced : Nat]

\* The lock and the runs tell the same story: the run under way is the one the
\* lock names, and there is no other. Otherwise the status of the project could
\* not be read (`cashflow_sheet_apply_recovery_invalid') or a run would be stuck.
LockAgrees ==
  \A r \in Runs : (run[r].status = "APPLYING") <=> Locked(r)

\* A published run was written, months and year, whatever happened in between:
\* calls that joined, crashed, were superseded or skipped what others had done.
PublishedWasWritten ==
  \A r \in Runs : run[r].status = "APPLIED" =>
    \A o \in Operations : \E k \in Keys : <<r, k, o>> \in ledger.keys

\* What a function has sent is written under the lock of its run or not at all,
\* also when it arrives after the function was killed; unless another call joined
\* or undid the apply, or an administrator released it.
WritesUnderLock ==
  [][\A c \in Calls : Write(c) /\ call[c].alone => Locked(call[c].run)]_vars

\* A run that is not one-way writes the year total once, under whatever keys it is
\* applied again after functions that were killed between the write and its checkpoint.
YearWrittenOnce ==
  \A r \in Runs, k, l \in Keys :
    ~run[r].oneWay /\ {<<r, k, "YEAR">>, <<r, l, "YEAR">>} \subseteq ledger.keys => k = l

\* A lock does not stay forever, however often a run is joined, and whatever crashed.
LockIsFreed == publication.status = "APPLYING" ~> publication.status # "APPLYING"
=============================================================================
