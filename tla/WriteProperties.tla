-------------------------- MODULE WriteProperties --------------------------
(* What keys, versions and jobs promise to the clients of the mutating routes. *)
EXTENDS VersionedWrites

KeyRecords == [status : {"none", "pending", "completed", "failed"}, left : 0..TTL]
JobRecords == [status : {"NONE", "READY", "PROCESSING", "FAILED", "DONE", "DEAD"},
               attempts : 0..MaxAttempts, wait : {0, 1}]
JobNames == (0..MaxVersion) \X Views
RunnerRecords == [at : {"NO", "CLAIMED", "READ", "WRITTEN"}, job : JobNames, saw : 0..MaxVersion]
CallRecords == [at : {"FREE", "STARTED", "READ", "COMMITTED", "AUDITED", "ENDING", "FAILING"},
                key : Keys, saw : 0..MaxVersion]

\* The type of every variable.
TypeOK ==
  /\ key \in [Keys -> KeyRecords] /\ overrun \in SUBSET Keys
  /\ jobs \in [JobIds -> JobRecords] /\ runner \in [Runners -> RunnerRecords]
  /\ views \in [Views -> 0..MaxVersion] /\ overtaken \in SUBSET Views
  /\ document \in [version : 0..MaxVersion, state : DOMAIN AllowedTransitions]
  /\ intent \in [Keys -> Wishes]
  /\ request \in [Requests -> CallRecords]
  /\ history \in Seq(Keys \X Routes) /\ Len(history) = document.version

\* What a client asked for under one key happens at most once, although a call is
\* repeated after a lost answer, after its key expired and beside a call that still runs.
AppliedOnce ==
  \A i, j \in DOMAIN history : history[i][1] = history[j][1] => i = j

\* Two calls with one key run at a time only after one of them has outlived its key.
RunsAloneUnlessLate == \A k \in Keys \ overrun : Cardinality(Running(k)) <= 1

\* A PATCH leaves from the state the document is in when it is written, not from the
\* one that was read: of two decisions about one submission only one is made.
TransitionsFromPresentState ==
  [][ history' # history /\ history'[Len(history')][2] = "PATCH"
      => document'.state \in AllowedTransitions[document.state] ]_vars

\* A view whose jobs are all done shows the last change that asked for it, unless two
\* rebuilds of it met: each writes what it has read, in whatever order.
Asked == {i \in DOMAIN history : history[i][2] = "WRITE"}
FreshUnlessOvertaken ==
  \A v \in Views \ overtaken :
    (\A i \in Asked : jobs[<<i, v>>].status = "DONE") => \A i \in Asked : views[v] >= i

\* Every job ends done or dead, or stays with a runner that died.
JobsEnd ==
  \A j \in JobIds :
    jobs[j].status \in {"READY", "FAILED"}
      ~> \/ jobs[j].status \in {"DONE", "DEAD"}
         \/ jobs[j].status = "PROCESSING" /\ \A w \in Runners : runner[w].job # j
=============================================================================
