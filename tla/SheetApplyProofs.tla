-------------------------- MODULE SheetApplyProofs --------------------------
(* Proofs, for any number of runs, requests and keys and any times that leave  *)
(* the lock longer than a function and its requests, that the lock and the     *)
(* runs agree, that what is published was written, and that nothing is         *)
(* written after the lock of an undisturbed apply is gone.                     *)
EXTENDS SheetApplyProperties, TLAPS

USE ContentAssumption, NoneAssumption, LeaseAssumption, SheetBounds

-----------------------------------------------------------------------------
(* The inductive invariant *)

Written(r, o, K) == \E k \in Keys : <<r, k, o>> \in K
NextOf(k) == IF k.seen["MONTHS"] = "APPLIED" THEN "YEAR" ELSE "MONTHS"

\* What a call x knows is true of the runs R and the JVM's records K, what it has
\* sent and heard fits what it is doing, and it is not older than the platform allows.
Sound(x, R, K) ==
  \/ x = Idle
  \/ /\ x.phase # "IDLE" /\ x.run \in Runs /\ x.key \in Keys /\ R[x.run].status # "NONE"
     /\ x.reply # "NONE" => x.phase = "WAITING" /\ x.sent = "NONE"
     /\ x.phase = "RESERVING" => x.sent = "NONE"
     /\ x.phase = "WAITING" /\ x.sent # "NONE" => x.sent = NextOf(x)
     /\ x.phase \notin {"WAITING", "OVER"} /\ x.sent # "NONE" => <<x.run, x.key, x.sent>> \in K
     /\ x.phase = "APPLIED" \/ x.reply = "OK" => <<x.run, x.key, NextOf(x)>> \in K
     /\ x.phase = "CONFIRMED" => \A o \in Operations : x.seen[o] = "APPLIED"
     /\ \A o \in Operations : x.seen[o] = "APPLIED" => Written(x.run, o, K)
     /\ x.age <= Life + Flight
     /\ x.phase # "OVER" => x.age <= Life

CallsSound == \A c \in Calls : Sound(call[c], run, ledger.keys)

\* Every mark that an operation is done is the trace of its write.
RunsSound ==
  /\ \A r \in Runs :
       /\ run[r].status \in {"APPLYING", "APPLIED"} => run[r].key \in Keys
       /\ \A o \in Operations : run[r].done[o] = "APPLIED" => Written(r, o, ledger.keys)
       /\ run[r].status = "APPLIED" => \A o \in Operations : Written(r, o, ledger.keys)
  /\ \A r \in Runs, k \in Keys, o \in Operations :
       <<r, k, o>> \in ledger.keys => run[r].status # "NONE"

\* The run under way is the one the lock names.
LockSound == LockAgrees /\ (publication.status = "APPLYING" => publication.run \in Runs)

\* The year total has moved on since a run that wrote it was reviewed.
YearSound ==
  /\ \A r \in Runs, k \in Keys :
       ~run[r].oneWay /\ <<r, k, "YEAR">> \in ledger.keys => ledger.year > run[r].yearBase
  /\ YearWrittenOnce

\* It works, or a request of it is on its way and would be obeyed.
Pending(x, K) ==
  x.phase \in AtWork \/ (x.sent # "NONE" /\ <<x.run, x.key, x.sent>> \notin K)

\* A call that was left alone holds the lock, of its own age, and nobody else works
\* under its key.
Alone ==
  \A c \in Calls : call[c].alone /\ Pending(call[c], ledger.keys) =>
    /\ Locked(call[c].run) /\ publication.age = call[c].age
    /\ run[call[c].run].key = call[c].key
    /\ \A d \in Calls \ {c} :
         call[d].run = call[c].run /\ call[d].key = call[c].key => call[d].phase \notin AtWork

-----------------------------------------------------------------------------
(* Shapes *)
Marks == [Operations -> {"NONE", "UNCERTAIN", "APPLIED"}]
RunRecords ==
  [status : {"NONE", "READY", "APPLYING", "APPLIED"},
   source : Contents, base : Contents, yearBase : Nat,
   oneWay : BOOLEAN, key : Keys \cup {None}, done : Marks]
Phases == {"IDLE", "RESERVING", "RESTORING", "WORKING", "WAITING", "APPLIED", "CONFIRMED", "OVER"}
CallRecords ==
  [phase : Phases, run : Runs \cup {None}, key : Keys \cup {None},
   sent : Operations \cup {"NONE"}, reply : {"NONE", "OK", "REFUSED"},
   seen : Marks, age : Nat, alone : BOOLEAN]

LEMMA RecordsTyped ==
  TypeOK => run \in [Runs -> RunRecords] /\ call \in [Calls -> CallRecords]
BY DEF TypeOK, RunRecords, CallRecords, Marks, Phases

LEMMA IdleTyped == Idle \in CallRecords /\ NoRun \in RunRecords
BY DEF Idle, NoRun, CallRecords, RunRecords, Marks, Phases, Operations

LEMMA InitTyped == Init => TypeOK
BY IdleTyped DEF Init, TypeOK, RunRecords, CallRecords, Marks, Phases

\* What becomes of a call.
MovedCall(c, phase) == [call[c] EXCEPT !.phase = phase, !.reply = "NONE"]
EndedCall(c) ==
  IF call[c].sent = "NONE" THEN Idle
  ELSE [call[c] EXCEPT !.phase = "OVER", !.reply = "NONE", !.seen = Idle.seen]
FailedCall(c) ==
  IF \E o \in Operations : Sure(c, o) THEN EndedCall(c) ELSE MovedCall(c, "RESTORING")
AnsweredCall(c, reply) ==
  IF call[c].phase = "OVER" THEN Idle
  ELSE [call[c] EXCEPT !.sent = "NONE",
                       !.reply = IF call[c].phase = "WAITING" THEN reply ELSE "NONE"]

LEMMA CallUpdates ==
  ASSUME TypeOK, NEW c \in Calls
  PROVE  /\ \A phase : Moved(c, phase) = [call EXCEPT ![c] = MovedCall(c, phase)]
         /\ Ended(c) = [call EXCEPT ![c] = EndedCall(c)]
         /\ Failed(c) = [call EXCEPT ![c] = FailedCall(c)]
         /\ \A reply : Answered(c, reply) = [call EXCEPT ![c] = AnsweredCall(c, reply)]
<1>1. call \in [Calls -> CallRecords]
  BY RecordsTyped
<1>2. \A phase : Moved(c, phase) = [call EXCEPT ![c] = MovedCall(c, phase)]
  BY <1>1 DEF Moved, MovedCall, CallRecords
<1>3. Ended(c) = [call EXCEPT ![c] = EndedCall(c)]
  BY Zenon DEF Ended, EndedCall
<1>4. Failed(c) = [call EXCEPT ![c] = FailedCall(c)]
  BY <1>2, <1>3, ZenonT(30) DEF Failed, FailedCall
<1>5. ASSUME NEW reply PROVE Answered(c, reply) = [call EXCEPT ![c] = AnsweredCall(c, reply)]
  <2>1. CASE call[c].phase = "OVER"
    BY <2>1 DEF Answered, AnsweredCall
  <2>2. CASE call[c].phase # "OVER"
    <3> DEFINE said == IF call[c].phase = "WAITING" THEN reply ELSE "NONE"
    <3>1. Answered(c, reply) = [call EXCEPT ![c].sent = "NONE", ![c].reply = said]
      BY <2>2, ZenonT(30) DEF Answered
    <3>2. AnsweredCall(c, reply) = [call[c] EXCEPT !.sent = "NONE", !.reply = said]
      BY <2>2, ZenonT(30) DEF AnsweredCall
    <3> HIDE DEF said
    <3> QED BY <1>1, <3>1, <3>2 DEF CallRecords
  <2> QED BY <2>1, <2>2
<1> QED BY <1>2, <1>3, <1>4, <1>5

LEMMA CallsTyped ==
  ASSUME TypeOK, NEW c \in Calls
  PROVE  /\ \A phase \in Phases : MovedCall(c, phase) \in CallRecords
         /\ EndedCall(c) \in CallRecords
         /\ FailedCall(c) \in CallRecords
         /\ \A reply \in {"OK", "REFUSED"} : AnsweredCall(c, reply) \in CallRecords
<1>1. call[c] \in CallRecords /\ Idle \in CallRecords
  BY RecordsTyped, IdleTyped
<1>2. \A phase \in Phases : MovedCall(c, phase) \in CallRecords
  BY <1>1 DEF MovedCall, CallRecords
<1>3. EndedCall(c) \in CallRecords
  BY <1>1 DEF EndedCall, CallRecords, Idle, Phases
<1>4. FailedCall(c) \in CallRecords
  BY <1>2, <1>3 DEF FailedCall, Phases
<1>5. ASSUME NEW reply \in {"OK", "REFUSED"} PROVE AnsweredCall(c, reply) \in CallRecords
  <2> DEFINE said == IF call[c].phase = "WAITING" THEN reply ELSE "NONE"
  <2>1. said \in {"NONE", "OK", "REFUSED"}
    OBVIOUS
  <2>2. AnsweredCall(c, reply) =
          IF call[c].phase = "OVER" THEN Idle
          ELSE [call[c] EXCEPT !.sent = "NONE", !.reply = said]
    BY Zenon DEF AnsweredCall
  <2> HIDE DEF said
  <2>3. [call[c] EXCEPT !.sent = "NONE", !.reply = said] \in CallRecords
    BY <1>1, <2>1 DEF CallRecords
  <2> QED BY <1>1, <2>2, <2>3, Zenon
<1> QED BY <1>2, <1>3, <1>4, <1>5

LEMMA DisturbedTyped ==
  ASSUME NEW x \in CallRecords PROVE [x EXCEPT !.alone = FALSE] \in CallRecords
BY DEF CallRecords

LEMMA DisturbTyped ==
  ASSUME NEW calls \in [Calls -> CallRecords], NEW D
  PROVE  Disturb(calls, D) \in [Calls -> CallRecords]
<1>1. ASSUME NEW d \in Calls PROVE [calls[d] EXCEPT !.alone = FALSE] \in CallRecords
  BY DisturbedTyped
<1> QED BY <1>1 DEF Disturb

LEMMA UnlockTyped ==
  ASSUME TypeOK, NEW r \in Runs, Unlock(r)
  PROVE  /\ run' \in [Runs -> RunRecords]
         /\ publication' = [publication EXCEPT !.status = "READY"]
<1>1. run \in [Runs -> RunRecords]
  BY RecordsTyped
<1>2. CASE run[r].status = "APPLYING"
  <2> DEFINE ready == [run[r] EXCEPT !.status = "READY", !.key = None]
  <2>1. run' = [run EXCEPT ![r].status = "READY", ![r].key = None]
    BY <1>2 DEF Unlock
  <2>2. run' = [run EXCEPT ![r] = ready]
    BY <1>1, <2>1 DEF RunRecords
  <2>3. ready \in RunRecords
    BY <1>1 DEF RunRecords
  <2> HIDE DEF ready
  <2> QED BY <1>1, <2>2, <2>3 DEF Unlock
<1> QED BY <1>1, <1>2 DEF Unlock

\* What the steps of a call that change several of its fields make of it.
SentCall(c) == [call[c] EXCEPT !.phase = "WAITING", !.sent = Operation(c)]
CheckedCall(c) ==
  [call[c] EXCEPT !.phase = "WORKING",
                  !.seen = [call[c].seen EXCEPT ![Operation(c)] = "APPLIED"]]
BegunCall(c, key, alone) ==
  [call[c] EXCEPT !.phase = "WORKING", !.seen = run[call[c].run].done, !.key = key,
                  !.alone = alone]
Unwatched(c) ==
  \A d \in CallsOn(call[c].run) : call[d].key = call[c].key => call[d].phase \notin AtWork

LEMMA WorkUpdates ==
  ASSUME TypeOK, NEW c \in Calls
  PROVE  /\ Send(c) => call' = [call EXCEPT ![c] = SentCall(c)]
         /\ Checkpoint(c) => call' = [call EXCEPT ![c] = CheckedCall(c)]
         /\ Reserve(c) => call' = [call EXCEPT ![c] = BegunCall(c, call[c].key, Unwatched(c))]
<1>1. call \in [Calls -> CallRecords]
  BY RecordsTyped
<1>2. Send(c) => call' = [call EXCEPT ![c] = SentCall(c)]
  BY <1>1 DEF Send, SentCall, CallRecords
<1>3. Checkpoint(c) => call' = [call EXCEPT ![c] = CheckedCall(c)]
  <2> DEFINE o == Operation(c)
  <2>1. Checkpoint(c) => call' = [call EXCEPT ![c].phase = "WORKING", ![c].seen[o] = "APPLIED"]
    BY Zenon DEF Checkpoint
  <2>2. CheckedCall(c) =
          [call[c] EXCEPT !.phase = "WORKING", !.seen = [call[c].seen EXCEPT ![o] = "APPLIED"]]
    BY Zenon DEF CheckedCall
  <2>3. [call[c] EXCEPT !.phase = "WORKING", !.seen[o] = "APPLIED"] = CheckedCall(c)
    <3> HIDE DEF o
    <3> QED BY <1>1, <2>2 DEF CallRecords
  <2>4. [call EXCEPT ![c].phase = "WORKING", ![c].seen[o] = "APPLIED"]
          = [call EXCEPT ![c] = [call[c] EXCEPT !.phase = "WORKING", !.seen[o] = "APPLIED"]]
    <3> HIDE DEF o
    <3> QED BY <1>1 DEF CallRecords
  <2> QED BY <2>1, <2>3, <2>4, Zenon
<1>4. Reserve(c) => call' = [call EXCEPT ![c] = BegunCall(c, call[c].key, Unwatched(c))]
  <2> DEFINE u == Unwatched(c)
             m == run[call[c].run].done
  <2>1. Reserve(c) => call' = [call EXCEPT ![c].phase = "WORKING", ![c].seen = m, ![c].alone = u]
    BY Zenon DEF Reserve, Unwatched
  <2>2. BegunCall(c, call[c].key, Unwatched(c)) =
          [call[c] EXCEPT !.phase = "WORKING", !.seen = m, !.key = call[c].key, !.alone = u]
    BY Zenon DEF BegunCall
  <2> HIDE DEF u, m
  <2> QED BY <1>1, <2>1, <2>2, ZenonT(40) DEF CallRecords
<1> QED BY <1>2, <1>3, <1>4

LEMMA WorkTyped ==
  ASSUME TypeOK, NEW c \in Calls, call[c].run \in Runs
  PROVE  /\ SentCall(c) \in CallRecords
         /\ CheckedCall(c) \in CallRecords
         /\ \A key \in Keys \cup {None}, alone \in BOOLEAN : BegunCall(c, key, alone) \in CallRecords
         /\ Unwatched(c) \in BOOLEAN
<1>1. call[c] \in CallRecords /\ run[call[c].run] \in RunRecords /\ Operation(c) \in Operations
  BY RecordsTyped DEF Operation, Operations
<1>2. SentCall(c) \in CallRecords
  BY <1>1 DEF SentCall, CallRecords, Phases
<1>3. [call[c].seen EXCEPT ![Operation(c)] = "APPLIED"] \in Marks
  BY <1>1 DEF CallRecords, Marks
<1>4. CheckedCall(c) \in CallRecords
  BY <1>1, <1>3 DEF CheckedCall, CallRecords, Phases
<1>5. run[call[c].run].done \in Marks
  BY <1>1 DEF RunRecords
<1>6. \A key \in Keys \cup {None}, alone \in BOOLEAN : BegunCall(c, key, alone) \in CallRecords
  BY <1>1, <1>5 DEF BegunCall, CallRecords, Phases
<1>7. Unwatched(c) \in BOOLEAN
  BY DEF Unwatched
<1> QED BY <1>2, <1>4, <1>6, <1>7

\* A call that joins or puts back disturbs the others; one that joins, itself.
LEMMA JoinUpdates ==
  ASSUME TypeOK, NEW c \in Calls, Join(c)
  PROVE  /\ call'[c] = BegunCall(c, run[call[c].run].key, FALSE)
         /\ \A d \in Calls \ {c} :
              call'[d] = IF call[d].run = call[c].run THEN [call[d] EXCEPT !.alone = FALSE]
                                                      ELSE call[d]
<1> DEFINE m == run[call[c].run].done
           k == run[call[c].run].key
           begun == [call EXCEPT ![c].phase = "WORKING", ![c].seen = m, ![c].key = k]
<1>1. call \in [Calls -> CallRecords]
  BY RecordsTyped
<1>2. call' = Disturb(begun, CallsOn(call[c].run))
  BY Zenon DEF Join
<1>3. BegunCall(c, k, FALSE) =
        [call[c] EXCEPT !.phase = "WORKING", !.seen = m, !.key = k, !.alone = FALSE]
  BY Zenon DEF BegunCall
<1> HIDE DEF m, k
<1>4. begun[c] = [call[c] EXCEPT !.phase = "WORKING", !.seen = m, !.key = k]
      /\ \A d \in Calls \ {c} : begun[d] = call[d]
  BY <1>1 DEF CallRecords
<1>5. c \in CallsOn(call[c].run)
  BY DEF CallsOn
<1>6. call'[c] = [begun[c] EXCEPT !.alone = FALSE]
  BY <1>2, <1>5, ZenonT(30) DEF Disturb
<1>7. call'[c] = BegunCall(c, k, FALSE)
  BY <1>1, <1>3, <1>4, <1>6 DEF CallRecords
<1>8. \A d \in Calls \ {c} :
        call'[d] = IF call[d].run = call[c].run THEN [call[d] EXCEPT !.alone = FALSE] ELSE call[d]
  <2> TAKE d \in Calls \ {c}
  <2>1. call'[d] = IF d \in CallsOn(call[c].run) THEN [begun[d] EXCEPT !.alone = FALSE] ELSE begun[d]
    BY <1>2, ZenonT(30) DEF Disturb
  <2> HIDE DEF begun
  <2> QED BY <1>4, <2>1, ZenonT(30) DEF CallsOn
<1> QED BY <1>7, <1>8 DEF k

Publications == [status : {"NONE", "READY", "APPLYING", "APPLIED"}, run : Runs \cup {None}, age : Nat]
Ledgers == [months : Contents, year : Nat, keys : SUBSET (Runs \X Keys \X Operations)]

LEMMA NextTyped ==
  ASSUME run' \in [Runs -> RunRecords], call' \in [Calls -> CallRecords],
         publication' \in Publications, ledger' \in Ledgers,
         mirror' \in [source : Contents, target : Contents],
         record' \in [edits : Nat, forced : Nat]
  PROVE  TypeOK'
BY DEF TypeOK, RunRecords, CallRecords, Marks, Phases, Publications, Ledgers

LEMMA NowTyped ==
  ASSUME TypeOK
  PROVE  /\ run \in [Runs -> RunRecords] /\ call \in [Calls -> CallRecords]
         /\ publication \in Publications /\ ledger \in Ledgers
         /\ mirror \in [source : Contents, target : Contents]
         /\ record \in [edits : Nat, forced : Nat]
BY RecordsTyped DEF TypeOK, Publications, Ledgers

\* A call that is not idle, or has sent something, is on a run that was staged.
LEMMA OnRun ==
  ASSUME CallsSound, NEW c \in Calls, call[c].phase # "IDLE" \/ call[c].sent # "NONE"
  PROVE  /\ call[c].phase # "IDLE"
         /\ call[c].run \in Runs /\ call[c].key \in Keys /\ run[call[c].run].status # "NONE"
<1>1. call[c] # Idle
  BY DEF Idle
<1> QED BY <1>1 DEF CallsSound, Sound

LEMMA AnsweredTyped ==
  ASSUME TypeOK, NEW c \in Calls, NEW reply \in {"OK", "REFUSED"}, call' = Answered(c, reply)
  PROVE  call' \in [Calls -> CallRecords]
<1>1. call' = [call EXCEPT ![c] = AnsweredCall(c, reply)]
  BY CallUpdates
<1>2. AnsweredCall(c, reply) \in CallRecords
  BY CallsTyped
<1> QED BY <1>1, <1>2, RecordsTyped

\* A checkpoint leaves the runs well-formed.
LEMMA MarkTyped ==
  ASSUME run \in [Runs -> RunRecords], NEW r \in Runs, NEW o \in Operations,
         NEW v \in {"NONE", "UNCERTAIN", "APPLIED"}
  PROVE  [run EXCEPT ![r].done[o] = v] \in [Runs -> RunRecords]
<1> DEFINE d == [run[r].done EXCEPT ![o] = v]
<1>1. d \in Marks
  BY DEF RunRecords, Marks
<1>2. [run[r] EXCEPT !.done = d] \in RunRecords
  <2> HIDE DEF d
  <2> QED BY <1>1 DEF RunRecords
<1>3. [run EXCEPT ![r].done[o] = v] = [run EXCEPT ![r] = [run[r] EXCEPT !.done = d]]
  BY Zenon
<1> HIDE DEF d
<1> QED BY <1>2, <1>3, Zenon

\* Every step keeps the shapes.
LEMMA StepTyped ==
  ASSUME TypeOK, CallsSound, RunsSound, LockSound, [Next]_vars
  PROVE  TypeOK'
<1>0. /\ run \in [Runs -> RunRecords] /\ call \in [Calls -> CallRecords]
      /\ publication \in Publications /\ ledger \in Ledgers
      /\ mirror \in [source : Contents, target : Contents]
      /\ record \in [edits : Nat, forced : Nat]
  BY NowTyped
<1> USE <1>0
<1>1. ASSUME NEW s \in Contents, Refresh(s) PROVE TypeOK'
  BY <1>1, NextTyped DEF Refresh, Ledgers
<1>2. ASSUME NEW r \in Runs, NEW w \in Modes, Stage(r, w) PROVE TypeOK'
  <2>1. [NoRun EXCEPT !.status = "READY", !.source = mirror.source, !.base = mirror.target,
                      !.yearBase = ledger.year, !.oneWay = w] \in RunRecords
    <3>1. /\ mirror.source \in Contents /\ mirror.target \in Contents
          /\ ledger.year \in Nat /\ w \in BOOLEAN
      BY DEF Ledgers
    <3>2. NoRun \in RunRecords
      BY IdleTyped
    <3> HIDE <1>0
    <3> QED BY <3>1, <3>2 DEF RunRecords
  <2> QED BY <1>2, <2>1, NextTyped DEF Stage
<1>3. ASSUME NEW x \in Contents, Edit(x) PROVE TypeOK'
  BY <1>3, NextTyped DEF Edit, Ledgers
<1>4. ASSUME ReleaseExpired PROVE TypeOK'
  BY <1>4, UnlockTyped, NextTyped DEF ReleaseExpired, Expired, LockSound, Publications
<1>5. ASSUME ForceRelease PROVE TypeOK'
  <2>1. call' \in [Calls -> CallRecords]
    BY <1>5, DisturbTyped DEF ForceRelease
  <2>2. run' \in [Runs -> RunRecords] /\ publication' \in Publications
    BY <1>5, UnlockTyped DEF ForceRelease, LockSound, Publications
  <2>3. record' \in [edits : Nat, forced : Nat] /\ UNCHANGED <<mirror, ledger>>
    BY <1>5 DEF ForceRelease
  <2> QED BY <2>1, <2>2, <2>3, NextTyped
<1>6. ASSUME Tick PROVE TypeOK'
  <2>1. \A c \in Calls : [call[c] EXCEPT !.age = @ + 1] \in CallRecords
    BY DEF CallRecords
  <2>2. call' \in [Calls -> CallRecords]
    BY <1>6, <2>1 DEF Tick
  <2>3. [publication EXCEPT !.age = @ + 1] \in Publications
    BY DEF Publications
  <2> QED BY <1>6, <2>2, <2>3, NextTyped DEF Tick
<1>7. ASSUME NEW c \in Calls, NEW r \in Runs, NEW k \in Keys, Start(c, r, k) PROVE TypeOK'
  <2>1. \A phase \in Phases, j \in Keys \cup {None} :
          [Idle EXCEPT !.phase = phase, !.run = r, !.key = j] \in CallRecords
    BY IdleTyped DEF CallRecords
  <2>2. run[r].key \in Keys \cup {None} /\ {"RESERVING", "RESTORING"} \subseteq Phases
    BY DEF RunRecords, Phases
  <2>3. \E phase \in Phases, j \in Keys \cup {None} :
          call' = [call EXCEPT ![c] = [Idle EXCEPT !.phase = phase, !.run = r, !.key = j]]
    BY <1>7, <2>2 DEF Start
  <2>4. call' \in [Calls -> CallRecords]
    <3>1. PICK x \in CallRecords : call' = [call EXCEPT ![c] = x]
      BY <2>1, <2>3
    <3> QED BY <3>1
  <2> QED BY <1>7, <2>4, NextTyped DEF Start
<1> DEFINE Ends(c) == call' = Ended(c) \/ call' = Failed(c)
                        \/ \E phase \in Phases : call' = Moved(c, phase)
<1>8. ASSUME NEW c \in Calls, Ends(c) PROVE call' \in [Calls -> CallRecords]
  <2>1. \E x \in CallRecords : call' = [call EXCEPT ![c] = x]
    <3>1. CASE call' = Ended(c)
      BY <3>1, CallUpdates, CallsTyped
    <3>2. CASE call' = Failed(c)
      BY <3>2, CallUpdates, CallsTyped
    <3>3. CASE \E phase \in Phases : call' = Moved(c, phase)
      BY <3>3, CallUpdates, CallsTyped
    <3> QED BY <1>8, <3>1, <3>2, <3>3
  <2> QED BY <2>1
<1>9. ASSUME NEW c \in Calls, Ends(c), UNCHANGED <<run, publication, mirror, ledger, record>>
      PROVE  TypeOK'
  BY <1>8, <1>9, NextTyped
<1>10. ASSUME NEW c \in Calls, Reserve(c) PROVE TypeOK'
  <2>1. call[c].run \in Runs /\ call[c].key \in Keys
    BY <1>10, OnRun DEF Reserve, MayReserve
  <2>2. call' \in [Calls -> CallRecords]
    BY <1>10, <2>1, WorkUpdates, WorkTyped
  <2>3. run' \in [Runs -> RunRecords]
    <3>1. [run[call[c].run] EXCEPT !.status = "APPLYING", !.key = call[c].key] \in RunRecords
      <4>1. run[call[c].run] \in RunRecords
        BY <2>1
      <4> HIDE <1>0
      <4> QED BY <2>1, <4>1 DEF RunRecords
    <3>2. run' = [run EXCEPT ![call[c].run] =
                    [run[call[c].run] EXCEPT !.status = "APPLYING", !.key = call[c].key]]
      BY <1>10 DEF Reserve, RunRecords
    <3> QED BY <2>1, <3>1, <3>2
  <2>4. publication' \in Publications /\ UNCHANGED <<mirror, ledger, record>>
    BY <1>10, <2>1 DEF Reserve, Publications, CallRecords
  <2> QED BY <2>2, <2>3, <2>4, NextTyped
<1>11. ASSUME NEW c \in Calls, Join(c) PROVE TypeOK'
  <2>1. call[c].run \in Runs /\ call[c].key \in Keys
    BY <1>11, OnRun DEF Join, MayReserve
  <2>2. call' \in [Calls -> CallRecords]
    <3>1. call'[c] \in CallRecords
      <4>1. call'[c] = BegunCall(c, run[call[c].run].key, FALSE)
        BY <1>11, JoinUpdates
      <4>2. run[call[c].run].key \in Keys \cup {None}
        BY <2>1 DEF RunRecords
      <4>3. \A key \in Keys \cup {None}, alone \in BOOLEAN : BegunCall(c, key, alone) \in CallRecords
        BY <2>1, WorkTyped
      <4>4. FALSE \in BOOLEAN
        OBVIOUS
      <4> QED BY <4>1, <4>2, <4>3, <4>4, Zenon
    <3>2. \A d \in Calls \ {c} : call'[d] \in CallRecords
      <4> TAKE d \in Calls \ {c}
      <4>1. [call[d] EXCEPT !.alone = FALSE] \in CallRecords /\ call[d] \in CallRecords
        BY DisturbedTyped
      <4>2. call'[d] = IF call[d].run = call[c].run THEN [call[d] EXCEPT !.alone = FALSE]
                                                    ELSE call[d]
        BY <1>11, JoinUpdates
      <4> QED BY <4>1, <4>2, Zenon
    <3>3. call' = [d \in Calls |-> call'[d]]
      BY <1>11 DEF Join, Disturb
    <3> QED BY <3>1, <3>2, <3>3
  <2>3. publication' \in Publications /\ UNCHANGED <<run, mirror, ledger, record>>
    BY <1>11, <2>1 DEF Join, Publications
  <2> QED BY <2>2, <2>3, NextTyped
<1>12. ASSUME NEW c \in Calls, Send(c) PROVE TypeOK'
  <2>1. call[c].run \in Runs
    BY <1>12, OnRun DEF Send
  <2>2. call' \in [Calls -> CallRecords]
    BY <1>12, <2>1, WorkUpdates, WorkTyped
  <2> QED BY <1>12, <2>2, NextTyped DEF Send
<1>13. ASSUME NEW c \in Calls, Checkpoint(c) PROVE TypeOK'
  <2>1. call[c].run \in Runs /\ Operation(c) \in Operations
    BY <1>13, OnRun DEF Checkpoint, Operation, Operations
  <2>2. call' \in [Calls -> CallRecords]
    BY <1>13, <2>1, WorkUpdates, WorkTyped
  <2>3. [run EXCEPT ![call[c].run].done[Operation(c)] = "APPLIED"] \in [Runs -> RunRecords]
    BY <1>0, <2>1, MarkTyped
  <2> QED BY <1>13, <2>2, <2>3, NextTyped DEF Checkpoint
<1>14. ASSUME NEW c \in Calls, Uncertain(c) PROVE TypeOK'
  <2>1. call[c].run \in Runs /\ Operation(c) \in Operations
    BY <1>14, OnRun DEF Uncertain, Operation, Operations
  <2>2. [run EXCEPT ![call[c].run].done[Operation(c)] = "UNCERTAIN"] \in [Runs -> RunRecords]
    BY <1>0, <2>1, MarkTyped
  <2> QED BY <1>14, <1>8, <2>2, NextTyped DEF Uncertain
<1>15. ASSUME NEW c \in Calls, Publish(c) PROVE TypeOK'
  <2>1. call[c].run \in Runs
    BY <1>15, OnRun DEF Publish
  <2>2. run' \in [Runs -> RunRecords] /\ publication' \in Publications
    BY <1>15, <2>1 DEF Publish, RunRecords, Publications
  <2> QED BY <1>15, <1>8, <2>2, NextTyped DEF Publish
<1>16. ASSUME NEW c \in Calls, Restore(c) PROVE TypeOK'
  <2>1. call[c].run \in Runs
    BY <1>16, OnRun DEF Restore
  <2>2. Ended(c) \in [Calls -> CallRecords]
    BY CallUpdates, CallsTyped
  <2>3. call' \in [Calls -> CallRecords]
    BY <1>16, <2>2, DisturbTyped DEF Restore
  <2>4. run' \in [Runs -> RunRecords] /\ publication' \in Publications
    BY <1>16, <2>1, UnlockTyped DEF Restore, Publications
  <2> QED BY <1>16, <2>3, <2>4, NextTyped DEF Restore
<1>17. ASSUME NEW c \in Calls, Replay(c) \/ Refuse(c) PROVE TypeOK'
  BY <1>17, AnsweredTyped, NextTyped DEF Replay, Refuse
<1>18. ASSUME NEW c \in Calls, Write(c) PROVE TypeOK'
  <2>1. call[c].run \in Runs /\ call[c].key \in Keys
    BY <1>18, OnRun DEF Write, Arrives
  <2>2. run[call[c].run].source \in Contents
    BY <2>1 DEF RunRecords
  <2>3. ledger' \in Ledgers /\ mirror' \in [source : Contents, target : Contents]
    <3>1. CASE WriteMonths(c)
      <4>1. Key(c, "MONTHS") \in Runs \X Keys \X Operations
        BY <2>1 DEF Key, Operations
      <4>2. ledger' \in Ledgers
        BY <2>2, <3>1, <4>1 DEF WriteMonths, Ledgers
      <4> QED BY <2>2, <3>1, <4>2 DEF WriteMonths
    <3>2. CASE WriteYear(c)
      <4>1. Key(c, "YEAR") \in Runs \X Keys \X Operations
        BY <2>1 DEF Key, Operations
      <4>2. ledger.year + 1 \in Nat
            /\ ledger.keys \cup {Key(c, "YEAR")} \in SUBSET (Runs \X Keys \X Operations)
        BY <4>1 DEF Ledgers
      <4>3. ledger' = [ledger EXCEPT !.year = ledger.year + 1,
                                     !.keys = ledger.keys \cup {Key(c, "YEAR")}]
        BY <3>2 DEF WriteYear
      <4>4. ledger' \in Ledgers
        BY <4>2, <4>3 DEF Ledgers
      <4> QED BY <3>2, <4>4 DEF WriteYear
    <3> QED BY <1>18, <3>1, <3>2 DEF Write
  <2> QED BY <1>18, <2>3, AnsweredTyped, NextTyped DEF Write
<1>19. ASSUME NEW c \in Calls, Vanish(c) PROVE TypeOK'
  BY <1>19, IdleTyped, NextTyped DEF Vanish
<1>20. CASE UNCHANGED vars
  BY <1>20, NextTyped DEF vars
<1> QED
  BY <1>1, <1>2, <1>3, <1>4, <1>5, <1>6, <1>7, <1>9, <1>10, <1>11, <1>12, <1>13, <1>14,
     <1>15, <1>16, <1>17, <1>18, <1>19, <1>20
     DEF Next, CallStep, Reconcile, NotSent, Hear, CheckpointFails, ReadBack, Crash, Phases

-----------------------------------------------------------------------------
(* What calls know stays true *)
LEMMA SoundKept ==
  ASSUME NEW x, NEW R, NEW K, NEW R2, NEW K2, Sound(x, R, K), K \subseteq K2,
         \A r \in Runs : R[r].status # "NONE" => R2[r].status # "NONE"
  PROVE  Sound(x, R2, K2)
BY DEF Sound, Written

LEMMA SoundDisturbed ==
  ASSUME NEW x \in CallRecords, NEW R, NEW K, Sound(x, R, K), x.run \in Runs
  PROVE  Sound([x EXCEPT !.alone = FALSE], R, K)
<1> DEFINE y == [x EXCEPT !.alone = FALSE]
<1>1. x # Idle
  BY DEF Idle
<1>2. /\ y.phase = x.phase /\ y.run = x.run /\ y.key = x.key /\ y.sent = x.sent
      /\ y.reply = x.reply /\ y.seen = x.seen /\ y.age = x.age
  BY DEF CallRecords
<1> HIDE DEF y
<1>3. NextOf(y) = NextOf(x)
  BY <1>2 DEF NextOf
<1> QED BY <1>1, <1>2, <1>3 DEF Sound, y

\* The calls remain sound when the one that moves becomes something sound and the
\* others are left as they are or disturbed.
Kept ==
  /\ ledger.keys \subseteq ledger'.keys
  /\ \A r \in Runs : run[r].status # "NONE" => run'[r].status # "NONE"
LeftTo(d) ==
  call'[d] = call[d] \/ (call[d].run \in Runs /\ call'[d] = [call[d] EXCEPT !.alone = FALSE])

LEMMA OthersSound ==
  ASSUME TypeOK, CallsSound, Kept, NEW d \in Calls, LeftTo(d)
  PROVE  Sound(call'[d], run', ledger'.keys)
<1>1. Sound(call[d], run', ledger'.keys)
  BY SoundKept DEF CallsSound, Kept
<1> QED BY <1>1, RecordsTyped, SoundDisturbed DEF LeftTo

LEMMA OneMoves ==
  ASSUME TypeOK, CallsSound, Kept, NEW c \in Calls, NEW x, call' = [call EXCEPT ![c] = x],
         Sound(x, run, ledger.keys) \/ Sound(x, run', ledger'.keys)
  PROVE  CallsSound'
<1>1. Sound(x, run', ledger'.keys)
  BY SoundKept DEF Kept
<1>2. call'[c] = x /\ \A d \in Calls \ {c} : call'[d] = call[d]
  BY RecordsTyped
<1> QED BY <1>1, <1>2, OthersSound DEF CallsSound, LeftTo

LEMMA SoundEnded ==
  ASSUME TypeOK, CallsSound, NEW c \in Calls, call[c].phase # "IDLE"
  PROVE  Sound(EndedCall(c), run, ledger.keys)
<1> DEFINE x == [call[c] EXCEPT !.phase = "OVER", !.reply = "NONE", !.seen = Idle.seen]
<1>1. /\ x.phase = "OVER" /\ x.run = call[c].run /\ x.key = call[c].key
      /\ x.sent = call[c].sent /\ x.reply = "NONE" /\ x.age = call[c].age
      /\ x.seen = Idle.seen
  BY RecordsTyped DEF CallRecords
<1>2. call[c] # Idle /\ call[c].age \in Nat
  BY RecordsTyped DEF Idle, CallRecords
<1>3. \A o \in Operations : Idle.seen[o] = "NONE"
  BY DEF Idle
<1>4. call[c].run \in Runs /\ call[c].key \in Keys /\ run[call[c].run].status # "NONE"
      /\ call[c].age <= Life + Flight
  BY <1>2 DEF CallsSound, Sound
<1>5. Sound(x, run, ledger.keys)
  <2> HIDE DEF x
  <2> QED BY <1>1, <1>3, <1>4 DEF Sound
<1> QED BY <1>5 DEF EndedCall, Sound

LEMMA SoundMoved ==
  ASSUME TypeOK, CallsSound, NEW c \in Calls,
         call[c].phase \in {"RESTORING", "WORKING", "WAITING", "APPLIED", "CONFIRMED"},
         NEW phase \in {"RESTORING", "APPLIED", "CONFIRMED"},
         call[c].sent # "NONE" => Key(c, call[c].sent) \in ledger.keys,
         phase = "APPLIED" => Key(c, Operation(c)) \in ledger.keys,
         phase = "CONFIRMED" => AllDone(c)
  PROVE  Sound(MovedCall(c, phase), run, ledger.keys)
<1> DEFINE x == MovedCall(c, phase)
<1>1. /\ x.phase = phase /\ x.run = call[c].run /\ x.key = call[c].key
      /\ x.sent = call[c].sent /\ x.reply = "NONE" /\ x.age = call[c].age
      /\ x.seen = call[c].seen
  BY RecordsTyped DEF MovedCall, CallRecords
<1>2. call[c] # Idle /\ Operation(c) = NextOf(x)
  BY <1>1 DEF Idle, Operation, NextOf, Sure
<1> HIDE DEF x
<1> QED BY <1>1, <1>2 DEF CallsSound, Sound, Key, AllDone, Sure, x

LEMMA SoundFailed ==
  ASSUME TypeOK, CallsSound, NEW c \in Calls,
         call[c].phase \in {"RESTORING", "WORKING", "WAITING", "APPLIED", "CONFIRMED"},
         call[c].sent # "NONE" => Key(c, call[c].sent) \in ledger.keys
  PROVE  Sound(FailedCall(c), run, ledger.keys)
BY SoundEnded, SoundMoved DEF FailedCall

\* What an answer makes of a call is sound if its write was recorded.
LEMMA SoundAnswered ==
  ASSUME TypeOK, CallsSound, NEW c \in Calls, call[c].sent # "NONE",
         NEW reply \in {"OK", "REFUSED"}, NEW K, ledger.keys \subseteq K,
         reply = "OK" => Key(c, call[c].sent) \in K
  PROVE  Sound(AnsweredCall(c, reply), run, K)
<1> DEFINE said == IF call[c].phase = "WAITING" THEN reply ELSE "NONE"
           x == [call[c] EXCEPT !.sent = "NONE", !.reply = said]
<1>1. /\ x.phase = call[c].phase /\ x.run = call[c].run /\ x.key = call[c].key
      /\ x.sent = "NONE" /\ x.reply = said /\ x.age = call[c].age
      /\ x.seen = call[c].seen
  BY RecordsTyped DEF CallRecords
<1>2. call[c] # Idle
  BY DEF Idle
<1>3. NextOf(x) = NextOf(call[c])
  BY <1>1 DEF NextOf
<1>4. Sound(call[c], run, K)
  BY SoundKept DEF CallsSound
<1>5. said = "OK" => Key(c, call[c].sent) \in K /\ call[c].phase = "WAITING"
  OBVIOUS
<1>6. said # "NONE" => call[c].phase = "WAITING"
  OBVIOUS
<1>7. Sound(x, run, K)
  <2> HIDE DEF x, said
  <2> QED BY <1>1, <1>2, <1>3, <1>4, <1>5, <1>6 DEF Sound, Key
<1>8. AnsweredCall(c, reply) = IF call[c].phase = "OVER" THEN Idle ELSE x
  BY Zenon DEF AnsweredCall
<1> HIDE DEF x
<1> QED BY <1>7, <1>8 DEF Sound

\* No record of the JVM is lost and no run is unstaged.
LEMMA StepKept ==
  ASSUME TypeOK, CallsSound, LockSound, [Next]_vars PROVE Kept
<1>0. run \in [Runs -> RunRecords]
  BY RecordsTyped
<1>1. ASSUME UNCHANGED <<run, ledger>> PROVE Kept
  BY <1>1 DEF Kept
<1>2. ASSUME NEW r \in Runs, Unlock(r), UNCHANGED ledger PROVE Kept
  BY <1>0, <1>2 DEF Unlock, RunRecords, Kept
<1>3. ASSUME NEW r \in Runs, NEW w \in Modes, Stage(r, w) PROVE Kept
  BY <1>0, <1>3 DEF Stage, Kept
<1>4. ASSUME NEW x \in Contents, Edit(x) PROVE Kept
  BY <1>4 DEF Edit, Kept, TypeOK
<1>5. ASSUME NEW c \in Calls, Reserve(c) PROVE Kept
  BY <1>0, <1>5 DEF Reserve, Kept, RunRecords
<1>6. ASSUME NEW c \in Calls, Checkpoint(c) PROVE Kept
  BY <1>0, <1>6 DEF Checkpoint, Kept, RunRecords
<1>7. ASSUME NEW c \in Calls, Uncertain(c) PROVE Kept
  BY <1>0, <1>7 DEF Uncertain, Kept, RunRecords
<1>8. ASSUME NEW c \in Calls, Publish(c) PROVE Kept
  BY <1>0, <1>8 DEF Publish, Kept, RunRecords
<1>9. ASSUME NEW c \in Calls, Restore(c) PROVE Kept
  BY <1>1, <1>2, <1>9, OnRun DEF Restore
<1>10. ASSUME NEW c \in Calls, Write(c) PROVE Kept
  <2>1. \E o \in Operations : ledger'.keys = ledger.keys \cup {Key(c, o)}
    BY <1>10 DEF Write, WriteMonths, WriteYear, TypeOK, Operations
  <2> QED BY <1>10, <2>1 DEF Write, Kept
<1>11. ASSUME ReleaseExpired \/ ForceRelease PROVE Kept
  BY <1>2, <1>11 DEF ReleaseExpired, Expired, ForceRelease, LockSound
<1> QED
  BY <1>1, <1>3, <1>4, <1>5, <1>6, <1>7, <1>8, <1>9, <1>10, <1>11
     DEF Next, CallStep, Refresh, Tick, Start, Join, Send, Reconcile, NotSent, Hear,
         CheckpointFails, ReadBack, Replay, Refuse, Crash, Vanish, vars

LEMMA StepCallsSound ==
  ASSUME TypeOK, CallsSound, RunsSound, LockSound, [Next]_vars
  PROVE  CallsSound'
<1>0. Kept /\ call \in [Calls -> CallRecords] /\ run \in [Runs -> RunRecords]
  BY StepKept, RecordsTyped
<1>1. ASSUME \A d \in Calls : LeftTo(d) PROVE CallsSound'
  BY <1>0, <1>1, OthersSound DEF CallsSound
<1>2. ASSUME ForceRelease PROVE CallsSound'
  <2>1. publication.run \in Runs
    BY <1>2 DEF ForceRelease, LockSound
  <2> QED BY <1>1, <1>2, <2>1 DEF ForceRelease, Disturb, CallsOn, LeftTo
<1>3. ASSUME Tick PROVE CallsSound'
  <2>1. ASSUME NEW c \in Calls, call[c].phase # "IDLE"
        PROVE  Sound([call[c] EXCEPT !.age = @ + 1], run, ledger.keys)
    <3> DEFINE x == [call[c] EXCEPT !.age = @ + 1]
    <3>1. /\ x.phase = call[c].phase /\ x.run = call[c].run /\ x.key = call[c].key
          /\ x.sent = call[c].sent /\ x.reply = call[c].reply /\ x.age = call[c].age + 1
          /\ x.seen = call[c].seen
      BY <1>0 DEF CallRecords
    <3>2. call[c] # Idle
      BY <2>1 DEF Idle
    <3>3. NextOf(x) = NextOf(call[c])
      BY <3>1 DEF NextOf
    <3>4. call[c].age + 1 <= Life + Flight /\ (call[c].phase # "OVER" => call[c].age + 1 <= Life)
      BY <1>0, <1>3, <2>1 DEF Tick, AtLimit, Live, CallRecords
    <3> HIDE DEF x
    <3> QED BY <3>1, <3>2, <3>3, <3>4 DEF CallsSound, Sound, x
  <2>2. ASSUME NEW c \in Calls PROVE Sound(call'[c], run', ledger'.keys)
    BY <1>3, <2>1 DEF Tick, CallsSound
  <2> QED BY <2>2 DEF CallsSound
<1>4. ASSUME NEW c \in Calls, NEW r \in Runs, NEW k \in Keys, Start(c, r, k) PROVE CallsSound'
  <2>1. ASSUME NEW phase \in {"RESERVING", "RESTORING"}, NEW j \in Keys, run[r].status # "NONE"
        PROVE  Sound([Idle EXCEPT !.phase = phase, !.run = r, !.key = j], run, ledger.keys)
    <3> DEFINE x == [Idle EXCEPT !.phase = phase, !.run = r, !.key = j]
    <3>1. /\ x.phase = phase /\ x.run = r /\ x.key = j /\ x.sent = "NONE" /\ x.reply = "NONE"
          /\ x.age = 0 /\ \A o \in Operations : x.seen[o] = "NONE"
      BY DEF Idle
    <3> HIDE DEF x
    <3> QED BY <2>1, <3>1 DEF Sound, x
  <2>2. run[r].status = "APPLYING" => run[r].key \in Keys
    BY DEF RunsSound
  <2>3. PICK phase \in {"RESERVING", "RESTORING"}, j \in Keys :
          call' = [call EXCEPT ![c] = [Idle EXCEPT !.phase = phase, !.run = r, !.key = j]]
    BY <1>4, <2>2 DEF Start
  <2> QED BY <1>0, <1>4, <2>1, <2>3, OneMoves DEF Start
<1>5. ASSUME NEW c \in Calls, call' = Ended(c), call[c].phase # "IDLE" PROVE CallsSound'
  BY <1>0, <1>5, CallUpdates, SoundEnded, OneMoves
<1>6. ASSUME NEW c \in Calls, Send(c) PROVE CallsSound'
  <2> DEFINE x == SentCall(c)
  <2>1. /\ x.phase = "WAITING" /\ x.run = call[c].run /\ x.key = call[c].key
        /\ x.sent = Operation(c) /\ x.reply = call[c].reply /\ x.age = call[c].age
        /\ x.seen = call[c].seen
    BY <1>0 DEF SentCall, CallRecords
  <2>2. call[c] # Idle /\ Operation(c) = NextOf(x) /\ call[c].phase = "WORKING"
    BY <1>6, <2>1 DEF Idle, Operation, NextOf, Sure, Send
  <2>3. Sound(x, run, ledger.keys)
    <3> HIDE DEF x
    <3> QED BY <2>1, <2>2 DEF CallsSound, Sound
  <2> QED BY <1>0, <1>6, <2>3, WorkUpdates, OneMoves
<1>7. ASSUME NEW c \in Calls, call[c].phase = "WORKING" \/ call[c].phase = "APPLIED"
                \/ (call[c].phase = "WAITING" /\ call[c].reply # "NONE")
      PROVE  call[c].sent # "NONE" => Key(c, call[c].sent) \in ledger.keys
  <2>1. call[c] # Idle
    BY <1>7 DEF Idle
  <2> QED BY <1>7, <2>1 DEF CallsSound, Sound, Key
<1>8. ASSUME NEW c \in Calls, Reconcile(c) PROVE CallsSound'
  <2>1. Key(c, Operation(c)) \in ledger.keys /\ call[c].phase \in {"WORKING", "WAITING"}
    BY <1>8 DEF Reconcile
  <2>2. call[c].sent # "NONE" => Key(c, call[c].sent) \in ledger.keys
    <3>1. CASE call[c].phase = "WORKING"
      BY <1>7, <3>1
    <3>2. CASE call[c].phase = "WAITING"
      <4>1. call[c] # Idle /\ NextOf(call[c]) = Operation(c)
        BY <3>2 DEF Idle, Operation, NextOf, Sure
      <4> QED BY <2>1, <3>2, <4>1 DEF CallsSound, Sound
    <3> QED BY <2>1, <3>1, <3>2
  <2>3. Sound(MovedCall(c, "APPLIED"), run, ledger.keys)
    BY <2>1, <2>2, SoundMoved
  <2> QED BY <1>0, <1>8, <2>3, CallUpdates, OneMoves DEF Reconcile
<1>9. ASSUME NEW c \in Calls, NotSent(c) \/ CheckpointFails(c) PROVE CallsSound'
  <2>1. Sound(FailedCall(c), run, ledger.keys)
    BY <1>7, <1>9, SoundFailed DEF NotSent, CheckpointFails
  <2> QED BY <1>0, <1>9, <2>1, CallUpdates, OneMoves DEF NotSent, CheckpointFails
<1>10. ASSUME NEW c \in Calls, Hear(c) PROVE CallsSound'
  <2>1. call[c].phase = "WAITING" /\ call[c].reply # "NONE"
        /\ (call[c].sent # "NONE" => Key(c, call[c].sent) \in ledger.keys)
    BY <1>7, <1>10 DEF Hear
  <2>2. CASE call[c].reply = "OK" /\ call' = Moved(c, "APPLIED")
    <3>1. Key(c, Operation(c)) \in ledger.keys
      BY <2>1, <2>2 DEF CallsSound, Sound, Idle, Operation, NextOf, Sure, Key
    <3>2. Sound(MovedCall(c, "APPLIED"), run, ledger.keys)
      BY <2>1, <3>1, SoundMoved
    <3> QED BY <1>0, <2>2, <3>2, CallUpdates, OneMoves
  <2>3. CASE call' = Failed(c)
    BY <1>0, <2>1, <2>3, SoundFailed, CallUpdates, OneMoves
  <2> QED BY <1>10, <2>2, <2>3 DEF Hear
<1>11. ASSUME NEW c \in Calls, ReadBack(c) PROVE CallsSound'
  <2>1. Sound(MovedCall(c, "CONFIRMED"), run, ledger.keys)
    BY <1>7, <1>11, SoundMoved DEF ReadBack
  <2> QED BY <1>0, <1>11, <2>1, CallUpdates, OneMoves DEF ReadBack
<1>12. ASSUME NEW c \in Calls, NEW key \in Keys, NEW alone \in BOOLEAN,
              call[c].phase = "RESERVING"
       PROVE  Sound(BegunCall(c, key, alone), run, ledger.keys)
  <2> DEFINE x == BegunCall(c, key, alone)
  <2>1. /\ x.phase = "WORKING" /\ x.run = call[c].run /\ x.key = key
        /\ x.sent = call[c].sent /\ x.reply = call[c].reply /\ x.age = call[c].age
        /\ x.seen = run[call[c].run].done
    BY <1>0 DEF BegunCall, CallRecords
  <2>2. call[c] # Idle
    BY <1>12 DEF Idle
  <2> HIDE DEF x
  <2> QED BY <1>12, <2>1, <2>2, ZenonT(40) DEF CallsSound, Sound, RunsSound, x
<1>13. ASSUME NEW c \in Calls, Reserve(c) PROVE CallsSound'
  <2>1. Unwatched(c) \in BOOLEAN /\ call[c].phase = "RESERVING" /\ call[c].key \in Keys
    BY <1>13, OnRun DEF Unwatched, Reserve, MayReserve
  <2>2. Sound(BegunCall(c, call[c].key, Unwatched(c)), run, ledger.keys)
    BY <1>12, <2>1, Zenon
  <2> QED BY <1>0, <1>13, <2>2, WorkUpdates, OneMoves
<1>14. ASSUME NEW c \in Calls, Join(c) PROVE CallsSound'
  <2>1. /\ call[c].phase = "RESERVING" /\ call[c].run \in Runs
        /\ run[call[c].run].key \in Keys /\ UNCHANGED <<run, ledger>>
    BY <1>14, OnRun DEF Join, MayReserve, RunsSound
  <2>2. Sound(call'[c], run', ledger'.keys)
    <3>1. FALSE \in BOOLEAN
      OBVIOUS
    <3>2. Sound(BegunCall(c, run[call[c].run].key, FALSE), run, ledger.keys)
      BY <1>12, <2>1, <3>1, Zenon
    <3> QED BY <1>14, <2>1, <3>2, JoinUpdates
  <2>3. \A d \in Calls \ {c} : LeftTo(d)
    BY <1>14, <2>1, JoinUpdates DEF LeftTo
  <2> QED BY <1>0, <2>2, <2>3, OthersSound DEF CallsSound
<1>15. ASSUME NEW c \in Calls, Checkpoint(c) PROVE CallsSound'
  <2> DEFINE x == CheckedCall(c)
             o == Operation(c)
  <2>1. /\ x.phase = "WORKING" /\ x.run = call[c].run /\ x.key = call[c].key
        /\ x.sent = call[c].sent /\ x.reply = call[c].reply /\ x.age = call[c].age
        /\ x.seen = [call[c].seen EXCEPT ![o] = "APPLIED"]
    <3> HIDE DEF o
    <3> QED BY <1>0 DEF CheckedCall, CallRecords, o
  <2>2. call[c] # Idle /\ call[c].phase = "APPLIED"
    BY <1>15 DEF Idle, Checkpoint
  <2>3. o \in Operations /\ <<call[c].run, call[c].key, o>> \in ledger.keys
    BY <2>2 DEF CallsSound, Sound, Operation, NextOf, Sure, Operations
  <2>4. \A p \in Operations : x.seen[p] = "APPLIED" => p = o \/ call[c].seen[p] = "APPLIED"
    <3> HIDE DEF x, o
    <3> QED BY <1>0, <2>1, <2>3 DEF CallRecords, Marks
  <2>5. Sound(x, run, ledger.keys)
    <3> HIDE DEF x, o
    <3> QED BY <2>1, <2>2, <2>3, <2>4 DEF CallsSound, Sound, Written
  <2> QED BY <1>0, <1>15, <2>5, WorkUpdates, OneMoves
<1>16. ASSUME NEW c \in Calls, Restore(c) PROVE CallsSound'
  <2>1. call[c].phase # "IDLE" /\ call[c].run \in Runs
    BY <1>16, OnRun DEF Restore
  <2>2. Ended(c) = [call EXCEPT ![c] = EndedCall(c)] /\ Sound(EndedCall(c), run, ledger.keys)
    BY <2>1, CallUpdates, SoundEnded
  <2>3. call'[c] = EndedCall(c) /\ \A d \in Calls \ {c} : LeftTo(d)
    <3>1. CASE Holds(c)
      <4>1. call' = Disturb(Ended(c), CallsOn(call[c].run) \ {c})
        BY <1>16, <3>1 DEF Restore
      <4>2. Ended(c)[c] = EndedCall(c) /\ \A d \in Calls \ {c} : Ended(c)[d] = call[d]
        BY <1>0, <2>2
      <4> HIDE <2>2
      <4> QED BY <2>1, <4>1, <4>2 DEF Disturb, CallsOn, LeftTo
    <3>2. CASE ~Holds(c)
      BY <1>0, <1>16, <2>2, <3>2 DEF Restore, LeftTo
    <3> QED BY <3>1, <3>2
  <2>4. Sound(call'[c], run', ledger'.keys)
    BY <1>0, <2>2, <2>3, SoundKept DEF Kept
  <2> QED BY <1>0, <2>3, <2>4, OthersSound DEF CallsSound
<1>17. ASSUME NEW c \in Calls, Replay(c) \/ Refuse(c) PROVE CallsSound'
  <2>1. PICK reply \in {"OK", "REFUSED"} :
          /\ call' = Answered(c, reply) /\ call[c].sent # "NONE"
          /\ reply = "OK" => Key(c, call[c].sent) \in ledger.keys
    BY <1>17 DEF Replay, Refuse, Arrives
  <2>2. Sound(AnsweredCall(c, reply), run, ledger.keys)
    BY <2>1, SoundAnswered
  <2> QED BY <1>0, <2>1, <2>2, CallUpdates, OneMoves
<1>18. ASSUME NEW c \in Calls, Write(c) PROVE CallsSound'
  <2>1. Key(c, call[c].sent) \in ledger'.keys /\ ledger.keys \subseteq ledger'.keys
        /\ call[c].sent # "NONE" /\ UNCHANGED run /\ call' = Answered(c, "OK")
    <3>1. \E o \in Operations : call[c].sent = o /\ ledger'.keys = ledger.keys \cup {Key(c, o)}
      BY <1>18 DEF Write, WriteMonths, WriteYear, TypeOK, Operations
    <3> QED BY <1>0, <1>18, <3>1 DEF Kept, Write, Arrives
  <2>2. Sound(AnsweredCall(c, "OK"), run, ledger'.keys)
    BY <2>1, SoundAnswered
  <2> QED BY <1>0, <2>1, <2>2, CallUpdates, OneMoves
<1>19. ASSUME NEW c \in Calls, Vanish(c) PROVE CallsSound'
  BY <1>0, <1>19, OneMoves DEF Vanish, Sound
<1>20. ASSUME UNCHANGED call PROVE CallsSound'
  BY <1>1, <1>20 DEF LeftTo
<1> QED
  BY <1>2, <1>3, <1>4, <1>5, <1>6, <1>8, <1>9, <1>10, <1>11, <1>13, <1>14, <1>15, <1>16,
     <1>17, <1>18, <1>19, <1>20
     DEF Next, CallStep, Refresh, Stage, Edit, ReleaseExpired, Uncertain, Publish, Crash,
         Live, vars

-----------------------------------------------------------------------------
(* What the runs say stays true, and agrees with the lock *)
LEMMA StepRunsSound ==
  ASSUME TypeOK, CallsSound, RunsSound, LockSound, [Next]_vars
  PROVE  RunsSound'
<1>0. Kept /\ call \in [Calls -> CallRecords] /\ run \in [Runs -> RunRecords]
  BY StepKept, RecordsTyped
<1> DEFINE Right(r) ==
      /\ run'[r].status \in {"APPLYING", "APPLIED"} => run'[r].key \in Keys
      /\ \A o \in Operations : run'[r].done[o] = "APPLIED" => Written(r, o, ledger.keys)
      /\ run'[r].status = "APPLIED" => \A o \in Operations : Written(r, o, ledger.keys)
\* Steps that leave the ledger's keys.
<1>1. ASSUME \A r \in Runs : run'[r] = run[r] \/ Right(r), ledger'.keys = ledger.keys
      PROVE  RunsSound'
  BY <1>0, <1>1 DEF RunsSound, Kept
<1>2. ASSUME NEW c \in Calls, Write(c) PROVE RunsSound'
  <2>1. call[c].run \in Runs /\ call[c].key \in Keys /\ run[call[c].run].status # "NONE"
    BY <1>2, OnRun DEF Write, Arrives
  <2>2. PICK o \in Operations : ledger'.keys = ledger.keys \cup {<<call[c].run, call[c].key, o>>}
    BY <1>2 DEF Write, WriteMonths, WriteYear, TypeOK, Operations, Key
  <2>3. run' = run
    BY <1>2 DEF Write
  <2> QED BY <2>1, <2>2, <2>3 DEF RunsSound, Written
<1>3. ASSUME NEW r \in Runs, Unlock(r), UNCHANGED ledger PROVE RunsSound'
  <2> DEFINE x == [run[r] EXCEPT !.status = "READY", !.key = None]
  <2>0. x.status = "READY" /\ x.done = run[r].done
    BY <1>0 DEF RunRecords
  <2>1. run' = run \/ run' = [run EXCEPT ![r] = x]
    BY <1>0, <1>3 DEF Unlock, RunRecords
  <2> HIDE DEF x
  <2>2. \A q \in Runs : run'[q] = run[q] \/ (run'[q].status = "READY" /\ run'[q].done = run[q].done)
    BY <1>0, <2>0, <2>1
  <2>3. \A q \in Runs : run'[q] = run[q] \/ Right(q)
    BY <2>2 DEF RunsSound
  <2> QED BY <1>1, <1>3, <2>3
<1>4. ASSUME NEW r \in Runs, NEW w \in Modes, Stage(r, w) PROVE RunsSound'
  <2> DEFINE x == [NoRun EXCEPT !.status = "READY", !.source = mirror.source,
                     !.base = mirror.target, !.yearBase = ledger.year, !.oneWay = w]
  <2>1. x.status = "READY" /\ \A o \in Operations : x.done[o] = "NONE"
    BY DEF NoRun
  <2>2. run' = [run EXCEPT ![r] = x] /\ UNCHANGED ledger
    BY <1>4 DEF Stage
  <2> HIDE DEF x
  <2>3. \A q \in Runs : run'[q] = run[q] \/ Right(q)
    BY <1>0, <2>1, <2>2
  <2> QED BY <1>1, <2>2, <2>3
<1>5. ASSUME NEW c \in Calls, Reserve(c) PROVE RunsSound'
  <2>1. call[c].run \in Runs /\ call[c].key \in Keys
    BY <1>5, OnRun DEF Reserve, MayReserve
  <2>2. run' = [run EXCEPT ![call[c].run] =
                  [run[call[c].run] EXCEPT !.status = "APPLYING", !.key = call[c].key]]
    BY <1>0, <1>5, <2>1 DEF Reserve, RunRecords
  <2>3. \A q \in Runs : run'[q] = run[q] \/ Right(q)
    BY <1>0, <2>1, <2>2 DEF RunRecords, RunsSound
  <2> QED BY <1>1, <1>5, <2>3 DEF Reserve
<1>6. ASSUME NEW c \in Calls, NEW mark \in {"UNCERTAIN", "APPLIED"},
             call[c].phase # "IDLE",
             mark = "APPLIED" => Written(call[c].run, Operation(c), ledger.keys),
             run' = [run EXCEPT ![call[c].run].done[Operation(c)] = mark],
             UNCHANGED ledger
      PROVE  RunsSound'
  <2> DEFINE r == call[c].run
             p == Operation(c)
  <2>1. r \in Runs /\ p \in Operations
    BY <1>6, OnRun DEF Operation, Operations
  <2>2. /\ run'[r].status = run[r].status /\ run'[r].key = run[r].key
        /\ \A o \in Operations : run'[r].done[o] = (IF o = p THEN mark ELSE run[r].done[o])
        /\ \A q \in Runs \ {r} : run'[q] = run[q]
    <3> HIDE DEF p, r
    <3>1. run' = [run EXCEPT ![r].done[p] = mark]
      BY <1>6 DEF p, r
    <3> QED BY <1>0, <2>1, <3>1 DEF RunRecords, Marks
  <2>3. \A o \in Operations : run'[r].done[o] = "APPLIED" => Written(r, o, ledger.keys)
    <3> HIDE DEF p, r
    <3> QED BY <1>6, <2>1, <2>2 DEF RunsSound, p, r
  <2>4. Right(r)
    <3> HIDE DEF p
    <3> QED BY <2>1, <2>2, <2>3 DEF RunsSound
  <2> QED BY <1>1, <1>6, <2>1, <2>2, <2>4
<1>7. ASSUME NEW c \in Calls, Checkpoint(c) PROVE RunsSound'
  <2>1. call[c].phase = "APPLIED" /\ call[c] # Idle /\ NextOf(call[c]) = Operation(c)
    BY <1>7 DEF Checkpoint, Idle, Operation, NextOf, Sure
  <2>2. Written(call[c].run, Operation(c), ledger.keys)
    BY <2>1 DEF CallsSound, Sound, Written
  <2> QED BY <1>1, <1>6, <1>7, <2>1, <2>2 DEF Checkpoint
<1>8. ASSUME NEW c \in Calls, Uncertain(c) PROVE RunsSound'
  BY <1>1, <1>6, <1>8 DEF Uncertain
<1>9. ASSUME NEW c \in Calls, Publish(c) PROVE RunsSound'
  <2> DEFINE r == call[c].run
  <2>1. call[c] # Idle /\ r \in Runs /\ run[r].status = "APPLYING"
    BY <1>9, OnRun DEF Publish, Idle, Holds
  <2>2. \A o \in Operations : Written(r, o, ledger.keys)
    BY <1>9, <2>1 DEF Publish, CallsSound, Sound
  <2>3. run' = [run EXCEPT ![r] = [run[r] EXCEPT !.status = "APPLIED"]] /\ UNCHANGED ledger
    BY <1>0, <1>9 DEF Publish
  <2>4. \A q \in Runs : run'[q] = run[q] \/ Right(q)
    <3> HIDE DEF r
    <3> QED BY <1>0, <2>1, <2>2, <2>3 DEF RunRecords, RunsSound
  <2> QED BY <1>1, <2>3, <2>4
<1>10. ASSUME NEW c \in Calls, Restore(c) PROVE RunsSound'
  BY <1>1, <1>3, <1>10, OnRun DEF Restore
<1>11. ASSUME ReleaseExpired \/ ForceRelease PROVE RunsSound'
  BY <1>3, <1>11 DEF ReleaseExpired, Expired, ForceRelease, LockSound
<1>12. ASSUME NEW x \in Contents, Edit(x) PROVE RunsSound'
  BY <1>1, <1>12 DEF Edit, TypeOK
<1>13. ASSUME UNCHANGED <<run, ledger>> PROVE RunsSound'
  BY <1>1, <1>13
<1> QED
  BY <1>2, <1>4, <1>5, <1>7, <1>8, <1>9, <1>10, <1>11, <1>12, <1>13
     DEF Next, CallStep, Refresh, Tick, Start, Join, Send, Reconcile, NotSent, Hear,
         CheckpointFails, ReadBack, Replay, Refuse, Crash, Vanish, vars

LEMMA StepLockSound ==
  ASSUME TypeOK, CallsSound, LockSound, [Next]_vars
  PROVE  LockSound'
<1>0. run \in [Runs -> RunRecords] /\ publication \in Publications
  BY NowTyped
<1>1. ASSUME publication' = publication, \A r \in Runs : run'[r].status = run[r].status
      PROVE  LockSound'
  BY <1>1 DEF LockSound, LockAgrees, Locked
<1>2. ASSUME NEW r \in Runs, Locked(r), Unlock(r) PROVE LockSound'
  <2>1. run' = [run EXCEPT ![r] = [run[r] EXCEPT !.status = "READY", !.key = None]]
        /\ publication'.status = "READY"
    BY <1>0, <1>2 DEF Unlock, LockSound, LockAgrees, RunRecords, Publications
  <2> QED BY <1>0, <1>2, <2>1 DEF LockSound, LockAgrees, Locked, RunRecords
<1>3. ASSUME ReleaseExpired \/ ForceRelease PROVE LockSound'
  BY <1>2, <1>3 DEF ReleaseExpired, Expired, ForceRelease, LockSound, Locked
<1>4. ASSUME NEW r \in Runs, NEW w \in Modes, Stage(r, w) PROVE LockSound'
  <2>1. run' = [run EXCEPT ![r] = run'[r]] /\ run[r].status = "NONE" /\ run'[r].status = "READY"
        /\ publication' = publication
    BY <1>0, <1>4 DEF Stage, NoRun
  <2> QED BY <1>0, <2>1 DEF LockSound, LockAgrees, Locked
<1>5. ASSUME NEW c \in Calls, Reserve(c) PROVE LockSound'
  <2> DEFINE r == call[c].run
  <2>1. r \in Runs /\ run[r].status = "READY"
        /\ (publication.status = "APPLYING" => publication.run = r)
    BY <1>5, OnRun DEF Reserve, MayReserve
  <2>2. \A q \in Runs : run[q].status # "APPLYING"
    BY <2>1 DEF LockSound, LockAgrees, Locked
  <2>3. /\ run'[r].status = "APPLYING" /\ \A q \in Runs \ {r} : run'[q] = run[q]
        /\ publication'.status = "APPLYING" /\ publication'.run = r
    BY <1>0, <1>5, <2>1 DEF Reserve, RunRecords
  <2> HIDE DEF r
  <2> QED BY <2>1, <2>2, <2>3 DEF LockSound, LockAgrees, Locked
<1>6. ASSUME NEW c \in Calls, Join(c) PROVE LockSound'
  <2>1. call[c].run \in Runs /\ run[call[c].run].status = "APPLYING" /\ run' = run
    BY <1>6, OnRun DEF Join, MayReserve
  <2>2. publication' = publication
    BY <1>0, <1>6, <2>1 DEF Join, LockSound, LockAgrees, Locked, Publications
  <2> QED BY <1>1, <2>1, <2>2
<1>7. ASSUME NEW c \in Calls, Checkpoint(c) \/ Uncertain(c) PROVE LockSound'
  <2>1. \A r \in Runs : run'[r].status = run[r].status
    BY <1>0, <1>7 DEF Checkpoint, Uncertain, RunRecords
  <2> QED BY <1>1, <1>7, <2>1 DEF Checkpoint, Uncertain
<1>8. ASSUME NEW c \in Calls, Publish(c) PROVE LockSound'
  <2> DEFINE r == call[c].run
  <2>1. r \in Runs /\ Locked(r)
    BY <1>8, OnRun DEF Publish, Holds
  <2>2. /\ run'[r].status = "APPLIED" /\ \A q \in Runs \ {r} : run'[q] = run[q]
        /\ publication'.status = "APPLIED"
    BY <1>0, <1>8, <2>1 DEF Publish, RunRecords, Publications
  <2> HIDE DEF r
  <2> QED BY <2>1, <2>2 DEF LockSound, LockAgrees, Locked
<1>9. ASSUME NEW c \in Calls, Restore(c) PROVE LockSound'
  BY <1>1, <1>2, <1>9, OnRun DEF Restore, Holds
<1>10. ASSUME Tick PROVE LockSound'
  BY <1>0, <1>10 DEF Tick, LockSound, LockAgrees, Locked, Publications
<1>11. ASSUME UNCHANGED <<run, publication>> PROVE LockSound'
  BY <1>1, <1>11
<1> QED
  BY <1>3, <1>4, <1>5, <1>6, <1>7, <1>8, <1>9, <1>10, <1>11
     DEF Next, CallStep, Refresh, Edit, Start, Send, Reconcile, NotSent, Hear,
         CheckpointFails, ReadBack, Replay, Refuse, Write, Crash, Vanish, vars

Sane == TypeOK /\ CallsSound /\ RunsSound /\ LockSound

THEOREM AlwaysSane == Spec => []Sane
<1>1. Init => Sane
  <2> SUFFICES ASSUME Init PROVE Sane
    OBVIOUS
  <2>1. TypeOK
    BY InitTyped
  <2>2. CallsSound
    BY DEF Init, CallsSound, Sound
  <2>3. RunsSound /\ LockSound
    BY DEF Init, RunsSound, LockSound, LockAgrees, Locked, NoRun
  <2> QED BY <2>1, <2>2, <2>3 DEF Sane
<1>2. Sane /\ [Next]_vars => Sane'
  BY StepTyped, StepCallsSound, StepRunsSound, StepLockSound DEF Sane
<1> QED BY <1>1, <1>2, PTL DEF Spec

\* Runs, lock, mirror, ledger and calls keep their shapes.
THEOREM SheetTypeCorrect == Spec => []TypeOK
BY AlwaysSane, PTL DEF Sane

\* The lock names the run under way, and no other run is under way.
THEOREM LockAlwaysAgrees == Spec => []LockAgrees
<1>1. Sane => LockAgrees
  BY DEF Sane, LockSound
<1> QED BY <1>1, AlwaysSane, PTL

\* What is published was written, month and year.
THEOREM PublishedAlwaysWritten == Spec => []PublishedWasWritten
<1>1. Sane => PublishedWasWritten
  BY DEF Sane, RunsSound, PublishedWasWritten, Written
<1> QED BY <1>1, AlwaysSane, PTL

-----------------------------------------------------------------------------
(* The year total *)
LEMMA StepYear == Sane /\ YearSound /\ [Next]_vars => YearSound'
<1> SUFFICES ASSUME Sane, YearSound, [Next]_vars PROVE YearSound'
  OBVIOUS
<1>0. /\ run \in [Runs -> RunRecords] /\ ledger \in Ledgers
      /\ CallsSound /\ RunsSound /\ LockSound
  BY NowTyped DEF Sane
<1>1. ASSUME ledger'.year = ledger.year, ledger'.keys = ledger.keys,
             \A r \in Runs : run[r].status # "NONE" =>
               run'[r].oneWay = run[r].oneWay /\ run'[r].yearBase = run[r].yearBase
      PROVE  YearSound'
  <2>1. \A r \in Runs, k \in Keys : <<r, k, "YEAR">> \in ledger.keys =>
          run'[r].oneWay = run[r].oneWay /\ run'[r].yearBase = run[r].yearBase
    BY <1>0, <1>1 DEF RunsSound, Operations
  <2> QED BY <1>1, <2>1 DEF YearSound, YearWrittenOnce
<1>2. ASSUME NEW c \in Calls, Write(c) PROVE YearSound'
  <2> DEFINE r == call[c].run
             k == call[c].key
  <2>0. r \in Runs /\ k \in Keys /\ run' = run
    BY <1>0, <1>2, OnRun DEF Write, Arrives
  <2>1. CASE call[c].sent = "MONTHS"
    <3>1. ledger'.year = ledger.year /\ ledger'.keys = ledger.keys \cup {<<r, k, "MONTHS">>}
      BY <1>0, <1>2, <2>1 DEF Write, WriteMonths, WriteYear, Key, Ledgers
    <3>2. \A q \in Runs, j \in Keys :
            <<q, j, "YEAR">> \in ledger'.keys => <<q, j, "YEAR">> \in ledger.keys
      BY <3>1
    <3> QED BY <2>0, <3>1, <3>2 DEF YearSound, YearWrittenOnce
  <2>2. CASE call[c].sent = "YEAR"
    <3>1. ledger'.year = ledger.year + 1 /\ ledger'.keys = ledger.keys \cup {<<r, k, "YEAR">>}
      BY <1>0, <1>2, <2>2 DEF Write, WriteMonths, WriteYear, Key, Ledgers
    <3>2. ~run[r].oneWay => ledger.year = run[r].yearBase
      BY <1>2, <2>2 DEF Write, Accepts, OneWay
    <3>3. ledger.year \in Nat /\ \A q \in Runs : run[q].yearBase \in Nat
      BY <1>0 DEF Ledgers, RunRecords
    <3>4. \A q \in Runs, j \in Keys : <<q, j, "YEAR">> \in ledger'.keys =>
            <<q, j, "YEAR">> \in ledger.keys \/ (q = r /\ j = k)
      BY <3>1
    <3>5. ~run[r].oneWay => \A j \in Keys : <<r, j, "YEAR">> \notin ledger.keys
      BY <2>0, <3>2, <3>3 DEF YearSound
    <3> HIDE DEF r, k
    <3> QED BY <2>0, <3>1, <3>2, <3>3, <3>4, <3>5 DEF YearSound, YearWrittenOnce
  <2> QED BY <1>2, <2>1, <2>2 DEF Write, WriteMonths, WriteYear
<1>3. ASSUME NEW r \in Runs, NEW w \in Modes, Stage(r, w) PROVE YearSound'
  BY <1>0, <1>1, <1>3 DEF Stage
<1>4. ASSUME NEW r \in Runs, Unlock(r), UNCHANGED ledger PROVE YearSound'
  BY <1>0, <1>1, <1>4 DEF Unlock, RunRecords
<1>5. ASSUME ReleaseExpired \/ ForceRelease PROVE YearSound'
  BY <1>0, <1>4, <1>5 DEF ReleaseExpired, Expired, ForceRelease, LockSound
<1>6. ASSUME NEW c \in Calls, Restore(c) PROVE YearSound'
  BY <1>0, <1>1, <1>4, <1>6, OnRun DEF Restore
<1>7. ASSUME NEW c \in Calls, Reserve(c) \/ Checkpoint(c) \/ Uncertain(c) \/ Publish(c)
      PROVE  YearSound'
  <2>1. UNCHANGED ledger /\ \A r \in Runs :
          run'[r].oneWay = run[r].oneWay /\ run'[r].yearBase = run[r].yearBase
    <3>1. CASE Reserve(c)
      BY <1>0, <3>1 DEF Reserve, RunRecords
    <3>2. CASE Checkpoint(c)
      BY <1>0, <3>2 DEF Checkpoint, RunRecords
    <3>3. CASE Uncertain(c)
      BY <1>0, <3>3 DEF Uncertain, RunRecords
    <3>4. CASE Publish(c)
      BY <1>0, <3>4 DEF Publish, RunRecords
    <3> QED BY <1>7, <3>1, <3>2, <3>3, <3>4
  <2> QED BY <1>1, <2>1
<1>8. ASSUME NEW x \in Contents, Edit(x) PROVE YearSound'
  BY <1>0, <1>1, <1>8 DEF Edit, Ledgers
<1>9. ASSUME UNCHANGED <<run, ledger>> PROVE YearSound'
  BY <1>1, <1>9
<1> QED
  BY <1>2, <1>3, <1>5, <1>6, <1>7, <1>8, <1>9
     DEF Next, CallStep, Refresh, Tick, Start, Join, Send, Reconcile, NotSent, Hear,
         CheckpointFails, ReadBack, Replay, Refuse, Crash, Vanish, vars

\* A run that is not one-way writes the year total once, under whatever keys.
THEOREM YearAlwaysWrittenOnce == Spec => []YearWrittenOnce
<1>1. Init => YearSound
  BY DEF Init, YearSound, YearWrittenOnce
<1>2. YearSound => YearWrittenOnce
  BY DEF YearSound
<1> QED BY <1>1, <1>2, StepYear, AlwaysSane, PTL DEF Spec

-----------------------------------------------------------------------------
(* A call that was left alone *)

\* What a calm step may make of a call.
Calm(d) ==
  \/ ~Pending(call'[d], ledger'.keys)
  \/ /\ call'[d].run = call[d].run /\ call'[d].key = call[d].key /\ call'[d].age = call[d].age
     /\ call'[d].alone => call[d].alone
     /\ Pending(call[d], ledger.keys)
     /\ call'[d].phase \in AtWork => call[d].phase \in AtWork

LEMMA CalmStep ==
  ASSUME Alone, publication' = publication, \A d \in Calls : Calm(d),
         \A r : Locked(r) => run'[r].key = run[r].key
  PROVE  Alone'
<1> SUFFICES ASSUME NEW c \in Calls, call'[c].alone, Pending(call'[c], ledger'.keys)
             PROVE  /\ publication'.status = "APPLYING" /\ publication'.run = call'[c].run
                    /\ publication'.age = call'[c].age
                    /\ run'[call'[c].run].key = call'[c].key
                    /\ \A d \in Calls \ {c} :
                         call'[d].run = call'[c].run /\ call'[d].key = call'[c].key
                           => call'[d].phase \notin AtWork
  BY DEF Alone, Locked
<1>1. /\ call[c].alone /\ Pending(call[c], ledger.keys)
      /\ call'[c].run = call[c].run /\ call'[c].key = call[c].key /\ call'[c].age = call[c].age
  BY DEF Calm
<1>2. /\ Locked(call[c].run) /\ publication.age = call[c].age
      /\ run[call[c].run].key = call[c].key
      /\ \A d \in Calls \ {c} :
           call[d].run = call[c].run /\ call[d].key = call[c].key => call[d].phase \notin AtWork
  BY <1>1 DEF Alone
<1>3. ASSUME NEW d \in Calls \ {c}, call'[d].run = call'[c].run, call'[d].key = call'[c].key
      PROVE  call'[d].phase \notin AtWork
  BY <1>1, <1>2, <1>3 DEF Calm, Pending
<1> QED BY <1>1, <1>2, <1>3 DEF Locked

\* A call that ends or moves on is calm when what it sent was recorded.
LEMMA OneCalm ==
  ASSUME TypeOK, CallsSound, NEW c \in Calls, NEW x, call' = [call EXCEPT ![c] = x],
         ledger.keys \subseteq ledger'.keys,
         \/ ~Pending(x, ledger'.keys)
         \/ /\ x.run = call[c].run /\ x.key = call[c].key /\ x.age = call[c].age
            /\ x.alone => call[c].alone
            /\ Pending(call[c], ledger.keys)
            /\ x.phase \in AtWork => call[c].phase \in AtWork
  PROVE  \A d \in Calls : Calm(d)
<1>1. call'[c] = x /\ \A d \in Calls \ {c} : call'[d] = call[d]
  BY RecordsTyped
<1> QED BY <1>1 DEF Calm, Pending

LEMMA NobodyAlone ==
  ASSUME \A d \in Calls : ~(call'[d].alone /\ Pending(call'[d], ledger'.keys))
  PROVE  Alone'
BY DEF Alone

\* The lock of a call that is alone and pending has not expired.
LEMMA AloneInTime ==
  ASSUME TypeOK, CallsSound, Alone, NEW c \in Calls, call[c].alone,
         Pending(call[c], ledger.keys)
  PROVE  /\ Locked(call[c].run) /\ run[call[c].run].key = call[c].key
         /\ publication.age = call[c].age /\ call[c].age \in Nat
         /\ call[c].age <= Life + Flight /\ call[c].phase # "IDLE"
<1>1. call[c] # Idle
  BY DEF Pending, AtWork, Idle
<1> QED BY <1>1, RecordsTyped DEF Alone, CallsSound, Sound, CallRecords

LEMMA StepAlone == Sane /\ Alone /\ [Next]_vars => Alone'
<1> SUFFICES ASSUME Sane, Alone, [Next]_vars PROVE Alone'
  OBVIOUS
<1>0. /\ run \in [Runs -> RunRecords] /\ call \in [Calls -> CallRecords]
      /\ publication \in Publications /\ ledger.keys \subseteq ledger'.keys
      /\ TypeOK /\ CallsSound /\ RunsSound /\ LockSound
  BY NowTyped, StepKept DEF Sane, Kept
<1>1. ASSUME publication' = publication, call' = call, ledger'.keys = ledger.keys,
             \A r : Locked(r) => run'[r].key = run[r].key
      PROVE  Alone'
  <2>1. \A d \in Calls : Calm(d)
    BY <1>1 DEF Calm
  <2> QED BY <1>1, <2>1, CalmStep
<1>2. ASSUME ReleaseExpired PROVE Alone'
  <2>1. publication.age >= Lease /\ UNCHANGED <<call, ledger>>
    BY <1>0, <1>2 DEF ReleaseExpired, Expired, Publications
  <2>2. ASSUME NEW d \in Calls, call[d].alone, Pending(call[d], ledger.keys) PROVE FALSE
    BY <1>0, <2>1, <2>2, AloneInTime
  <2> QED BY <2>1, <2>2, NobodyAlone
<1>3. ASSUME ForceRelease PROVE Alone'
  <2>1. call' = Disturb(call, CallsOn(publication.run)) /\ UNCHANGED ledger
    BY <1>3 DEF ForceRelease
  <2>2. ASSUME NEW d \in Calls, call'[d].alone, Pending(call'[d], ledger'.keys) PROVE FALSE
    <3>1. call'[d] = call[d] /\ call[d].run # publication.run
      BY <1>0, <2>1, <2>2 DEF Disturb, CallsOn, CallRecords
    <3> QED BY <1>0, <2>1, <2>2, <3>1, AloneInTime DEF Locked
  <2> QED BY <2>2, NobodyAlone
<1>4. ASSUME Tick PROVE Alone'
  <2> SUFFICES ASSUME NEW c \in Calls, call'[c].alone, Pending(call'[c], ledger'.keys)
               PROVE  /\ publication'.status = "APPLYING" /\ publication'.run = call'[c].run
                      /\ publication'.age = call'[c].age
                      /\ run'[call'[c].run].key = call'[c].key
                      /\ \A d \in Calls \ {c} :
                           call'[d].run = call'[c].run /\ call'[d].key = call'[c].key
                             => call'[d].phase \notin AtWork
    BY DEF Alone, Locked
  <2>1. \A d \in Calls : /\ call'[d].phase = call[d].phase /\ call'[d].run = call[d].run
                         /\ call'[d].key = call[d].key /\ call'[d].sent = call[d].sent
                         /\ call'[d].alone = call[d].alone
                         /\ call[d].phase # "IDLE" => call'[d].age = call[d].age + 1
    BY <1>0, <1>4, ZenonT(40) DEF Tick, CallRecords
  <2>2. call[c].alone /\ Pending(call[c], ledger.keys) /\ UNCHANGED <<run, ledger>>
    BY <1>4, <2>1 DEF Pending, Tick
  <2>3. publication' = [publication EXCEPT !.age = @ + 1]
    BY <1>0, <1>4, <2>2, AloneInTime DEF Tick, Locked
  <2>4. \A d \in Calls \ {c} :
          call[d].run = call[c].run /\ call[d].key = call[c].key => call[d].phase \notin AtWork
    BY <2>2 DEF Alone
  <2>5. publication'.age = call'[c].age /\ publication'.status = publication.status
        /\ publication'.run = publication.run
    BY <1>0, <2>1, <2>2, <2>3, AloneInTime DEF Publications
  <2> QED BY <1>0, <2>1, <2>2, <2>4, <2>5, AloneInTime DEF Locked
<1>5. ASSUME NEW c \in Calls, NEW r \in Runs, NEW k \in Keys, Start(c, r, k) PROVE Alone'
  <2>1. UNCHANGED <<run, publication, ledger>>
        /\ \E j : \/ call' = [call EXCEPT ![c] = [Idle EXCEPT !.phase = "RESERVING", !.run = r, !.key = j]]
                  \/ call' = [call EXCEPT ![c] = [Idle EXCEPT !.phase = "RESTORING", !.run = r, !.key = j]]
    BY <1>5 DEF Start
  <2>2. PICK x : call' = [call EXCEPT ![c] = x] /\ x.phase \notin AtWork /\ x.sent = "NONE"
    <3> DEFINE y(phase, j) == [Idle EXCEPT !.phase = phase, !.run = r, !.key = j]
    <3>1. \A phase, j : y(phase, j).phase = phase /\ y(phase, j).sent = "NONE"
      BY DEF Idle
    <3>2. \E j : call' = [call EXCEPT ![c] = y("RESERVING", j)]
                \/ call' = [call EXCEPT ![c] = y("RESTORING", j)]
      BY <2>1
    <3> HIDE DEF y
    <3> QED BY <3>1, <3>2 DEF AtWork
  <2>3. \A d \in Calls : Calm(d)
    BY <1>0, <2>2, OneCalm DEF Pending
  <2> QED BY <2>1, <2>3, CalmStep
\* What it sent was recorded, or it waits.
<1>6. ASSUME NEW c \in Calls, call[c].phase \notin {"WAITING", "OVER"}, call[c].sent # "NONE"
      PROVE  Key(c, call[c].sent) \in ledger.keys
  <2>1. call[c] # Idle
    BY <1>6 DEF Idle
  <2> QED BY <1>0, <1>6, <2>1 DEF CallsSound, Sound, Key
<1>7. ASSUME NEW c \in Calls, Live(c), call' = Ended(c),
             publication' = publication, \A r : Locked(r) => run'[r].key = run[r].key
      PROVE  Alone'
  <2> DEFINE x == EndedCall(c)
  <2>1. \/ x.phase = "IDLE" /\ x.sent = "NONE"
        \/ /\ x.phase = "OVER" /\ x.sent = call[c].sent /\ x.sent # "NONE"
           /\ x.run = call[c].run /\ x.key = call[c].key /\ x.age = call[c].age
           /\ x.alone = call[c].alone
    BY <1>0, ZenonT(30) DEF EndedCall, Idle, CallRecords
  <2>2. call' = [call EXCEPT ![c] = x]
    BY <1>0, <1>7, CallUpdates
  <2> HIDE DEF x
  <2>3. \A d \in Calls : Calm(d)
    <3>1. CASE call[c].phase \in AtWork
      BY <1>0, <2>1, <2>2, <3>1, OneCalm DEF Pending, AtWork
    <3>2. CASE call[c].phase \notin AtWork
      <4>1. ~Pending(x, ledger'.keys)
        BY <1>0, <1>6, <1>7, <2>1, <3>2 DEF Pending, AtWork, Live, Key
      <4> QED BY <1>0, <2>2, <4>1, OneCalm
    <3> QED BY <3>1, <3>2
  <2> QED BY <1>7, <2>3, CalmStep
<1>8. ASSUME NEW c \in Calls, NEW x, call' = [call EXCEPT ![c] = x],
             call[c].phase \in AtWork, x.run = call[c].run, x.key = call[c].key,
             x.age = call[c].age, x.alone = call[c].alone,
             publication' = publication, \A r : Locked(r) => run'[r].key = run[r].key
      PROVE  Alone'
  <2>1. \A d \in Calls : Calm(d)
    BY <1>0, <1>8, OneCalm DEF Pending
  <2> QED BY <1>8, <2>1, CalmStep
<1>9. ASSUME NEW c \in Calls, Send(c) PROVE Alone'
  <2>1. LET x == SentCall(c) IN
          x.run = call[c].run /\ x.key = call[c].key /\ x.age = call[c].age /\ x.alone = call[c].alone
    BY <1>0 DEF SentCall, CallRecords
  <2> QED BY <1>0, <1>8, <1>9, <2>1, WorkUpdates DEF Send, AtWork
<1>10. ASSUME NEW c \in Calls, NEW phase \in {"APPLIED", "CONFIRMED", "RESTORING"},
              call[c].phase \in AtWork, call' = Moved(c, phase),
              UNCHANGED <<run, publication, ledger>>
       PROVE  Alone'
  <2>1. LET x == MovedCall(c, phase) IN
          x.run = call[c].run /\ x.key = call[c].key /\ x.age = call[c].age /\ x.alone = call[c].alone
    BY <1>0 DEF MovedCall, CallRecords
  <2> QED BY <1>0, <1>8, <1>10, <2>1, CallUpdates
<1>11. ASSUME NEW c \in Calls, call[c].phase \in AtWork, call' = Failed(c),
              UNCHANGED <<run, publication, ledger>>
       PROVE  Alone'
  BY <1>7, <1>10, <1>11 DEF Failed, Live, AtWork
<1>12. ASSUME NEW c \in Calls, Checkpoint(c) PROVE Alone'
  <2>1. LET x == CheckedCall(c) IN
          x.run = call[c].run /\ x.key = call[c].key /\ x.age = call[c].age /\ x.alone = call[c].alone
    BY <1>0 DEF CheckedCall, CallRecords
  <2>2. \A r \in Runs : run'[r].key = run[r].key
    BY <1>0, <1>12 DEF Checkpoint, RunRecords
  <2>3. \A r : Locked(r) => r \in Runs
    BY <1>0 DEF Locked, LockSound
  <2> QED BY <1>0, <1>8, <1>12, <2>1, <2>2, <2>3, WorkUpdates, ZenonT(40) DEF Checkpoint, AtWork
<1>13. ASSUME NEW c \in Calls, Uncertain(c) PROVE Alone'
  <2>1. \A r \in Runs : run'[r].key = run[r].key
    BY <1>0, <1>13 DEF Uncertain, RunRecords
  <2>2. \A r : Locked(r) => r \in Runs
    BY <1>0 DEF Locked, LockSound
  <2> QED BY <1>7, <1>13, <2>1, <2>2 DEF Uncertain, Live
<1>14. ASSUME NEW c \in Calls, Reserve(c) PROVE Alone'
  <2> DEFINE r == call[c].run
             x == BegunCall(c, call[c].key, Unwatched(c))
  <2>1. /\ r \in Runs /\ run[r].status = "READY" /\ UNCHANGED ledger
        /\ publication.status = "APPLYING" => publication.run = r
    BY <1>0, <1>14, OnRun DEF Reserve, MayReserve
  <2>2. \A d \in Calls : ~(call[d].alone /\ Pending(call[d], ledger.keys))
    BY <1>0, <2>1 DEF Alone, Locked, LockSound, LockAgrees
  <2>3. /\ call'[c] = x /\ \A d \in Calls \ {c} : call'[d] = call[d]
    BY <1>0, <1>14, WorkUpdates
  <2>4. /\ x.run = r /\ x.key = call[c].key /\ x.age = call[c].age /\ x.alone = Unwatched(c)
    BY <1>0, ZenonT(30) DEF BegunCall, CallRecords
  <2>5. /\ publication'.status = "APPLYING" /\ publication'.run = r
        /\ publication'.age = call[c].age /\ run'[r].key = call[c].key
    BY <1>0, <1>14, <2>1 DEF Reserve, RunRecords
  <2>6. Unwatched(c) =>
          \A d \in Calls : call[d].run = r /\ call[d].key = call[c].key => call[d].phase \notin AtWork
    BY DEF Unwatched, CallsOn
  <2> HIDE DEF r, x
  <2> QED BY <2>1, <2>2, <2>3, <2>4, <2>5, <2>6 DEF Alone, Locked
<1>15. ASSUME NEW c \in Calls, Join(c) PROVE Alone'
  <2>1. /\ call[c].run \in Runs /\ Locked(call[c].run) /\ UNCHANGED ledger
    BY <1>0, <1>15, OnRun DEF Join, MayReserve, LockSound, LockAgrees
  <2>2. ~call'[c].alone
    <3>1. call'[c] = BegunCall(c, run[call[c].run].key, FALSE)
      BY <1>0, <1>15, JoinUpdates
    <3> QED BY <1>0, <3>1, ZenonT(30) DEF BegunCall, CallRecords
  <2>3. ASSUME NEW d \in Calls \ {c}, call'[d].alone, Pending(call'[d], ledger'.keys) PROVE FALSE
    <3>1. call'[d] = call[d] /\ call[d].run # call[c].run
      <4>1. call'[d] = IF call[d].run = call[c].run THEN [call[d] EXCEPT !.alone = FALSE]
                                                    ELSE call[d]
        BY <1>0, <1>15, JoinUpdates
      <4> QED BY <1>0, <2>3, <4>1 DEF CallRecords
    <3> QED BY <1>0, <2>1, <2>3, <3>1, AloneInTime DEF Locked
  <2> QED BY <2>2, <2>3, NobodyAlone
<1>16. ASSUME NEW c \in Calls, call[c].phase \in {"CONFIRMED", "RESTORING"}
       PROVE  ~Pending(EndedCall(c), ledger.keys)
  <2> DEFINE x == EndedCall(c)
  <2>1. \/ x.phase = "IDLE" /\ x.sent = "NONE"
        \/ /\ x.phase = "OVER" /\ x.sent = call[c].sent /\ x.sent # "NONE"
           /\ x.run = call[c].run /\ x.key = call[c].key
    BY <1>0, ZenonT(40) DEF EndedCall, Idle, CallRecords
  <2> HIDE DEF x
  <2>2. ~Pending(x, ledger.keys)
    BY <1>6, <1>16, <2>1 DEF Pending, AtWork, Key
  <2> QED BY <2>2 DEF x
<1>17. ASSUME NEW c \in Calls, Publish(c) PROVE Alone'
  <2>1. /\ call[c].phase = "CONFIRMED" /\ Locked(call[c].run)
        /\ run[call[c].run].key = call[c].key /\ UNCHANGED ledger
    BY <1>17 DEF Publish, Holds
  <2>2. call'[c] = EndedCall(c) /\ \A d \in Calls \ {c} : call'[d] = call[d]
    BY <1>0, <1>17, CallUpdates DEF Publish
  <2>3. ~Pending(call'[c], ledger'.keys)
    BY <1>16, <2>1, <2>2
  <2>4. ASSUME NEW d \in Calls \ {c}, call'[d].alone, Pending(call'[d], ledger'.keys) PROVE FALSE
    <3>1. call[d].alone /\ Pending(call[d], ledger.keys)
      BY <2>1, <2>2, <2>4
    <3>2. call[c].run = call[d].run /\ call[c].key = call[d].key
      BY <1>0, <2>1, <3>1, AloneInTime DEF Locked
    <3> QED BY <2>1, <3>1, <3>2 DEF Alone, AtWork
  <2> QED BY <2>3, <2>4, NobodyAlone
<1>18. ASSUME NEW c \in Calls, Restore(c) PROVE Alone'
  <2>1. call[c].phase = "RESTORING" /\ UNCHANGED ledger
    BY <1>18 DEF Restore
  <2>2. CASE ~Holds(c)
    BY <1>7, <1>18, <2>1, <2>2 DEF Restore, Live
  <2>3. CASE Holds(c)
    <3>1. call' = Disturb(Ended(c), CallsOn(call[c].run) \ {c})
      BY <1>18, <2>3 DEF Restore
    <3>2. Ended(c)[c] = EndedCall(c) /\ \A d \in Calls \ {c} : Ended(c)[d] = call[d]
      BY <1>0, CallUpdates
    <3>3. ~Pending(call'[c], ledger'.keys)
      <4>1. call'[c] = EndedCall(c)
        BY <3>1, <3>2 DEF Disturb
      <4> QED BY <1>16, <2>1, <4>1
    <3>4. ASSUME NEW d \in Calls \ {c}, call'[d].alone, Pending(call'[d], ledger'.keys) PROVE FALSE
      <4>1. call'[d] = call[d] /\ call[d].run # call[c].run
        <5>1. call'[d] = IF d \in CallsOn(call[c].run) THEN [call[d] EXCEPT !.alone = FALSE]
                                                        ELSE call[d]
          BY <3>1, <3>2 DEF Disturb
        <5> QED BY <1>0, <3>4, <5>1 DEF CallsOn, CallRecords
      <4> QED BY <1>0, <2>1, <2>3, <3>4, <4>1, AloneInTime DEF Holds, Locked
    <3> QED BY <3>3, <3>4, NobodyAlone
  <2> QED BY <2>2, <2>3
<1>19. ASSUME NEW c \in Calls, NEW reply \in {"OK", "REFUSED"}, call' = Answered(c, reply),
              call[c].sent # "NONE", Key(c, call[c].sent) \notin ledger.keys,
              UNCHANGED <<run, publication>>
       PROVE  Alone'
  <2> DEFINE x == AnsweredCall(c, reply)
  <2>1. call' = [call EXCEPT ![c] = x]
    BY <1>0, <1>19, CallUpdates
  <2>2. \/ x = Idle
        \/ /\ x.phase = call[c].phase /\ x.run = call[c].run /\ x.key = call[c].key
           /\ x.age = call[c].age /\ x.alone = call[c].alone
    BY <1>0, ZenonT(30) DEF AnsweredCall, CallRecords
  <2>3. Pending(call[c], ledger.keys)
    BY <1>19 DEF Pending, Key
  <2>4. x = Idle => ~Pending(x, ledger'.keys)
    BY DEF Idle, Pending, AtWork
  <2> HIDE DEF x
  <2>5. \A d \in Calls : Calm(d)
    BY <1>0, <2>1, <2>2, <2>3, <2>4, OneCalm
  <2> QED BY <1>19, <2>5, CalmStep
<1>20. ASSUME NEW c \in Calls, Replay(c) PROVE Alone'
  <2> DEFINE x == AnsweredCall(c, "OK")
  <2>1. call' = [call EXCEPT ![c] = x] /\ UNCHANGED <<run, publication, ledger>>
    BY <1>0, <1>20, CallUpdates DEF Replay
  <2>2. \/ x = Idle
        \/ /\ x.phase = call[c].phase /\ x.run = call[c].run /\ x.key = call[c].key
           /\ x.age = call[c].age /\ x.alone = call[c].alone /\ x.sent = "NONE"
    BY <1>0, ZenonT(30) DEF AnsweredCall, CallRecords
  <2>3. x = Idle => ~Pending(x, ledger'.keys)
    BY DEF Idle, Pending, AtWork
  <2> HIDE DEF x
  <2>4. \A d \in Calls : Calm(d)
    BY <1>0, <2>1, <2>2, <2>3, OneCalm DEF Pending
  <2> QED BY <2>1, <2>4, CalmStep
<1>21. ASSUME NEW c \in Calls, Vanish(c) PROVE Alone'
  <2>1. ~Pending(Idle, ledger'.keys)
    BY DEF Idle, Pending, AtWork
  <2>2. \A d \in Calls : Calm(d)
    BY <1>0, <1>21, <2>1, OneCalm DEF Vanish
  <2> QED BY <1>21, <2>2, CalmStep DEF Vanish
<1>22. ASSUME NEW r \in Runs, NEW w \in Modes, Stage(r, w) PROVE Alone'
  <2>1. \A q : Locked(q) => q \in Runs /\ q # r
    BY <1>0, <1>22 DEF Stage, Locked, LockSound, LockAgrees
  <2> QED BY <1>0, <1>1, <1>22, <2>1 DEF Stage
<1>23. ASSUME NEW x \in Contents, Edit(x) PROVE Alone'
  <2>1. ledger'.keys = ledger.keys
    BY <1>0, <1>23 DEF Edit, TypeOK
  <2> QED BY <1>1, <1>23, <2>1 DEF Edit
<1>24. ASSUME UNCHANGED <<run, publication, ledger, call>> PROVE Alone'
  BY <1>1, <1>24
<1>25. ASSUME NEW c \in Calls, CallStep(c) PROVE Alone'
  <2>1. CASE Reconcile(c) \/ ReadBack(c)
    BY <1>10, <2>1 DEF Reconcile, ReadBack, AtWork
  <2>2. CASE NotSent(c) \/ CheckpointFails(c)
    BY <1>11, <2>2 DEF NotSent, CheckpointFails, AtWork
  <2>3. CASE Hear(c)
    BY <1>10, <1>11, <2>3 DEF Hear, AtWork
  <2>4. CASE Refuse(c) \/ Write(c)
    BY <1>19, <2>4 DEF Refuse, Write, Arrives
  <2>5. CASE Crash(c)
    BY <1>7, <2>5 DEF Crash
  <2> QED
    BY <1>5, <1>9, <1>12, <1>13, <1>14, <1>15, <1>17, <1>18, <1>20, <1>21, <1>25,
       <2>1, <2>2, <2>3, <2>4, <2>5 DEF CallStep
<1> QED
  BY <1>2, <1>3, <1>4, <1>22, <1>23, <1>24, <1>25 DEF Next, Refresh, vars

\* What a call that was left alone has sent is written under its lock or not at all.
THEOREM WritesAlwaysUnderLock == Spec => WritesUnderLock
<1>1. Init => Alone
  BY DEF Init, Alone, Pending, AtWork, Idle
<1>2. Alone /\ [Next]_vars =>
        [\A c \in Calls : Write(c) /\ call[c].alone => Locked(call[c].run)]_vars
  BY DEF Alone, Pending, Write, Arrives, Key
<1> QED BY <1>1, <1>2, StepAlone, AlwaysSane, PTL DEF Spec, WritesUnderLock
=============================================================================
