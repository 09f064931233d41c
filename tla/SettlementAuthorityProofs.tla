---------------------- MODULE SettlementAuthorityProofs ----------------------
(***************************************************************************)
(* The closed ranges and all that rests on them, for every calendar, every *)
(* set of cycles and members, and any number of commands in flight.        *)
(***************************************************************************)
EXTENDS SettlementCycleProofs

-----------------------------------------------------------------------------
(***************************************************************************)
(* An authority is sound if its ranges follow one another without gaps.    *)
(* Being sound is a property of a record, since versions remember          *)
(* authorities that a reopening makes the head again.                      *)
(***************************************************************************)
Before(h, i) ==
    [exists |-> i > 1, closedThrough |-> IF i > 1 THEN h.ranges[i - 1].through ELSE NoMonth]

Canonical(h) ==
    /\ h.exists <=> h.ranges # <<>>
    /\ h.exists =>
          /\ h.closedThrough = LastRange(h).through
          /\ h.manifest = LastRange(h).manifest
    /\ \A i \in DOMAIN h.ranges :
          /\ AffectedRangeValid(Before(h, i), h.ranges[i].through)
          /\ h.ranges[i].from =
                IF i = 1 THEN January(h.ranges[i].through)
                ELSE h.ranges[i - 1].through + 1
          /\ h.ranges[i].cycle = h.ranges[i].through + 1

Ordered(h) ==
    \A i, j \in DOMAIN h.ranges : i < j => h.ranges[i].through < h.ranges[j].from

Gapless(h) ==
    h.exists =>
        \A m \in h.ranges[1].from .. h.closedThrough :
            \E i \in DOMAIN h.ranges : RangeCovers(h.ranges[i], m)

Sound(h) == Canonical(h) /\ Ordered(h) /\ Gapless(h)

\* The fields soundness depends on have proper types.
Shaped(h) ==
    h.exists \in BOOLEAN /\ h.closedThrough \in Nat \cup {NoMonth} /\ h.ranges \in Seq(RangeType)

LEMMA HeadShaped == \A h \in HeadType : Shaped(h)
BY DEF HeadType, Shaped

LEMMA FromBefore ==
    ASSUME NEW h, NEW i \in Nat \ {0}, NEW through
    PROVE  AffectedFrom(Before(h, i), through) =
              IF i = 1 THEN January(through) ELSE h.ranges[i - 1].through + 1
<1>1. Before(h, i).exists = (i > 1)
  BY DEF Before
<1>2. i # 1 => Before(h, i).closedThrough = h.ranges[i - 1].through
  BY DEF Before
<1>3. i > 1 <=> i # 1
  OBVIOUS
<1> QED
  BY <1>1, <1>2, <1>3, Zenon DEF AffectedFrom

\* Every range of a sound authority ends before the horizon does, and not before it starts.
LEMMA RangesBelow ==
    ASSUME NEW h, Shaped(h), Sound(h), NEW i \in DOMAIN h.ranges
    PROVE  /\ h.exists
           /\ h.ranges[i] \in RangeType
           /\ h.ranges[i].from <= h.ranges[i].through
           /\ h.ranges[i].through <= h.closedThrough
           /\ i # Len(h.ranges) => h.ranges[i].through < LastRange(h).from
<1>1. /\ h.ranges \in Seq(RangeType) /\ i \in 1..Len(h.ranges)
      /\ Len(h.ranges) \in 1..Len(h.ranges) /\ Len(h.ranges) \in Nat
  BY DEF Shaped
<1>2. h.exists /\ h.closedThrough = h.ranges[Len(h.ranges)].through
  BY <1>1 DEF Sound, Canonical, LastRange
<1>3. \A j \in DOMAIN h.ranges :
         /\ h.ranges[j] \in RangeType
         /\ h.ranges[j].from \in Nat /\ h.ranges[j].through \in Nat
  <2>1. \A j \in DOMAIN h.ranges : h.ranges[j] \in RangeType
    BY <1>1
  <2> QED
    BY <2>1 DEF RangeType
<1>4. \A j \in DOMAIN h.ranges : h.ranges[j].from <= h.ranges[j].through
  <2> SUFFICES ASSUME NEW j \in DOMAIN h.ranges
               PROVE  h.ranges[j].from <= h.ranges[j].through
    OBVIOUS
  <2>1. AffectedRangeValid(Before(h, j), h.ranges[j].through)
        /\ h.ranges[j].from = IF j = 1 THEN January(h.ranges[j].through)
                              ELSE h.ranges[j - 1].through + 1
    BY DEF Sound, Canonical
  <2>2. AffectedFrom(Before(h, j), h.ranges[j].through) = h.ranges[j].from
    BY <1>1, <2>1, FromBefore
  <2> QED
    BY <2>1, <2>2 DEF AffectedRangeValid
<1>5. CASE i = Len(h.ranges)
  BY <1>1, <1>2, <1>3, <1>4, <1>5
<1>6. CASE i # Len(h.ranges)
  <2>1. i < Len(h.ranges)
    BY <1>1, <1>6
  <2>2. h.ranges[i].through < h.ranges[Len(h.ranges)].from
    BY <1>1, <2>1 DEF Sound, Ordered
  <2> QED
    BY <1>1, <1>2, <1>3, <1>4, <2>2 DEF LastRange
<1> QED
  BY <1>5, <1>6

\* An approval puts the next range on top, and the authority stays sound.
LEMMA AppendSound ==
    ASSUME NEW h, Shaped(h), Sound(h), NEW range \in RangeType, NEW next,
           AffectedRangeValid(h, range.through),
           range.from = AffectedFrom(h, range.through), range.cycle = range.through + 1,
           next.exists = TRUE, next.closedThrough = range.through,
           next.manifest = range.manifest, next.ranges = Append(h.ranges, range)
    PROVE  Sound(next)
<1> DEFINE n == Len(h.ranges)
           s == next.ranges
<1>1. /\ n \in Nat /\ Len(s) = n + 1 /\ s[n + 1] = range
      /\ DOMAIN s = 1..(n + 1) /\ DOMAIN h.ranges = 1..n
      /\ \A i \in 1..n : s[i] = h.ranges[i]
  BY DEF Shaped
<1>2. range.from \in Nat /\ range.through \in Nat
  BY DEF RangeType
<1>3. range.from <= range.through
  BY DEF AffectedRangeValid
<1>4. h.exists <=> n > 0
  BY <1>1 DEF Sound, Canonical, Shaped
<1>5. n > 0 => h.closedThrough = h.ranges[n].through /\ range.from = h.closedThrough + 1
  BY <1>4 DEF Sound, Canonical, LastRange, AffectedFrom
<1>6. n = 0 => range.from = January(range.through)
  BY <1>4 DEF AffectedFrom
<1>7. Canonical(next)
  <2>1. next.exists <=> next.ranges # <<>>
    BY <1>1
  <2>2. next.closedThrough = LastRange(next).through /\ next.manifest = LastRange(next).manifest
    BY <1>1 DEF LastRange
  <2>3. ASSUME NEW i \in DOMAIN next.ranges
        PROVE  /\ AffectedRangeValid(Before(next, i), s[i].through)
               /\ s[i].from = IF i = 1 THEN January(s[i].through) ELSE s[i - 1].through + 1
               /\ s[i].cycle = s[i].through + 1
    <3>1. CASE i \in 1..n
      <4>1. s[i] = h.ranges[i] /\ (i > 1 => s[i - 1] = h.ranges[i - 1])
        BY <1>1, <3>1
      <4>2. Before(next, i) = Before(h, i)
        BY <4>1 DEF Before
      <4>3. /\ AffectedRangeValid(Before(h, i), h.ranges[i].through)
            /\ h.ranges[i].from = IF i = 1 THEN January(h.ranges[i].through)
                                  ELSE h.ranges[i - 1].through + 1
            /\ h.ranges[i].cycle = h.ranges[i].through + 1
        BY <1>1, <3>1 DEF Sound, Canonical
      <4> QED
        BY <1>1, <3>1, <4>1, <4>2, <4>3
    <3>2. CASE i = n + 1
      <4>1. AffectedFrom(Before(next, i), range.through) = AffectedFrom(h, range.through)
        <5>1. i = 1 => AffectedFrom(h, range.through) = January(range.through)
          BY <1>4, <3>2 DEF AffectedFrom
        <5>2. i # 1 => /\ AffectedFrom(h, range.through) = h.closedThrough + 1
                       /\ h.closedThrough = s[i - 1].through
          BY <1>1, <1>4, <1>5, <3>2 DEF AffectedFrom
        <5> QED
          BY <1>1, <3>2, <5>1, <5>2, FromBefore
      <4>2. AffectedRangeValid(Before(next, i), range.through)
        BY <4>1 DEF AffectedRangeValid
      <4>3. s[i].from = IF i = 1 THEN January(s[i].through) ELSE s[i - 1].through + 1
        BY <1>1, <1>5, <1>6, <3>2
      <4> QED
        BY <1>1, <3>2, <4>2, <4>3
    <3> QED
      BY <1>1, <3>1, <3>2
  <2> QED
    BY <2>1, <2>2, <2>3 DEF Canonical
<1>8. Ordered(next)
  <2> SUFFICES ASSUME NEW i \in 1..(n + 1), NEW j \in 1..(n + 1), i < j
               PROVE  s[i].through < s[j].from
    BY <1>1 DEF Ordered
  <2>1. CASE j \in 1..n
    BY <1>1, <2>1 DEF Sound, Ordered
  <2>2. CASE j = n + 1
    <3>1. h.ranges[i].through <= h.closedThrough /\ h.ranges[i].through \in Nat
      BY <1>1, <2>2, RangesBelow DEF RangeType
    <3>2. n > 0 /\ h.closedThrough \in Nat \cup {-1}
      BY <1>1, <2>2 DEF Shaped, NoMonth
    <3> QED
      BY <1>1, <1>5, <2>2, <3>1, <3>2
  <2> QED
    BY <1>1, <2>1, <2>2
<1>9. Gapless(next)
  <2> SUFFICES ASSUME NEW m \in s[1].from .. range.through
               PROVE  \E i \in 1..(n + 1) : RangeCovers(s[i], m)
    BY <1>1 DEF Gapless
  <2>0. s[1] \in RangeType /\ m \in Nat
    <3>1. s[1] \in RangeType
      BY <1>1 DEF Shaped
    <3> QED
      BY <3>1, <1>2 DEF RangeType
  <2>1. CASE range.from <= m
    <3>1. RangeCovers(s[n + 1], m)
      BY <1>1, <1>2, <2>0, <2>1 DEF RangeCovers
    <3> QED
      BY <1>1, <3>1
  <2>2. CASE m < range.from
    <3>1. n > 0
      BY <1>1, <1>2, <2>0, <2>2
    <3>2. h.closedThrough \in Nat \cup {-1}
      BY DEF Shaped, NoMonth
    <3>3. h.exists /\ m \in h.ranges[1].from .. h.closedThrough
      BY <1>1, <1>2, <1>4, <1>5, <2>0, <2>2, <3>1, <3>2 DEF RangeType
    <3>4. PICK i \in DOMAIN h.ranges : RangeCovers(h.ranges[i], m)
      BY <3>3 DEF Sound, Gapless
    <3> QED
      BY <1>1, <3>4
  <2> QED
    BY <1>2, <2>0, <2>1, <2>2
<1> QED
  BY <1>7, <1>8, <1>9 DEF Sound

\* The revision of an authority plays no part in its soundness.
LEMMA SoundFields ==
    ASSUME NEW h, NEW g, Sound(h), g.exists = h.exists, g.closedThrough = h.closedThrough,
           g.manifest = h.manifest, g.ranges = h.ranges
    PROVE  Sound(g)
BY DEF Sound, Canonical, Ordered, Gapless, Before, LastRange

LEMMA NoAuthoritySound == \A revision : Sound(NoAuthority(revision))
BY DEF NoAuthority, Sound, Canonical, Ordered, Gapless

-----------------------------------------------------------------------------
(***************************************************************************)
(* Head and versions.  An approval pushes a range and remembers the head   *)
(* it replaced; a reopening makes that one the head again.                 *)
(***************************************************************************)
HeadSound == Sound(head) /\ \A v \in versions : Sound(v.prior)

LEMMA SoundIsCanonical == HeadSound => HeadIsCanonical
BY DEF HeadSound, Sound, Canonical, Before, HeadIsCanonical

LEMMA HeadOnlyMovesBy ==
    ASSUME [Next]_vars, \A cmd \in inflight : ~Approve(cmd) /\ ~ApproveReopen(cmd)
    PROVE  UNCHANGED <<head, versions>>
<1>1. ASSUME NEW a \in Members, NEW c \in Cycles, Prepare(a, c)
      PROVE  UNCHANGED <<head, versions>>
  BY <1>1 DEF Prepare, PrepareSubmit, PrepareTransition, PrepareCancel,
              PrepareApprove, PrepareReopenRequest, PrepareReopenDecision, docs
<1>2. ASSUME NEW cmd \in inflight, StageSubmit(cmd) \/ Lose(cmd)
      PROVE  UNCHANGED <<head, versions>>
  BY <1>2 DEF StageSubmit, Lose, docs
<1>3. ASSUME NEW cmd \in inflight, Execute(cmd)
      PROVE  UNCHANGED <<head, versions>>
  BY <1>3 DEF Execute, Submit, Transition, Cancel, RequestReopen, RejectReopen, DecideReopen
<1>4. ASSUME NEW source \in Sources, EditSheet(source) PROVE UNCHANGED <<head, versions>>
  BY <1>4 DEF EditSheet
<1>5. ASSUME NEW a \in Members, ChangeApprover(a) \/ ApproveProjectChange(a)
      PROVE  UNCHANGED <<head, versions>>
  BY <1>5 DEF ChangeApprover, ApproveProjectChange
<1>6. ASSUME NEW m \in Cycles, AmendMonth(m) PROVE UNCHANGED <<head, versions>>
  BY <1>6 DEF AmendMonth
<1>7. ASSUME NEW a \in Members, NEW m \in TrackedMonths, WeekStep(a, m)
      PROVE  UNCHANGED <<head, versions>>
  BY <1>7, WeekStepSets
<1>8. CASE UNCHANGED vars
  BY <1>8 DEF vars
<1> QED
  BY <1>1, <1>2, <1>3, <1>4, <1>5, <1>6, <1>7, <1>8 DEF Next

\* The range and the version an approval of cycle c writes.
NewRange(c) == ApprovedRange(c, ledger[c].revision + 1)

NewVersion(c) ==
    [cycle |-> c, revision |-> ledger[c].revision + 1, manifest |-> request[c].manifest,
     headRevision |-> head.revision + 1, from |-> NewRange(c).from,
     through |-> NewRange(c).through,
     prior |-> IF head.exists THEN head ELSE NoAuthority(0)]

LEMMA NewFields ==
    ASSUME NEW c
    PROVE  /\ NewRange(c).from = AffectedFrom(head, c - 1) /\ NewRange(c).through = c - 1
           /\ NewRange(c).cycle = c /\ NewRange(c).manifest = request[c].manifest
           /\ NewRange(c).version = ledger[c].revision + 1
           /\ NewVersion(c).cycle = c /\ NewVersion(c).revision = ledger[c].revision + 1
           /\ NewVersion(c).manifest = request[c].manifest
           /\ NewVersion(c).headRevision = head.revision + 1
           /\ NewVersion(c).from = NewRange(c).from
           /\ NewVersion(c).through = NewRange(c).through
           /\ NewVersion(c).prior = IF head.exists THEN head ELSE NoAuthority(0)
BY DEF NewRange, NewVersion, ApprovedRange, Target

\* What an approval of cycle c does to the head and the versions.
Pushes(c) ==
    /\ c \in Cycles /\ NewRange(c) \in RangeType
    /\ head'.exists = TRUE /\ head'.closedThrough = c - 1
    /\ head'.manifest = request[c].manifest
    /\ head'.revision = head.revision + 1
    /\ head'.ranges = Append(head.ranges, NewRange(c))
    /\ versions' = versions \cup {NewVersion(c)}
    /\ AffectedRangeValid(head, c - 1)

LEMMA ApprovePushes ==
    ASSUME TypeOK, NEW cmd \in inflight, Approve(cmd)
    PROVE  Pushes(cmd.cycle)
<1> DEFINE c == cmd.cycle
<1>1. c \in Cycles /\ request[c] \in RequestType /\ ledger[c] \in LedgerType
  BY DEF TypeOK, CommandType
<1>2. NewRange(c) \in RangeType
  BY <1>1, RangeTyped DEF RequestType, LedgerType, NewRange
<1>3. AffectedRangeValid(head, c - 1)
  BY DEF Approve, AcceptsApprove, Target
<1>4. versions' = versions \cup {NewVersion(c)}
  BY DEF Approve, NewVersion, NewRange
<1>5. head' = [exists |-> TRUE, closedThrough |-> Target(c), manifest |-> request[c].manifest,
               revision |-> head.revision + 1, ranges |-> Append(head.ranges, NewRange(c))]
  BY DEF Approve, NewRange
<1>6. /\ head'.exists = TRUE /\ head'.closedThrough = c - 1
      /\ head'.manifest = request[c].manifest /\ head'.revision = head.revision + 1
      /\ head'.ranges = Append(head.ranges, NewRange(c))
  BY <1>5 DEF Target
<1> QED
  BY <1>1, <1>2, <1>3, <1>4, <1>6 DEF Pushes

\* What an approved reopening does to the head.
LEMMA ReopenPops ==
    ASSUME TypeOK, HeadSound, NEW cmd \in inflight, ApproveReopen(cmd)
    PROVE  /\ cmd.cycle \in Cycles /\ UNCHANGED <<versions, shards>>
           /\ head.exists /\ cmd.cycle = head.closedThrough + 1
           /\ Sound(head') /\ head'.revision = head.revision + 1
           /\ \E v \in versions :
                 /\ v.headRevision = head.revision
                 /\ v.from = AffectedFrom(v.prior, head.closedThrough)
                 /\ v.through = head.closedThrough
                 /\ head'.exists = v.prior.exists
                 /\ head'.ranges = v.prior.ranges
                 /\ weeks' = [m \in TrackedMonths |->
                                 IF RangeCovers(v, m) THEN "OPEN" ELSE weeks[m]]
<1>1. PICK v \in RestorationEvidence(cmd.cycle) :
         /\ head' = Restored(v)
         /\ weeks' = [m \in TrackedMonths |-> IF RangeCovers(v, m) THEN "OPEN" ELSE weeks[m]]
  BY DEF ApproveReopen
<1>2. /\ v \in versions /\ v.headRevision = head.revision /\ head.exists
      /\ v.from = AffectedFrom(v.prior, head.closedThrough) /\ v.through = head.closedThrough
  BY DEF RestorationEvidence
<1>3. DecideReopen(cmd, TRUE)
  BY DEF ApproveReopen
<1>4. UNCHANGED <<versions, shards>> /\ cmd.cycle = head.closedThrough + 1
  BY <1>3 DEF DecideReopen, AcceptsReopenDecision, ReopensHorizon
<1>5. Sound(v.prior) /\ v.prior \in HeadType
  BY <1>2 DEF HeadSound, TypeOK, VersionType
<1>6. /\ head'.exists = v.prior.exists /\ head'.ranges = v.prior.ranges
      /\ head'.revision = head.revision + 1 /\ Sound(head')
  <2>1. CASE v.prior.exists
    <3>1. head' = [v.prior EXCEPT !.revision = head.revision + 1]
      BY <1>1, <2>1 DEF Restored
    <3>2. /\ head'.exists = v.prior.exists /\ head'.closedThrough = v.prior.closedThrough
          /\ head'.manifest = v.prior.manifest /\ head'.ranges = v.prior.ranges
          /\ head'.revision = head.revision + 1
      BY <1>5, <3>1 DEF HeadType
    <3> QED
      BY <1>5, <3>2, SoundFields
  <2>2. CASE ~v.prior.exists
    <3>1. head' = NoAuthority(head.revision + 1)
      BY <1>1, <2>2 DEF Restored
    <3>2. v.prior.ranges = <<>> /\ v.prior.exists = FALSE
      BY <1>5, <2>2 DEF Sound, Canonical, HeadType
    <3>3. head'.exists = FALSE /\ head'.ranges = <<>> /\ head'.revision = head.revision + 1
      BY <3>1 DEF NoAuthority
    <3> QED
      BY <3>1, <3>2, <3>3, NoAuthoritySound
  <2> QED
    BY <2>1, <2>2
<1> QED
  BY <1>1, <1>2, <1>4, <1>6 DEF TypeOK, CommandType

LEMMA HeadInit == Init => HeadSound /\ VersionsRestore
<1> SUFFICES ASSUME Init PROVE HeadSound /\ VersionsRestore
  OBVIOUS
<1>1. head = NoAuthority(0) /\ versions = {}
  BY DEF Init
<1> QED
  BY <1>1, NoAuthoritySound DEF HeadSound, VersionsRestore

LEMMA HeadSoundStep == TypeOK /\ HeadSound /\ [Next]_vars => HeadSound'
<1> SUFFICES ASSUME TypeOK, HeadSound, [Next]_vars PROVE HeadSound'
  OBVIOUS
<1>1. CASE \A cmd \in inflight : ~Approve(cmd) /\ ~ApproveReopen(cmd)
  BY <1>1, HeadOnlyMovesBy DEF HeadSound
<1>2. ASSUME NEW cmd \in inflight, Approve(cmd) PROVE HeadSound'
  <2> DEFINE c == cmd.cycle
  <2>1. Shaped(head) /\ Sound(head) /\ Pushes(c)
    BY <1>2, HeadShaped, ApprovePushes DEF TypeOK, HeadSound
  <2>2. c \in Nat /\ c - 1 + 1 = c
    BY <2>1, CycleIsNat DEF Pushes
  <2>3. Sound(head')
    <3>1. /\ NewRange(c) \in RangeType /\ AffectedRangeValid(head, NewRange(c).through)
          /\ NewRange(c).from = AffectedFrom(head, NewRange(c).through)
          /\ NewRange(c).cycle = NewRange(c).through + 1
          /\ head'.exists = TRUE /\ head'.closedThrough = NewRange(c).through
          /\ head'.manifest = NewRange(c).manifest
          /\ head'.ranges = Append(head.ranges, NewRange(c))
      BY <2>1, <2>2, NewFields DEF Pushes
    <3> QED
      BY <2>1, <3>1, AppendSound
  <2>4. Sound(NewVersion(c).prior)
    BY <2>1, NewFields, NoAuthoritySound
  <2> QED
    BY <2>1, <2>3, <2>4 DEF HeadSound, Pushes
<1>3. ASSUME NEW cmd \in inflight, ApproveReopen(cmd) PROVE HeadSound'
  BY <1>3, ReopenPops DEF HeadSound
<1> QED
  BY <1>1, <1>2, <1>3

\* The month ranges closed are a gapless run whose horizon is the head's, whatever
\* is closed and reopened in whatever order.
THEOREM HeadAlwaysCanonical == Spec => []HeadIsCanonical
<1>1. Init => TypeOK /\ HeadSound
  BY TypeInit, HeadInit
<1>2. TypeOK /\ HeadSound /\ [Next]_vars => (TypeOK /\ HeadSound)'
  BY TypeStep, HeadSoundStep
<1>3. HeadSound => HeadIsCanonical
  BY SoundIsCanonical
<1> QED
  BY <1>1, <1>2, <1>3, PTL DEF Spec

\* Without the last range, what an approval has pushed is gone.
LEMMA AppendThenCut ==
    ASSUME NEW S, NEW s \in Seq(S), NEW e \in S
    PROVE  SubSeq(Append(s, e), 1, Len(Append(s, e)) - 1) = s
<1>1. Append(s, e) \in Seq(S) /\ Len(Append(s, e)) = Len(s) + 1 /\ Len(s) \in Nat
  OBVIOUS
<1>2. \A i \in 1..Len(s) : Append(s, e)[i] = s[i]
  OBVIOUS
<1>3. SubSeq(Append(s, e), 1, Len(s)) = [i \in 1..Len(s) |-> Append(s, e)[i]]
  BY <1>1
<1>4. s = [i \in 1..Len(s) |-> s[i]]
  OBVIOUS
<1> QED
  BY <1>1, <1>2, <1>3, <1>4

LEMMA VersionsRestoreStep ==
    TypeOK /\ HeadSound /\ VersionsRestore /\ [Next]_vars => VersionsRestore'
<1> SUFFICES ASSUME TypeOK, HeadSound, VersionsRestore, [Next]_vars PROVE VersionsRestore'
  OBVIOUS
<1>1. /\ head.revision \in Nat /\ \A v \in versions : v.headRevision \in Nat
      /\ Shaped(head) /\ Sound(head)
  BY HeadShaped DEF TypeOK, HeadType, VersionType, HeadSound
<1>2. CASE \A cmd \in inflight : ~Approve(cmd) /\ ~ApproveReopen(cmd)
  BY <1>2, HeadOnlyMovesBy DEF VersionsRestore
<1>3. ASSUME NEW cmd \in inflight, Approve(cmd) PROVE VersionsRestore'
  <2> DEFINE c == cmd.cycle
             new == NewVersion(c)
  <2>1. Pushes(c)
    BY <1>3, ApprovePushes
  <2>2. /\ versions' = versions \cup {new} /\ head'.revision = head.revision + 1
        /\ new.headRevision = head.revision + 1
        /\ head'.exists /\ new.manifest = head'.manifest /\ new.through = head'.closedThrough
    BY <2>1, NewFields DEF Pushes
  <2>3. new.prior.ranges = SubSeq(head'.ranges, 1, Len(head'.ranges) - 1)
    <3>1. new.prior.ranges = head.ranges
      <4>1. CASE head.exists
        BY <4>1, NewFields
      <4>2. CASE ~head.exists
        BY <1>1, <4>2, NewFields DEF Sound, Canonical, NoAuthority
      <4> QED
        BY <4>1, <4>2
    <3>2. head.ranges \in Seq(RangeType) /\ NewRange(c) \in RangeType
      BY <1>1, <2>1 DEF Shaped, Pushes
    <3> QED
      BY <2>1, <3>1, <3>2, AppendThenCut DEF Pushes
  <2> HIDE DEF new
  <2>4. \A v \in versions : v.headRevision < head'.revision
    BY <1>1, <2>2 DEF VersionsRestore
  <2> QED
    BY <1>1, <2>2, <2>3, <2>4 DEF VersionsRestore
<1>4. ASSUME NEW cmd \in inflight, ApproveReopen(cmd) PROVE VersionsRestore'
  <2>1. versions' = versions /\ head'.revision = head.revision + 1
    BY <1>4, ReopenPops
  <2>2. \A v \in versions : v.headRevision < head'.revision
    BY <1>1, <2>1 DEF VersionsRestore
  <2> QED
    BY <1>1, <2>1, <2>2 DEF VersionsRestore
<1> QED
  BY <1>2, <1>3, <1>4

\* A reopening finds one version to restore from, and what it restores is the head
\* without its last range.
THEOREM VersionsAlwaysRestore == Spec => []VersionsRestore
<1>1. Init => TypeOK /\ HeadSound /\ VersionsRestore
  BY TypeInit, HeadInit
<1>2. TypeOK /\ HeadSound /\ VersionsRestore /\ [Next]_vars
      => (TypeOK /\ HeadSound /\ VersionsRestore)'
  BY TypeStep, HeadSoundStep, VersionsRestoreStep
<1> QED
  BY <1>1, <1>2, PTL DEF Spec

\* What a reopening leaves of the head.
LEMMA ReopenCuts ==
    ASSUME TypeOK, HeadSound, VersionsRestore, NEW cmd \in inflight, ApproveReopen(cmd)
    PROVE  /\ cmd.cycle = LastRange(head).cycle
           /\ head.ranges # <<>>
           /\ head'.ranges = SubSeq(head.ranges, 1, Len(head.ranges) - 1)
           /\ Len(head'.ranges) = Len(head.ranges) - 1
           /\ \A i \in 1..(Len(head.ranges) - 1) : head'.ranges[i] = head.ranges[i]
<1>1. head.ranges \in Seq(RangeType) /\ Sound(head) /\ head.exists
  BY HeadShaped, ReopenPops DEF TypeOK, HeadSound, Shaped
<1>2. head.ranges # <<>> /\ Len(head.ranges) \in Nat \ {0} /\ head.closedThrough = LastRange(head).through
  BY <1>1 DEF Sound, Canonical
<1>3. cmd.cycle = LastRange(head).cycle
  BY <1>1, <1>2, ReopenPops DEF Sound, Canonical, LastRange
<1>4. head'.ranges = SubSeq(head.ranges, 1, Len(head.ranges) - 1)
  BY ReopenPops DEF VersionsRestore
<1> QED
  BY <1>1, <1>2, <1>3, <1>4

-----------------------------------------------------------------------------
(***************************************************************************)
(* Head and documents.  A cycle is closed as long as one of the ranges is  *)
(* its own; what a command writes for another cycle does not concern it.   *)
(***************************************************************************)
IsClosed(c) == request[c].status \in {"APPROVED", "REOPEN_REQUESTED"}

HasRange(c) == \E i \in DOMAIN head.ranges : head.ranges[i].cycle = c

\* Before and after a submission, a review that fails or a recovery nothing is closed.
LEMMA OpenStaysOpen ==
    ASSUME TypeOK, NEW cmd \in inflight, Submit(cmd) \/ Transition(cmd) \/ Cancel(cmd)
    PROVE  ~IsClosed(cmd.cycle) /\ ~IsClosed(cmd.cycle)'
<1> DEFINE c == cmd.cycle
<1>1. c \in Cycles /\ request \in [Cycles -> RequestType] /\ request[c] \in RequestType
  BY DEF TypeOK, CommandType
<1>2. ~IsClosed(c)
  BY DEF IsClosed, Submit, AcceptsSubmit, Transition, AcceptsTransition, Cancel, AcceptsCancel
<1>3. CASE Submit(cmd)
  BY <1>1, <1>2, <1>3 DEF Submit, IsClosed, RequestType
<1>4. CASE Transition(cmd)
  <2>1. request'[c].status = IF cmd.kind = "WITHDRAW" THEN "WITHDRAWN" ELSE "REJECTED"
    <3> DEFINE status == IF cmd.kind = "WITHDRAW" THEN "WITHDRAWN" ELSE "REJECTED"
               ended == [request[c] EXCEPT !.status = status,
                                           !.workflow = coordinator'.workflowRevision]
    <3>1. request' = [request EXCEPT ![c] = ended]
      BY <1>1, <1>4 DEF Transition
    <3>2. ended.status = status
      BY <1>1 DEF RequestType
    <3> HIDE DEF ended, status
    <3>3. request'[c].status = status
      BY <1>1, <3>1, <3>2
    <3> QED
      BY <3>3 DEF status
  <2> QED
    BY <1>2, <2>1 DEF IsClosed
<1>5. CASE Cancel(cmd)
  BY <1>1, <1>2, <1>5 DEF Cancel, IsClosed, RequestType
<1> QED
  BY <1>3, <1>4, <1>5

\* What the handlers that keep a cycle closed leave of its documents.
Keeps(c) ==
    /\ IsClosed(c) /\ IsClosed(c)'
    /\ request'[c].manifest = request[c].manifest /\ request'[c].version = request[c].version
    /\ ledger'[c].latest = ledger[c].latest /\ ledger'[c].revision = ledger[c].revision + 1
    /\ request'[c].ledger = ledger'[c].revision

LEMMA DecisionFields ==
    ASSUME TypeOK, NEW cmd \in inflight, NEW approved \in BOOLEAN, DecideReopen(cmd, approved)
    PROVE  LET c == cmd.cycle IN
           /\ request[c].status = "REOPEN_REQUESTED"
           /\ request'[c].status = IF approved THEN "REOPENED" ELSE "APPROVED"
           /\ request'[c].manifest = request[c].manifest
           /\ request'[c].version = request[c].version
           /\ request'[c].ledger = ledger'[c].revision
           /\ ledger'[c].latest = ledger[c].latest
           /\ ledger'[c].revision = ledger[c].revision + 1
<1> DEFINE c == cmd.cycle
           status == IF approved THEN "REOPENED" ELSE "APPROVED"
           outcome == IF approved THEN "OPEN" ELSE "CLOSED"
           decided == [request[c] EXCEPT !.status = status,
                                         !.workflow = coordinator'.workflowRevision,
                                         !.ledger = ledger'[c].revision]
           closing == [ledger[c] EXCEPT !.status = outcome, !.revision = @ + 1]
<1>1. /\ c \in Cycles /\ request \in [Cycles -> RequestType] /\ request[c] \in RequestType
      /\ ledger \in [Cycles -> LedgerType] /\ ledger[c] \in LedgerType
  BY DEF TypeOK, CommandType
<1>2. request[c].status = "REOPEN_REQUESTED"
  BY DEF DecideReopen, AcceptsReopenDecision
<1>3. request' = [request EXCEPT ![c] = decided]
  <2>1. request' = [request EXCEPT
            ![c].status = IF approved THEN "REOPENED" ELSE "APPROVED",
            ![c].workflow = coordinator'.workflowRevision,
            ![c].ledger = ledger'[c].revision]
    BY Zenon DEF DecideReopen
  <2> QED
    BY <1>1, <2>1
<1>4. ledger' = [ledger EXCEPT ![c] = closing]
  BY <1>1 DEF DecideReopen
<1>5. /\ decided.status = status /\ decided.manifest = request[c].manifest
      /\ decided.version = request[c].version /\ decided.ledger = ledger'[c].revision
  BY <1>1 DEF RequestType
<1>6. closing.latest = ledger[c].latest /\ closing.revision = ledger[c].revision + 1
  BY <1>1 DEF LedgerType
<1> HIDE DEF decided, closing, status
<1>7. request'[c] = decided /\ ledger'[c] = closing
  BY <1>1, <1>3, <1>4
<1> QED
  BY <1>2, <1>5, <1>6, <1>7 DEF status

LEMMA ClosedStaysClosed ==
    ASSUME TypeOK, NEW cmd \in inflight, RequestReopen(cmd) \/ RejectReopen(cmd)
    PROVE  Keeps(cmd.cycle)
<1> DEFINE c == cmd.cycle
<1>1. /\ c \in Cycles /\ request \in [Cycles -> RequestType] /\ request[c] \in RequestType
      /\ ledger \in [Cycles -> LedgerType] /\ ledger[c] \in LedgerType
  BY DEF TypeOK, CommandType
<1>2. CASE RequestReopen(cmd)
  <2> DEFINE asked == [request[c] EXCEPT !.status = "REOPEN_REQUESTED",
                                         !.workflow = coordinator'.workflowRevision,
                                         !.ledger = ledger'[c].revision]
             asking == [ledger[c] EXCEPT !.status = "REOPEN_REQUESTED", !.revision = @ + 1]
  <2>1. request' = [request EXCEPT ![c] = asked]
    <3>1. request' = [request EXCEPT
              ![c].status = "REOPEN_REQUESTED",
              ![c].workflow = coordinator'.workflowRevision,
              ![c].ledger = ledger'[c].revision]
      BY <1>2, Zenon DEF RequestReopen
    <3> QED
      BY <1>1, <3>1
  <2>5. ledger' = [ledger EXCEPT ![c] = asking]
    <3>1. ledger' = [ledger EXCEPT ![c].status = "REOPEN_REQUESTED", ![c].revision = @ + 1]
      BY <1>2, Zenon DEF RequestReopen
    <3> QED
      BY <1>1, <3>1
  <2>2. /\ asked.status = "REOPEN_REQUESTED" /\ asked.manifest = request[c].manifest
        /\ asked.version = request[c].version /\ asked.ledger = ledger'[c].revision
        /\ asking.latest = ledger[c].latest /\ asking.revision = ledger[c].revision + 1
    BY <1>1 DEF RequestType, LedgerType
  <2> HIDE DEF asked, asking
  <2>3. request'[c] = asked /\ ledger'[c] = asking
    BY <1>1, <2>1, <2>5
  <2>4. request[c].status = "APPROVED"
    BY <1>2 DEF RequestReopen, AcceptsReopenRequest
  <2> QED
    BY <2>2, <2>3, <2>4 DEF Keeps, IsClosed
<1>3. CASE RejectReopen(cmd)
  <2>1. DecideReopen(cmd, FALSE)
    BY <1>3 DEF RejectReopen
  <2> QED
    BY <2>1, DecisionFields DEF Keeps, IsClosed
<1> QED
  BY <1>2, <1>3

LEMMA ApprovalFields ==
    ASSUME TypeOK, NEW cmd \in inflight, Approve(cmd)
    PROVE  LET c == cmd.cycle IN
           /\ request[c].status = "PENDING_APPROVAL"
           /\ request[c].manifest \in shards
           /\ request'[c].status = "APPROVED"
           /\ request'[c].manifest = request[c].manifest
           /\ request'[c].version = ledger[c].revision + 1
           /\ ledger'[c].latest = ledger[c].revision + 1
           /\ ledger'[c].revision = ledger[c].revision + 1
<1> DEFINE c == cmd.cycle
           approved == [request[c] EXCEPT !.status = "APPROVED",
                           !.workflow = coordinator'.workflowRevision,
                           !.ledger = cmd.ledger + 1, !.version = ledger[c].revision + 1]
<1>1. /\ c \in Cycles /\ request \in [Cycles -> RequestType] /\ request[c] \in RequestType
      /\ ledger \in [Cycles -> LedgerType]
  BY DEF TypeOK, CommandType
<1>2. request' = [request EXCEPT ![c] = approved]
  BY <1>1 DEF Approve
<1>3. /\ approved.status = "APPROVED" /\ approved.manifest = request[c].manifest
      /\ approved.version = ledger[c].revision + 1
  BY <1>1 DEF RequestType
<1> HIDE DEF approved
<1>4. request'[c] = approved
  BY <1>1, <1>2
<1>5. /\ ledger'[c].latest = ledger[c].revision + 1
      /\ ledger'[c].revision = ledger[c].revision + 1
  BY <1>1 DEF Approve
<1>6. request[c].status = "PENDING_APPROVAL" /\ request[c].manifest \in shards
  BY DEF Approve, AcceptsApprove
<1> QED
  BY <1>3, <1>4, <1>5, <1>6

\* A range and the documents of its cycle name the same evidence and version.
Told(range) ==
    LET r == request[range.cycle]
        l == ledger[range.cycle]
    IN  /\ r.manifest = range.manifest /\ r.version = range.version
        /\ l.latest = range.version /\ l.revision >= range.version

LEMMA AgreesByParts ==
    AuthorityAgrees <=> /\ \A c \in Cycles : IsClosed(c) <=> HasRange(c)
                        /\ \A i \in DOMAIN head.ranges : Told(head.ranges[i])
BY DEF AuthorityAgrees, IsClosed, HasRange, Told

LEMMA AgreesInit == Init => AuthorityAgrees
<1> SUFFICES ASSUME Init PROVE AuthorityAgrees
  OBVIOUS
<1>1. DOMAIN head.ranges = {}
  BY DEF Init, NoAuthority
<1>2. \A c \in Cycles : request[c].status = "NONE"
  BY DEF Init, NoRequest
<1> QED
  BY <1>1, <1>2 DEF AuthorityAgrees

\* The documents of the cycles a command is not about stay as they are.
LEMMA OthersKept ==
    ASSUME TypeOK, DocumentsAgree, NEW cmd \in inflight, Execute(cmd)
    PROVE  /\ cmd.cycle \in Cycles
           /\ \A d \in Cycles \ {cmd.cycle} : request'[d] = request[d] /\ ledger'[d] = ledger[d]
BY ExecuteMoves DEF Moves

LEMMA AgreesStep ==
    TypeOK /\ DocumentsAgree /\ HeadSound /\ VersionsRestore /\ AuthorityAgrees /\ [Next]_vars
    => AuthorityAgrees'
<1> SUFFICES ASSUME TypeOK, DocumentsAgree, HeadSound, VersionsRestore, AuthorityAgrees, [Next]_vars
             PROVE  AuthorityAgrees'
  OBVIOUS
<1>1. /\ Shaped(head) /\ Sound(head)
      /\ head.ranges \in Seq(RangeType) /\ DOMAIN head.ranges = 1..Len(head.ranges)
      /\ Len(head.ranges) \in Nat
      /\ \A i \in DOMAIN head.ranges :
            head.ranges[i] \in RangeType /\ head.ranges[i].cycle \in Cycles
  <2>1. Shaped(head) /\ head.ranges \in Seq(RangeType) /\ Sound(head)
    BY HeadShaped DEF TypeOK, Shaped, HeadSound
  <2>2. \A i \in DOMAIN head.ranges : head.ranges[i] \in RangeType
    BY <2>1
  <2> QED
    BY <2>1, <2>2 DEF RangeType
<1>2. /\ \A c \in Cycles : IsClosed(c) <=> HasRange(c)
      /\ \A i \in DOMAIN head.ranges : Told(head.ranges[i])
  BY AgreesByParts
<1>3. SUFFICES /\ \A c \in Cycles : IsClosed(c)' <=> HasRange(c)'
               /\ \A i \in DOMAIN head'.ranges : Told(head.ranges[i])'
  BY DEF AuthorityAgrees, IsClosed, HasRange, Told
<1>4. CASE \A cmd \in inflight : ~Execute(cmd)
  <2>1. UNCHANGED CycleDocuments /\ Amended /\ UNCHANGED <<head, versions>>
    BY <1>4, OthersLeaveDocuments, HeadOnlyMovesBy DEF Execute
  <2>2. \A c \in Cycles : IsClosed(c)' <=> HasRange(c)'
    BY <1>2, <2>1 DEF CycleDocuments, IsClosed, HasRange
  <2>3. ASSUME NEW i \in DOMAIN head.ranges PROVE Told(head.ranges[i])'
    <3> DEFINE c == head.ranges[i].cycle
    <3>1. c \in Cycles /\ Told(head.ranges[i])
      BY <1>1, <1>2
    <3>2. /\ ledger'[c].latest = ledger[c].latest
          /\ ledger'[c].revision >= ledger[c].revision
      BY <2>1, <3>1 DEF Amended
    <3>3. /\ ledger[c].revision \in Nat /\ ledger'[c].revision \in Nat
          /\ head.ranges[i].version \in Nat
      BY <1>1, <3>1, TypeStep DEF TypeOK, LedgerType, RangeType
    <3>4. ledger'[c].revision >= head.ranges[i].version
      BY <3>1, <3>2, <3>3 DEF Told
    <3> QED
      BY <2>1, <3>1, <3>2, <3>4 DEF Told, CycleDocuments
  <2> QED
    BY <2>1, <2>2, <2>3
<1>5. ASSUME NEW cmd \in inflight, Submit(cmd) \/ Transition(cmd) \/ Cancel(cmd)
      PROVE  /\ \A c \in Cycles : IsClosed(c)' <=> HasRange(c)'
             /\ \A i \in DOMAIN head'.ranges : Told(head.ranges[i])'
  <2> DEFINE c == cmd.cycle
  <2>1. head' = head
    BY <1>5 DEF Submit, Transition, Cancel
  <2>2. c \in Cycles /\ \A d \in Cycles \ {c} : request'[d] = request[d] /\ ledger'[d] = ledger[d]
    BY <1>5, OthersKept DEF Execute
  <2>3. ~IsClosed(c) /\ ~IsClosed(c)'
    BY <1>5, OpenStaysOpen
  <2>4. \A i \in DOMAIN head.ranges : head.ranges[i].cycle \in Cycles \ {c}
    BY <1>1, <1>2, <2>2, <2>3 DEF HasRange
  <2>5. \A i \in DOMAIN head'.ranges : Told(head.ranges[i])'
    BY <1>2, <2>1, <2>2, <2>4 DEF Told
  <2>6. \A d \in Cycles : IsClosed(d)' <=> HasRange(d)'
    BY <1>2, <2>1, <2>2, <2>3, <2>4 DEF IsClosed, HasRange
  <2> QED
    BY <2>5, <2>6
<1>6. ASSUME NEW cmd \in inflight, RequestReopen(cmd) \/ RejectReopen(cmd)
      PROVE  /\ \A c \in Cycles : IsClosed(c)' <=> HasRange(c)'
             /\ \A i \in DOMAIN head'.ranges : Told(head.ranges[i])'
  <2> DEFINE c == cmd.cycle
  <2>1. head' = head
    BY <1>6 DEF RequestReopen, RejectReopen
  <2>2. c \in Cycles /\ \A d \in Cycles \ {c} : request'[d] = request[d] /\ ledger'[d] = ledger[d]
    BY <1>6, OthersKept DEF Execute
  <2>3. Keeps(c)
    BY <1>6, ClosedStaysClosed
  <2>4. \A d \in Cycles : IsClosed(d)' <=> HasRange(d)'
    BY <1>2, <2>1, <2>2, <2>3 DEF Keeps, IsClosed, HasRange
  <2>5. ASSUME NEW i \in DOMAIN head.ranges PROVE Told(head.ranges[i])'
    <3>1. CASE head.ranges[i].cycle = c
      <4>1. ledger[c].revision \in Nat /\ head.ranges[i].version \in Nat
        <5>1. ledger[c] \in LedgerType /\ head.ranges[i] \in RangeType
          BY <1>1, <2>2 DEF TypeOK
        <5> QED
          BY <5>1 DEF LedgerType, RangeType
      <4>2. /\ request[c].manifest = head.ranges[i].manifest
            /\ request[c].version = head.ranges[i].version
            /\ ledger[c].latest = head.ranges[i].version
            /\ ledger[c].revision >= head.ranges[i].version
        BY <1>2, <3>1 DEF Told
      <4> QED
        BY <2>1, <2>3, <3>1, <4>1, <4>2 DEF Told, Keeps
    <3>2. CASE head.ranges[i].cycle # c
      BY <1>1, <1>2, <2>1, <2>2, <3>2 DEF Told
    <3> QED
      BY <3>1, <3>2
  <2> QED
    BY <2>1, <2>4, <2>5
<1>7. ASSUME NEW cmd \in inflight, Approve(cmd)
      PROVE  /\ \A c \in Cycles : IsClosed(c)' <=> HasRange(c)'
             /\ \A i \in DOMAIN head'.ranges : Told(head.ranges[i])'
  <2> DEFINE c == cmd.cycle
  <2>0. PICK n \in Nat : n = Len(head.ranges)
    BY <1>1
  <2>1. c \in Cycles /\ \A d \in Cycles \ {c} : request'[d] = request[d] /\ ledger'[d] = ledger[d]
    BY <1>7, OthersKept DEF Execute
  <2>2. ~IsClosed(c) /\ IsClosed(c)'
    BY <1>7, ApprovalFields DEF IsClosed
  <2>3. \A i \in 1..n : head.ranges[i].cycle \in Cycles \ {c}
    BY <1>1, <1>2, <2>0, <2>1, <2>2 DEF HasRange
  <2>4. /\ DOMAIN head'.ranges = 1..(n + 1)
        /\ head'.ranges[n + 1] = NewRange(c)
        /\ \A i \in 1..n : head'.ranges[i] = head.ranges[i]
    <3>1. NewRange(c) \in RangeType /\ head'.ranges = Append(head.ranges, NewRange(c))
      BY <1>7, ApprovePushes DEF Pushes
    <3> QED
      BY <1>1, <2>0, <3>1
  <2>5. NewRange(c).cycle = c
    BY NewFields
  <2>6. \A d \in Cycles : IsClosed(d)' <=> HasRange(d)'
    <3>1. HasRange(c)'
      <4>1. n + 1 \in DOMAIN head'.ranges
        BY <2>4
      <4>2. head'.ranges[n + 1].cycle = c
        BY <2>4, <2>5
      <4> QED
        BY <4>1, <4>2 DEF HasRange
    <3>2. ASSUME NEW d \in Cycles \ {c} PROVE HasRange(d)' <=> HasRange(d)
      <4>1. d # c
        OBVIOUS
      <4>2. HasRange(d) <=> \E i \in 1..n : head.ranges[i].cycle = d
        BY <1>1, <2>0 DEF HasRange
      <4>3. HasRange(d)' <=> \E i \in 1..(n + 1) : head'.ranges[i].cycle = d
        BY <2>4 DEF HasRange
      <4>4. head'.ranges[n + 1].cycle # d
        BY <2>4, <2>5, <4>1
      <4> QED
        BY <2>4, <4>2, <4>3, <4>4
    <3>3. \A d \in Cycles \ {c} : IsClosed(d)' <=> IsClosed(d)
      BY <2>1 DEF IsClosed
    <3> QED
      BY <1>2, <2>1, <2>2, <3>1, <3>2, <3>3
  <2>7. ASSUME NEW i \in 1..n PROVE Told(head.ranges[i])'
    <3>1. Told(head.ranges[i]) /\ head'.ranges[i] = head.ranges[i]
      BY <1>1, <1>2, <2>0, <2>4
    <3>2. head.ranges[i].cycle \in Cycles \ {c}
      BY <2>3
    <3> QED
      BY <2>1, <3>1, <3>2 DEF Told
  <2>8. Told(head.ranges[n + 1])'
    <3>1. ledger[c].revision \in Nat
      BY <2>1 DEF TypeOK, LedgerType
    <3> QED
      BY <1>7, <2>1, <2>4, <3>1, NewFields, ApprovalFields DEF Told
  <2>9. \A i \in DOMAIN head'.ranges : Told(head.ranges[i])'
    BY <2>4, <2>7, <2>8
  <2> QED
    BY <2>6, <2>9
<1>8. ASSUME NEW cmd \in inflight, ApproveReopen(cmd)
      PROVE  /\ \A c \in Cycles : IsClosed(c)' <=> HasRange(c)'
             /\ \A i \in DOMAIN head'.ranges : Told(head.ranges[i])'
  <2> DEFINE c == cmd.cycle
  <2>0. PICK n \in Nat : n = Len(head.ranges)
    BY <1>1
  <2>1. c \in Cycles /\ \A d \in Cycles \ {c} : request'[d] = request[d] /\ ledger'[d] = ledger[d]
    BY <1>8, OthersKept DEF Execute
  <2>2. ~IsClosed(c)'
    <3>1. DecideReopen(cmd, TRUE)
      BY <1>8 DEF ApproveReopen
    <3> QED
      BY <3>1, DecisionFields DEF IsClosed
  <2>3. /\ head.ranges[n].cycle = c /\ n > 0 /\ DOMAIN head'.ranges = 1..(n - 1)
        /\ \A i \in 1..(n - 1) : head'.ranges[i] = head.ranges[i]
    <3>1. TypeOK'
      BY TypeStep
    <3>2. head'.ranges \in Seq(RangeType)
      BY <3>1 DEF TypeOK, HeadType
    <3>3. Len(head'.ranges) = n - 1 /\ \A i \in 1..(n - 1) : head'.ranges[i] = head.ranges[i]
      BY <1>8, <2>0, ReopenCuts
    <3>4. DOMAIN head'.ranges = 1..(n - 1)
      BY <3>2, <3>3
    <3> QED
      BY <1>1, <1>8, <2>0, <3>3, <3>4, ReopenCuts DEF LastRange
  <2>4. \A i \in 1..(n - 1) : head.ranges[i].cycle # c
    <3> SUFFICES ASSUME NEW i \in 1..(n - 1) PROVE head.ranges[i].cycle # c
      OBVIOUS
    <3>1. i \in DOMAIN head.ranges /\ n \in DOMAIN head.ranges /\ i # n
      BY <1>1, <2>0, <2>3
    <3>2. /\ head.ranges[i].through < head.ranges[n].from
          /\ head.ranges[n].from <= head.ranges[n].through
      BY <1>1, <2>0, <3>1, RangesBelow DEF LastRange
    <3>3. /\ head.ranges[i].cycle = head.ranges[i].through + 1
          /\ head.ranges[n].cycle = head.ranges[n].through + 1
      BY <1>1, <3>1 DEF Sound, Canonical
    <3>4. head.ranges[i] \in RangeType /\ head.ranges[n] \in RangeType
      BY <1>1, <3>1
    <3>5. /\ head.ranges[i].through \in Nat
          /\ head.ranges[n].from \in Nat /\ head.ranges[n].through \in Nat
      BY <3>4 DEF RangeType
    <3>6. head.ranges[i].through + 1 # head.ranges[n].through + 1
      BY <3>2, <3>5
    <3>7. head.ranges[n].cycle = c
      BY <2>3
    <3> QED
      BY <3>3, <3>6, <3>7
  <2>5. \A d \in Cycles : IsClosed(d)' <=> HasRange(d)'
    <3>1. ~HasRange(c)'
      BY <2>3, <2>4 DEF HasRange
    <3>2. ASSUME NEW d \in Cycles \ {c} PROVE HasRange(d)' <=> HasRange(d)
      <4>1. HasRange(d) <=> \E i \in 1..n : head.ranges[i].cycle = d
        BY <1>1, <2>0 DEF HasRange
      <4>2. HasRange(d)' <=> \E i \in 1..(n - 1) : head'.ranges[i].cycle = d
        BY <2>3 DEF HasRange
      <4>3. \A i \in 1..n : i # n => i \in 1..(n - 1)
        OBVIOUS
      <4> QED
        BY <2>3, <4>1, <4>2, <4>3
    <3>3. \A d \in Cycles \ {c} : IsClosed(d)' <=> IsClosed(d)
      BY <2>1 DEF IsClosed
    <3> QED
      BY <1>2, <2>1, <2>2, <3>1, <3>2, <3>3
  <2>6. ASSUME NEW i \in DOMAIN head'.ranges PROVE Told(head.ranges[i])'
    <3>1. i \in 1..(n - 1) /\ i \in DOMAIN head.ranges /\ head'.ranges[i] = head.ranges[i]
      BY <1>1, <2>0, <2>3
    <3>2. head.ranges[i].cycle \in Cycles \ {c}
      BY <1>1, <2>4, <3>1
    <3> QED
      BY <1>2, <2>1, <3>1, <3>2 DEF Told
  <2> QED
    BY <2>5, <2>6
<1> QED
  BY <1>4, <1>5, <1>6, <1>7, <1>8 DEF Execute

\* A cycle is closed exactly as long as a range of the head is its own, and the
\* range, the request and the ledger name the same evidence and version.
THEOREM AuthorityAlwaysAgrees == Spec => []AuthorityAgrees
<1> DEFINE I == TypeOK /\ DocumentsAgree /\ HeadSound /\ VersionsRestore /\ AuthorityAgrees
<1>1. Init => I
  BY TypeInit, DocumentsInit, HeadInit, AgreesInit
<1>2. I /\ [Next]_vars => I'
  BY TypeStep, DocumentsStep, HeadSoundStep, VersionsRestoreStep, AgreesStep
<1>3. I => AuthorityAgrees
  OBVIOUS
<1> QED
  BY <1>1, <1>2, <1>3, PTL DEF Spec

-----------------------------------------------------------------------------
(***************************************************************************)
(* Evidence.  Ranges come from approvals, manifests from submissions, and  *)
(* both from shards that are never written again.                          *)
(***************************************************************************)
LEMMA RangesFrom ==
    ASSUME TypeOK, HeadSound, VersionsRestore, [Next]_vars, NEW i \in DOMAIN head'.ranges
    PROVE  \/ \E j \in DOMAIN head.ranges : head'.ranges[i] = head.ranges[j]
           \/ \E cmd \in inflight : Approve(cmd) /\ head'.ranges[i] = NewRange(cmd.cycle)
<1>1. PICK n \in Nat : n = Len(head.ranges)
  BY DEF TypeOK, HeadType
<1>2. head.ranges \in Seq(RangeType) /\ DOMAIN head.ranges = 1..n
  BY <1>1 DEF TypeOK, HeadType
<1>3. head'.ranges \in Seq(RangeType) /\ DOMAIN head'.ranges = 1..Len(head'.ranges)
  BY TypeStep DEF TypeOK, HeadType
<1>4. CASE \A cmd \in inflight : ~Approve(cmd) /\ ~ApproveReopen(cmd)
  BY <1>4, HeadOnlyMovesBy
<1>5. ASSUME NEW cmd \in inflight, Approve(cmd)
      PROVE  \/ \E j \in DOMAIN head.ranges : head'.ranges[i] = head.ranges[j]
             \/ head'.ranges[i] = NewRange(cmd.cycle)
  <2>1. NewRange(cmd.cycle) \in RangeType /\ head'.ranges = Append(head.ranges, NewRange(cmd.cycle))
    BY <1>5, ApprovePushes DEF Pushes
  <2>2. /\ Len(head'.ranges) = n + 1 /\ head'.ranges[n + 1] = NewRange(cmd.cycle)
        /\ \A j \in 1..n : head'.ranges[j] = head.ranges[j]
    BY <1>1, <1>2, <2>1
  <2>3. i \in 1..n \/ i = n + 1
    BY <1>3, <2>2
  <2> QED
    BY <1>2, <2>2, <2>3
<1>6. ASSUME NEW cmd \in inflight, ApproveReopen(cmd)
      PROVE  \E j \in DOMAIN head.ranges : head'.ranges[i] = head.ranges[j]
  <2>1. Len(head'.ranges) = n - 1 /\ \A j \in 1..(n - 1) : head'.ranges[j] = head.ranges[j]
    BY <1>1, <1>6, ReopenCuts
  <2>2. i \in 1..(n - 1) /\ i \in 1..n
    BY <1>3, <2>1
  <2> QED
    BY <1>2, <2>1, <2>2
<1> QED
  BY <1>4, <1>5, <1>6

\* What the end of a review or a recovery leaves of a request.
LEMMA FinishFields ==
    ASSUME TypeOK, NEW cmd \in inflight, Transition(cmd) \/ Cancel(cmd)
    PROVE  /\ request[cmd.cycle].status \in {"PENDING_APPROVAL", "REOPENED"}
           /\ request'[cmd.cycle].status \in {"WITHDRAWN", "REJECTED"}
           /\ request'[cmd.cycle].manifest = request[cmd.cycle].manifest
<1> DEFINE c == cmd.cycle
<1>1. c \in Cycles /\ request \in [Cycles -> RequestType] /\ request[c] \in RequestType
  BY DEF TypeOK, CommandType
<1>2. PICK status \in {"WITHDRAWN", "REJECTED"} :
         request' = [request EXCEPT ![c].status = status,
                                    ![c].workflow = coordinator'.workflowRevision]
  <2>1. CASE Transition(cmd)
    <3> DEFINE status == IF cmd.kind = "WITHDRAW" THEN "WITHDRAWN" ELSE "REJECTED"
    <3>1. request' = [request EXCEPT ![c].status = status,
                                     ![c].workflow = coordinator'.workflowRevision]
      BY <2>1, Zenon DEF Transition
    <3>2. status \in {"WITHDRAWN", "REJECTED"}
      OBVIOUS
    <3> HIDE DEF status
    <3> QED
      BY <3>1, <3>2
  <2>2. CASE Cancel(cmd)
    BY <2>2, Zenon DEF Cancel
  <2> QED
    BY <2>1, <2>2
<1>3. request[c].status \in {"PENDING_APPROVAL", "REOPENED"}
  BY DEF Transition, AcceptsTransition, Cancel, AcceptsCancel
<1> DEFINE ended == [request[c] EXCEPT !.status = status,
                                       !.workflow = coordinator'.workflowRevision]
<1>4. request' = [request EXCEPT ![c] = ended]
  BY <1>1, <1>2
<1>5. ended.status = status /\ ended.manifest = request[c].manifest
  BY <1>1 DEF RequestType
<1> HIDE DEF ended
<1>6. request'[c] = ended
  BY <1>1, <1>4
<1> QED
  BY <1>3, <1>5, <1>6

LEMMA SubmitFields ==
    ASSUME TypeOK, NEW cmd \in inflight, Submit(cmd)
    PROVE  /\ request[cmd.cycle].status \in {"NONE", "REJECTED", "WITHDRAWN", "REOPENED"}
           /\ request'[cmd.cycle].status = "PENDING_APPROVAL"
           /\ request'[cmd.cycle].manifest = cmd.manifest
           /\ cmd.manifest \in shards
<1> DEFINE c == cmd.cycle
           submitted == [request[c] EXCEPT
              !.status = "PENDING_APPROVAL",
              !.workflow = NextCoordinatorOfSubmit(cmd).workflowRevision,
              !.manifest = cmd.manifest, !.requester = cmd.actor, !.approver = cmd.approver]
<1>1. c \in Cycles /\ request \in [Cycles -> RequestType] /\ request[c] \in RequestType
  BY DEF TypeOK, CommandType
<1>2. request' = [request EXCEPT ![c] = submitted]
  BY <1>1 DEF Submit
<1>3. submitted.status = "PENDING_APPROVAL" /\ submitted.manifest = cmd.manifest
  BY <1>1 DEF RequestType
<1> HIDE DEF submitted
<1>4. request'[c] = submitted
  BY <1>1, <1>2
<1>5. /\ request[c].status \in {"NONE", "REJECTED", "WITHDRAWN", "REOPENED"}
      /\ cmd.manifest \in shards
  BY DEF Submit, AcceptsSubmit
<1> QED
  BY <1>3, <1>4, <1>5

\* Only a submission gives a request evidence, and it was staged.
LEMMA ManifestsFrom ==
    ASSUME TypeOK, DocumentsAgree, [Next]_vars, NEW c \in Cycles
    PROVE  \/ request'[c] = request[c]
           \/ request'[c].manifest \in shards
           \/ request'[c].manifest = request[c].manifest /\ request[c].status # "NONE"
<1>1. CASE \A cmd \in inflight : ~Execute(cmd)
  BY <1>1, OthersLeaveDocuments DEF CycleDocuments
<1>2. ASSUME NEW cmd \in inflight, Execute(cmd), cmd.cycle = c
      PROVE  \/ request'[c].manifest \in shards
             \/ request'[c].manifest = request[c].manifest /\ request[c].status # "NONE"
  <2>1. CASE Submit(cmd)
    BY <1>2, <2>1, SubmitFields
  <2>2. CASE Transition(cmd) \/ Cancel(cmd)
    BY <1>2, <2>2, FinishFields
  <2>3. CASE Approve(cmd)
    BY <1>2, <2>3, ApprovalFields
  <2>4. CASE RequestReopen(cmd) \/ RejectReopen(cmd)
    BY <1>2, <2>4, ClosedStaysClosed DEF Keeps, IsClosed
  <2>5. CASE ApproveReopen(cmd)
    <3>1. DecideReopen(cmd, TRUE)
      BY <2>5 DEF ApproveReopen
    <3> QED
      BY <1>2, <3>1, DecisionFields
  <2> QED
    BY <1>2, <2>1, <2>2, <2>3, <2>4, <2>5 DEF Execute
<1>3. ASSUME NEW cmd \in inflight, Execute(cmd), cmd.cycle # c PROVE request'[c] = request[c]
  BY <1>3, OthersKept
<1> QED
  BY <1>1, <1>2, <1>3

\* A shard is added by staging alone, and does not replace another.
LEMMA ShardsGrow ==
    ASSUME [Next]_vars
    PROVE  \/ shards' = shards
           \/ \E evidence : Untampered(evidence) /\ shards' = shards \cup {evidence}
<1>1. ASSUME NEW a \in Members, NEW c \in Cycles, Prepare(a, c) PROVE shards' = shards
  BY <1>1 DEF Prepare, PrepareSubmit, PrepareTransition, PrepareCancel,
              PrepareApprove, PrepareReopenRequest, PrepareReopenDecision
<1>2. ASSUME NEW cmd \in inflight, StageSubmit(cmd)
      PROVE  \E evidence : Untampered(evidence) /\ shards' = shards \cup {evidence}
  BY <1>2 DEF StageSubmit
<1>3. ASSUME NEW cmd \in inflight, Execute(cmd) \/ Lose(cmd) PROVE shards' = shards
  BY <1>3 DEF Execute, Submit, Transition, Cancel, Approve, RequestReopen, ApproveReopen,
              RejectReopen, DecideReopen, Lose
<1>4. ASSUME NEW source \in Sources, EditSheet(source) PROVE shards' = shards
  BY <1>4 DEF EditSheet
<1>5. ASSUME NEW a \in Members, ChangeApprover(a) \/ ApproveProjectChange(a)
      PROVE  shards' = shards
  BY <1>5 DEF ChangeApprover, ApproveProjectChange
<1>6. ASSUME NEW m \in Cycles, AmendMonth(m) PROVE shards' = shards
  BY <1>6 DEF AmendMonth
<1>7. ASSUME NEW a \in Members, NEW m \in TrackedMonths, WeekStep(a, m)
      PROVE  shards' = shards
  BY <1>7, WeekStepSets
<1>8. CASE UNCHANGED vars
  BY <1>8 DEF vars
<1> QED
  BY <1>1, <1>2, <1>3, <1>4, <1>5, <1>6, <1>7, <1>8 DEF Next

LEMMA EvidenceInit == Init => EvidenceIsStaged
<1> SUFFICES ASSUME Init PROVE EvidenceIsStaged
  OBVIOUS
<1>1. DOMAIN head.ranges = {} /\ shards = {}
  BY DEF Init, NoAuthority
<1>2. \A c \in Cycles : request[c].status = "NONE"
  BY DEF Init, NoRequest
<1> QED
  BY <1>1, <1>2 DEF EvidenceIsStaged

LEMMA EvidenceStep ==
    TypeOK /\ DocumentsAgree /\ HeadSound /\ VersionsRestore /\ EvidenceIsStaged /\ [Next]_vars
    => EvidenceIsStaged'
<1> SUFFICES ASSUME TypeOK, DocumentsAgree, HeadSound, VersionsRestore, EvidenceIsStaged,
                    [Next]_vars
             PROVE  EvidenceIsStaged'
  OBVIOUS
<1>1. shards \subseteq shards'
  BY ShardsGrow
<1>2. \A s, t \in shards' : s.cycle = t.cycle /\ s.evidence = t.evidence => s = t
  BY ShardsGrow DEF EvidenceIsStaged, Untampered
<1>3. \A c \in Cycles : request'[c].status # "NONE" => request'[c].manifest \in shards'
  BY <1>1, ManifestsFrom DEF EvidenceIsStaged
<1>4. ASSUME NEW i \in DOMAIN head'.ranges PROVE head'.ranges[i].manifest \in shards'
  <2>1. CASE \E j \in DOMAIN head.ranges : head'.ranges[i] = head.ranges[j]
    BY <1>1, <2>1 DEF EvidenceIsStaged
  <2>2. CASE \E cmd \in inflight : Approve(cmd) /\ head'.ranges[i] = NewRange(cmd.cycle)
    BY <1>1, <2>2, ApprovalFields, NewFields
  <2> QED
    BY <2>1, <2>2, RangesFrom
<1> QED
  BY <1>2, <1>3, <1>4 DEF EvidenceIsStaged

\* Every submitted request and every closed range has evidence of its own that
\* nobody can replace, also when submissions of several people overtake each other.
THEOREM EvidenceAlwaysStaged == Spec => []EvidenceIsStaged
<1> DEFINE I == TypeOK /\ DocumentsAgree /\ HeadSound /\ VersionsRestore /\ EvidenceIsStaged
<1>1. Init => I
  BY TypeInit, DocumentsInit, HeadInit, EvidenceInit
<1>2. I /\ [Next]_vars => I'
  BY TypeStep, DocumentsStep, HeadSoundStep, VersionsRestoreStep, EvidenceStep
<1>3. I => EvidenceIsStaged
  OBVIOUS
<1> QED
  BY <1>1, <1>2, <1>3, PTL DEF Spec

-----------------------------------------------------------------------------
(***************************************************************************)
(* Weeks.  The version a reopening restores from covers the months of the  *)
(* last range, no more and no less, and no other range covers any of them. *)
(***************************************************************************)
LEMMA VersionCoversLastRange ==
    ASSUME TypeOK, HeadSound, VersionsRestore, NEW v \in versions, head.exists,
           v.headRevision = head.revision, v.through = head.closedThrough,
           v.from = AffectedFrom(v.prior, head.closedThrough), NEW m
    PROVE  RangeCovers(v, m) <=> RangeCovers(LastRange(head), m)
<1>1. Sound(head) /\ Sound(v.prior) /\ Shaped(head) /\ Shaped(v.prior)
  BY HeadShaped DEF HeadSound, TypeOK, VersionType
<1>2. PICK n \in Nat : n = Len(head.ranges)
  BY <1>1 DEF Shaped
<1>3. /\ n > 0 /\ DOMAIN head.ranges = 1..n /\ n \in DOMAIN head.ranges
      /\ head.closedThrough = head.ranges[n].through
  BY <1>1, <1>2 DEF Shaped, Sound, Canonical, LastRange
<1>4. v.prior.ranges = SubSeq(head.ranges, 1, n - 1)
  BY <1>2 DEF VersionsRestore
<1>5. Len(v.prior.ranges) = n - 1 /\ \A i \in 1..(n - 1) : v.prior.ranges[i] = head.ranges[i]
  BY <1>1, <1>2, <1>3, <1>4 DEF Shaped
<1>6. head.ranges[n].from = IF n = 1 THEN January(head.ranges[n].through)
                            ELSE head.ranges[n - 1].through + 1
  BY <1>1, <1>3 DEF Sound, Canonical
<1>7. CASE n = 1
  <2>1. v.prior.ranges = <<>> /\ ~v.prior.exists
    BY <1>1, <1>5, <1>7 DEF Shaped, Sound, Canonical
  <2>2. v.from = head.ranges[n].from /\ v.through = head.ranges[n].through
    BY <1>3, <1>6, <1>7, <2>1 DEF AffectedFrom
  <2> QED
    BY <1>2, <2>2 DEF RangeCovers, LastRange
<1>8. CASE n # 1
  <2>1. v.prior.ranges # <<>> /\ n - 1 \in 1..(n - 1)
    BY <1>3, <1>5, <1>8
  <2>2. v.prior.exists /\ v.prior.closedThrough = head.ranges[n - 1].through
    BY <1>1, <1>5, <2>1 DEF Sound, Canonical, LastRange
  <2>3. v.from = head.ranges[n].from /\ v.through = head.ranges[n].through
    BY <1>3, <1>6, <1>8, <2>2 DEF AffectedFrom
  <2> QED
    BY <1>2, <2>3 DEF RangeCovers, LastRange
<1> QED
  BY <1>7, <1>8

\* The months of the last range are those that a reopening uncovers.
LEMMA ReopenUncovers ==
    ASSUME TypeOK, HeadSound, VersionsRestore, NEW cmd \in inflight, ApproveReopen(cmd), NEW m \in Nat
    PROVE  Covered(m) /\ ~Covered(m)' <=> RangeCovers(LastRange(head), m)
<1>1. Sound(head) /\ Shaped(head) /\ head.exists
  BY HeadShaped, ReopenPops DEF HeadSound, TypeOK
<1>2. PICK n \in Nat : n = Len(head.ranges)
  BY <1>1 DEF Shaped
<1>3. /\ n > 0 /\ DOMAIN head.ranges = 1..n /\ LastRange(head) = head.ranges[n]
  BY <1>1, <1>2 DEF Shaped, Sound, Canonical, LastRange
<1>4. DOMAIN head'.ranges = 1..(n - 1) /\ \A i \in 1..(n - 1) : head'.ranges[i] = head.ranges[i]
  <2>1. head'.ranges \in Seq(RangeType)
    <3>1. TypeOK'
      BY TypeStep DEF Next, Execute
    <3> QED
      BY <3>1 DEF TypeOK, HeadType
  <2>2. Len(head'.ranges) = n - 1 /\ \A i \in 1..(n - 1) : head'.ranges[i] = head.ranges[i]
    BY <1>2, ReopenCuts
  <2> QED
    BY <2>1, <2>2
<1>5. Covered(m) <=> \E i \in 1..n : RangeCovers(head.ranges[i], m)
  BY <1>3 DEF Covered
<1>6. Covered(m)' <=> \E i \in 1..(n - 1) : RangeCovers(head.ranges[i], m)
  BY <1>4 DEF Covered, RangeCovers
<1>7. \A i \in 1..(n - 1) : ~(RangeCovers(head.ranges[i], m) /\ RangeCovers(head.ranges[n], m))
  <2> SUFFICES ASSUME NEW i \in 1..(n - 1)
               PROVE  ~(RangeCovers(head.ranges[i], m) /\ RangeCovers(head.ranges[n], m))
    OBVIOUS
  <2>1. i \in DOMAIN head.ranges /\ n \in DOMAIN head.ranges /\ i # Len(head.ranges)
    BY <1>2, <1>3
  <2>2. head.ranges[i].through < head.ranges[n].from
    BY <1>1, <1>3, <2>1, RangesBelow
  <2>3. head.ranges[i] \in RangeType /\ head.ranges[n] \in RangeType
    BY <1>1, <2>1, RangesBelow
  <2>4. head.ranges[i].through \in Nat /\ head.ranges[n].from \in Nat
    BY <2>3 DEF RangeType
  <2> QED
    BY <2>2, <2>4 DEF RangeCovers
<1>8. \A i \in 1..n : i = n \/ i \in 1..(n - 1)
  OBVIOUS
<1>9. n \in 1..n
  BY <1>3
<1> QED
  BY <1>3, <1>5, <1>6, <1>7, <1>8, <1>9

LEMMA CoveredStaysCovered ==
    ASSUME TypeOK, [Next]_vars, \A cmd \in inflight : ~ApproveReopen(cmd), NEW m, Covered(m)
    PROVE  Covered(m)'
<1>1. CASE \A cmd \in inflight : ~Approve(cmd)
  BY <1>1, HeadOnlyMovesBy DEF Covered
<1>2. ASSUME NEW cmd \in inflight, Approve(cmd) PROVE Covered(m)'
  <2>1. /\ NewRange(cmd.cycle) \in RangeType
        /\ head'.ranges = Append(head.ranges, NewRange(cmd.cycle))
        /\ head.ranges \in Seq(RangeType)
    BY <1>2, ApprovePushes DEF Pushes, TypeOK, HeadType
  <2>2. \A i \in DOMAIN head.ranges :
           i \in DOMAIN head'.ranges /\ head'.ranges[i] = head.ranges[i]
    BY <2>1
  <2> QED
    BY <2>2 DEF Covered, RangeCovers
<1> QED
  BY <1>1, <1>2

\* The commands on weeks open one only in a month the head does not lock.
LEMMA WeekOpensUnlocked ==
    ASSUME NEW a \in Members, NEW t \in TrackedMonths, WeekStep(a, t),
           NEW m \in TrackedMonths, weeks[m] # "OPEN", weeks'[m] = "OPEN", TypeOK
    PROVE  head' = head /\ ~IsLocked(m)
<1>1. weeks \in [TrackedMonths -> {"OPEN", "SUBMITTED", "LOCKED"}]
  BY DEF TypeOK
<1>2. CASE CompleteWeek(t) \/ ConfirmWeek(a, t) \/ ApproveWeek(a, t)
  <2>1. weeks' = [weeks EXCEPT ![t] = "SUBMITTED"] \/ weeks' = [weeks EXCEPT ![t] = "LOCKED"]
    BY <1>2 DEF CompleteWeek, ConfirmWeek, ApproveWeek, SetWeek
  <2> QED
    BY <1>1, <2>1
<1>3. CASE ReopenWeek(a, t)
  <2>1. MonthWritable(t) /\ head' = head /\ weeks' = [weeks EXCEPT ![t] = "OPEN"]
    BY <1>3 DEF ReopenWeek, SetWeek
  <2>2. t = m
    BY <1>1, <2>1
  <2> QED
    BY <2>1, <2>2 DEF MonthWritable, IsLocked
<1> QED
  BY <1>2, <1>3 DEF WeekStep

LEMMA WeeksKept ==
    ASSUME TypeOK, [Next]_vars, \A cmd \in inflight : ~ApproveReopen(cmd),
           NEW m \in TrackedMonths, weeks[m] # "OPEN", weeks'[m] = "OPEN"
    PROVE  head' = head /\ ~IsLocked(m)
<1>1. ASSUME NEW a \in Members, NEW c \in Cycles, Prepare(a, c) PROVE weeks' = weeks
  BY <1>1 DEF Prepare, PrepareSubmit, PrepareTransition, PrepareCancel,
              PrepareApprove, PrepareReopenRequest, PrepareReopenDecision, docs
<1>2. ASSUME NEW cmd \in inflight, StageSubmit(cmd) \/ Lose(cmd) PROVE weeks' = weeks
  BY <1>2 DEF StageSubmit, Lose, docs
<1>3. ASSUME NEW cmd \in inflight, Execute(cmd) PROVE weeks' = weeks
  BY <1>3 DEF Execute, Submit, Transition, Cancel, Approve, RequestReopen, RejectReopen
<1>4. ASSUME NEW source \in Sources, EditSheet(source) PROVE weeks' = weeks
  BY <1>4 DEF EditSheet
<1>5. ASSUME NEW a \in Members, ChangeApprover(a) \/ ApproveProjectChange(a)
      PROVE  weeks' = weeks
  BY <1>5 DEF ChangeApprover, ApproveProjectChange
<1>6. ASSUME NEW c \in Cycles, AmendMonth(c) PROVE weeks' = weeks
  BY <1>6 DEF AmendMonth
<1>7. ASSUME NEW a \in Members, NEW t \in TrackedMonths, WeekStep(a, t)
      PROVE  head' = head /\ ~IsLocked(m)
  BY <1>7, WeekOpensUnlocked
<1>8. CASE UNCHANGED vars
  BY <1>8 DEF vars
<1> QED
  BY <1>1, <1>2, <1>3, <1>4, <1>5, <1>6, <1>7, <1>8 DEF Next

\* A reopening opens the settled weeks it uncovers, all of them and no other.
LEMMA ReopenOpensWeeks ==
    ASSUME TypeOK, HeadSound, VersionsRestore, NEW cmd \in inflight, ApproveReopen(cmd),
           NEW m \in TrackedMonths, weeks[m] # "OPEN"
    PROVE  weeks'[m] = "OPEN" <=> Covered(m) /\ ~Covered(m)'
<1>1. PICK v \in versions :
         /\ head.exists /\ v.headRevision = head.revision /\ v.through = head.closedThrough
         /\ v.from = AffectedFrom(v.prior, head.closedThrough)
         /\ weeks' = [i \in TrackedMonths |-> IF RangeCovers(v, i) THEN "OPEN" ELSE weeks[i]]
  BY ReopenPops
<1>2. weeks'[m] = "OPEN" <=> RangeCovers(v, m)
  BY <1>1
<1> QED
  BY <1>1, <1>2, VersionCoversLastRange, ReopenUncovers, MonthsAssumption

LEMMA WeeksStep ==
    ASSUME TypeOK, HeadSound, VersionsRestore, [Next]_vars,
           NEW m \in TrackedMonths, weeks[m] # "OPEN"
    PROVE  LET givenUp == Covered(m) /\ ~Covered(m)'
           IN  /\ givenUp => weeks'[m] = "OPEN"
               /\ weeks'[m] = "OPEN" => givenUp \/ (head' = head /\ ~IsLocked(m))
<1>1. CASE \A cmd \in inflight : ~ApproveReopen(cmd)
  BY <1>1, WeeksKept, CoveredStaysCovered
<1>2. CASE \E cmd \in inflight : ApproveReopen(cmd)
  BY <1>2, ReopenOpensWeeks
<1> QED
  BY <1>1, <1>2

\* The settled weeks of a range open with it, and one that opens by itself is of a
\* month that is not locked, in every calendar and after any history of ranges.
THEOREM WeeksAlwaysOpenWithTheRange == Spec => WeeksOpenWithTheRange
<1> DEFINE I == TypeOK /\ HeadSound /\ VersionsRestore
           Step == \A m \in TrackedMonths : weeks[m] # "OPEN" =>
                      LET givenUp == Covered(m) /\ ~Covered(m)'
                      IN  /\ givenUp => weeks'[m] = "OPEN"
                          /\ weeks'[m] = "OPEN" => givenUp \/ (head' = head /\ ~IsLocked(m))
<1>1. Init => I
  BY TypeInit, HeadInit
<1>2. I /\ [Next]_vars => I'
  BY TypeStep, HeadSoundStep, VersionsRestoreStep
<1>3. I /\ [Next]_vars => [Step]_vars
  BY WeeksStep
<1> QED
  BY <1>1, <1>2, <1>3, PTL DEF Spec, WeeksOpenWithTheRange
=============================================================================
