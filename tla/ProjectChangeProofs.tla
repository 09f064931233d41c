-------------------------- MODULE ProjectChangeProofs --------------------------
(* What ProjectChangeProperties states of the way from a draft to the project, *)
(* for every number of people, fields, values, files and versions.             *)
EXTENDS ProjectChangeProperties, SequenceTheorems, TLAPS

Requests ==
  [status : {"NONE", "PENDING", "APPROVED", "REJECTED", "WITHDRAWN"},
   by : Users \cup {None}, number : 0..MaxRequests, base : 0..MaxVersion,
   before : Contents, proposed : Contents, seen : Seen, unasked : SUBSET Fields]
Drafts == [status : {"NONE", "ACTIVE", "SUBMITTED"}, snapshot : Contents, saves : Seq(Saves)]
Projects == [version : 1..MaxVersion, fields : Contents]
Reviews == [at : {"NO", "LOOKED", "INSPECTED"}, token : Tokens, proposed : Contents]
StoredFiles == [Files -> [state : {"FREE", "KEPT", "GONE"}, by : Users \cup {None}]]
Uploads == [Users -> [file : Files \cup {None}, saves : Nat, fenced : BOOLEAN]]

\* The types, save by save.
Active(u) == draft[u].status = "ACTIVE"
DraftsTyped ==
  /\ draft \in [Users -> Drafts]
  /\ \A u \in Users : Len(draft[u].saves) <= MaxSaves[u]
  /\ \A u \in Users : Active(u) => draft[u].saves # <<>>
Typed ==
  /\ project \in Projects /\ request \in Requests /\ DraftsTyped
  /\ lease \in Users \cup {None}
  /\ files \in StoredFiles /\ uploads \in Uploads
  /\ cleanups \in SUBSET (Files \X Users)
  /\ review \in Reviews
  /\ recalled \in SUBSET Files /\ scenario \in Scenarios

-----------------------------------------------------------------------------
(* The data *)

\* What the contents of a project hold, field by field.
LEMMA ContentsFields ==
  ASSUME NEW c \in Contents
  PROVE  /\ \A x \in Form : c[x] \in Values
         /\ c[Document] \in Files \cup {None}
         /\ \A x \in Fields : c[x] \in Values \cup Files \cup {None}
         /\ c = [x \in Fields |-> c[x]]
BY DEF Contents, Fields

\* What is contents: every ordinary field has a value, the document is a file or none.
LEMMA ContentsOf ==
  ASSUME NEW c, c = [x \in Fields |-> c[x]],
         \A x \in Form : c[x] \in Values, c[Document] \in Files \cup {None}
  PROVE  c \in Contents
<1>1. \A x \in Fields : c[x] \in Values \cup Files \cup {None}
  BY DEF Fields
<1>2. c \in [Fields -> Values \cup Files \cup {None}]
  BY <1>1
<1> QED BY <1>2 DEF Contents

\* One field of contents may be written.
LEMMA ContentsWritten ==
  ASSUME NEW c \in Contents, NEW x \in Fields, NEW v,
         IF x = Document THEN v \in Files \cup {None} ELSE v \in Values
  PROVE  [c EXCEPT ![x] = v] \in Contents
<1> DEFINE d == [c EXCEPT ![x] = v]
<1>1. d = [y \in Fields |-> d[y]]
  BY ContentsFields
<1>2. \A y \in Form : d[y] \in Values
  BY ContentsFields, ProjectAssumption DEF Fields
<1>3. d[Document] \in Files \cup {None}
  BY ContentsFields DEF Fields
<1>4. d \in Contents
  <2> HIDE DEF d
  <2> QED BY <1>1, <1>2, <1>3, ContentsOf
<1> QED BY <1>4

LEMMA InitialTyped == Initial \in Contents
<1>1. Initial = [x \in Fields |-> Initial[x]]
  BY DEF Initial
<1>2. \A x \in Form : Initial[x] \in Values
  BY ProjectAssumption DEF Initial, Fields
<1>3. Initial[Document] = None
  BY DEF Initial, Fields
<1> QED BY <1>1, <1>2, <1>3, ContentsOf

LEMMA AttachmentsTyped ==
  /\ NoAttachment \in Attachments /\ NoAttachment.file = None
  /\ \A a \in Attachments : a # NoAttachment => a.file \in Files /\ a.inherited \in BOOLEAN
  /\ \A file \in Files, inherited \in BOOLEAN :
       LET a == [file |-> file, inherited |-> inherited]
       IN  a \in Attachments /\ a # NoAttachment
BY ProjectAssumption DEF Attachments, NoAttachment

\* What a draft proposes, and what is left of it without its attachment, is contents.
LEMMA ProposalTyped ==
  ASSUME NEW save \in Saves
  PROVE  Proposal(save) \in Contents /\ Detached(save) \in Contents
<1>1. save.payload \in Contents /\ save.attachment \in Attachments
  BY DEF Saves
<1>2. Document \in Fields
  BY DEF Fields
<1>3. save.attachment # NoAttachment => [save.payload EXCEPT ![Document] = save.attachment.file] \in Contents
  BY <1>1, <1>2, ContentsWritten, AttachmentsTyped
<1>4. Detached(save) \in Contents
  <2> DEFINE v == IF save.payload[Document] = save.attachment.file THEN None ELSE save.payload[Document]
  <2>1. v \in Files \cup {None}
    BY <1>1, ContentsFields
  <2>2. [save.payload EXCEPT ![Document] = v] \in Contents
    <3> HIDE DEF v
    <3> QED BY <2>1, <1>1, <1>2, ContentsWritten
  <2> QED BY <2>2 DEF Detached
<1> QED BY <1>1, <1>3, <1>4 DEF Proposal

LEMMA MergedTyped ==
  ASSUME NEW mine \in Contents, NEW base \in Contents, NEW theirs \in Contents, NEW choice
  PROVE  Merged(mine, base, theirs, choice) \in Contents
<1> DEFINE m == Merged(mine, base, theirs, choice)
<1>1. m = [x \in Fields |-> m[x]]
  BY DEF Merged
<1>2. \A x \in Fields : m[x] \in {mine[x], theirs[x]}
  BY DEF Merged
<1>3. \A x \in Form : m[x] \in Values
  BY <1>2, ContentsFields DEF Fields
<1>4. m[Document] \in Files \cup {None}
  BY <1>2, ContentsFields DEF Fields
<1> HIDE DEF m
<1>5. m \in Contents
  BY <1>1, <1>3, <1>4, ContentsOf
<1> QED BY <1>5 DEF m

\* What a draft starts from is contents, with the values it was chosen against.
LEMMA SeedTyped ==
  ASSUME Typed
  PROVE  /\ Seed \in Contents /\ InheritedAttachment \in Attachments
         /\ SeedSeen \in Seen /\ SeedUnasked \in SUBSET Fields
         /\ project.version \in 1..MaxVersion
<1>1. project \in Projects /\ request \in Requests
  BY DEF Typed
<1>2. Seed \in Contents
  BY <1>1 DEF Projects, Requests, Seed
<1>3. InheritedAttachment \in Attachments
  <2>1. request.proposed[Document] \in Files \cup {None}
    BY <1>1, ContentsFields DEF Requests
  <2> QED BY <2>1, AttachmentsTyped DEF InheritedAttachment
<1>4. SeedSeen \in Seen
  <2>1. \A x \in Fields : Seed[x] \in Values \cup Files \cup {None}
    BY <1>2, ContentsFields
  <2>2. \A x \in Fields : request.seen[x] \in SUBSET (Values \cup Files \cup {None})
    BY <1>1 DEF Requests, Seen
  <2>3. \A x \in Fields : SeedSeen[x] \in SUBSET (Values \cup Files \cup {None})
    BY <2>1, <2>2 DEF SeedSeen
  <2> QED BY <2>3 DEF SeedSeen, Seen
<1>5. SeedUnasked \in SUBSET Fields
  BY <1>1 DEF Requests, SeedUnasked, TakenOver
<1> QED BY <1>1, <1>2, <1>3, <1>4, <1>5 DEF Projects

-----------------------------------------------------------------------------
(* How a step moves a draft: it saves something, and the rest of it follows. *)
Turned(u, status, snapshot, save) ==
  /\ draft' \in [Users -> Drafts]
  /\ draft'[u].status = status /\ draft'[u].snapshot = snapshot
  /\ draft'[u].saves # <<>> /\ Len(draft'[u].saves) <= MaxSaves[u]
  /\ Now(u)' = save
  /\ \A v \in Users \ {u} : draft'[v] = draft[v]

\* What is appended to the saves of a draft is what it holds now.
LEMMA Appended ==
  ASSUME NEW s \in Seq(Saves), NEW e \in Saves
  PROVE  /\ Append(s, e) \in Seq(Saves) /\ Append(s, e) # <<>>
         /\ Len(Append(s, e)) = Len(s) + 1 /\ Last(Append(s, e)) = e
BY DEF Last

LEMMA DraftTurned ==
  ASSUME Typed, NEW u \in Users, NEW save \in Saves, NEW snapshot \in Contents,
         NEW status \in {"NONE", "ACTIVE", "SUBMITTED"}, Len(draft[u].saves) < MaxSaves[u],
         draft' = [draft EXCEPT ![u] = [status |-> status, snapshot |-> snapshot,
                                        saves |-> Append(draft[u].saves, save)]]
  PROVE  Turned(u, status, snapshot, save)
<1>1. draft \in [Users -> Drafts] /\ draft[u].saves \in Seq(Saves) /\ MaxSaves[u] \in Nat
  BY ProjectAssumption DEF Typed, DraftsTyped, Drafts
<1> DEFINE saves == Append(draft[u].saves, save)
<1>2. saves \in Seq(Saves) /\ saves # <<>> /\ Last(saves) = save /\ Len(saves) = Len(draft[u].saves) + 1
  BY <1>1, Appended
<1>3. Len(draft[u].saves) \in Nat
  BY <1>1, LenProperties
<1> HIDE DEF saves
<1>4. draft' = [draft EXCEPT ![u] = [status |-> status, snapshot |-> snapshot, saves |-> saves]]
  BY DEF saves
<1>5. draft'[u] = [status |-> status, snapshot |-> snapshot, saves |-> saves]
  BY <1>1, <1>4
<1>6. [status |-> status, snapshot |-> snapshot, saves |-> saves] \in Drafts
  BY <1>2 DEF Drafts
<1>7. draft' \in [Users -> Drafts]
  BY <1>1, <1>4, <1>6
<1>8. Len(draft'[u].saves) <= MaxSaves[u]
  BY <1>1, <1>2, <1>3, <1>5
<1>9. \A v \in Users \ {u} : draft'[v] = draft[v]
  BY <1>1, <1>4
<1> QED BY <1>2, <1>5, <1>7, <1>8, <1>9 DEF Turned, Now

LEMMA DraftExtended ==
  ASSUME NEW d \in Drafts, NEW s
  PROVE  [d EXCEPT !.saves = s] = [status |-> d.status, snapshot |-> d.snapshot, saves |-> s]
<1>1. d = [status |-> d.status, snapshot |-> d.snapshot, saves |-> d.saves]
  BY DEF Drafts
<1> QED BY <1>1

\* A save of an active draft leaves its status and its snapshot alone.
LEMMA SaveTurns ==
  ASSUME Typed, NEW u \in Users, NEW save \in Saves, Active(u), Save(u, save)
  PROVE  Turned(u, "ACTIVE", draft[u].snapshot, save)
<1>1. draft \in [Users -> Drafts] /\ draft[u] \in Drafts
  BY DEF Typed, DraftsTyped
<1>2. draft' = [draft EXCEPT ![u] = [status |-> "ACTIVE", snapshot |-> draft[u].snapshot,
                                    saves |-> Append(draft[u].saves, save)]]
  <2> DEFINE d == [draft[u] EXCEPT !.saves = Append(draft[u].saves, save)]
  <2>1. draft' = [draft EXCEPT ![u] = d]
    BY <1>1 DEF Save
  <2>2. d = [status |-> "ACTIVE", snapshot |-> draft[u].snapshot, saves |-> Append(draft[u].saves, save)]
    BY <1>1, DraftExtended DEF Active
  <2> QED BY <2>1, <2>2
<1>3. draft[u].snapshot \in Contents /\ Len(draft[u].saves) < MaxSaves[u]
  BY <1>1 DEF Drafts, Save
<1> QED BY <1>2, <1>3, DraftTurned

\* What a draft holds now has the type of a save.
LEMMA NowTyped ==
  ASSUME Typed, NEW u \in Users, draft[u].saves # <<>>
  PROVE  /\ Now(u) \in Saves /\ draft[u].snapshot \in Contents
         /\ \A i \in DOMAIN draft[u].saves : draft[u].saves[i] \in Saves
         /\ Proposal(Now(u)) \in Contents /\ Detached(Now(u)) \in Contents
<1>1. draft[u].saves \in Seq(Saves) /\ draft[u].snapshot \in Contents
  BY DEF Typed, DraftsTyped, Drafts
<1>2. \A i \in DOMAIN draft[u].saves : draft[u].saves[i] \in Saves
  BY <1>1
<1>3. Now(u) \in Saves
  BY <1>1 DEF Now, Last
<1> QED BY <1>1, <1>2, <1>3, ProposalTyped

\* The fields of a save may be written one by one.
LEMMA SavesWritten ==
  ASSUME NEW save \in Saves
  PROVE  /\ save = [payload |-> save.payload, attachment |-> save.attachment, base |-> save.base,
                    seen |-> save.seen, unasked |-> save.unasked]
         /\ save.payload \in Contents /\ save.attachment \in Attachments
         /\ save.base \in 1..MaxVersion /\ save.seen \in Seen /\ save.unasked \in SUBSET Fields
BY DEF Saves

With(save, payload, attachment) ==
  [save EXCEPT !.payload = payload, !.attachment = attachment]
WithUnasked(save, payload, attachment, unasked) ==
  [save EXCEPT !.payload = payload, !.attachment = attachment, !.unasked = unasked]
LEMMA SavesExcept ==
  ASSUME NEW save \in Saves, NEW payload, NEW attachment, NEW unasked
  PROVE  /\ With(save, payload, attachment)
               = [payload |-> payload, attachment |-> attachment, base |-> save.base,
                  seen |-> save.seen, unasked |-> save.unasked]
         /\ WithUnasked(save, payload, attachment, unasked)
               = [payload |-> payload, attachment |-> attachment, base |-> save.base,
                  seen |-> save.seen, unasked |-> unasked]
<1> DEFINE one == [save EXCEPT !.payload = payload]
           two == [one EXCEPT !.attachment = attachment]
           three == [two EXCEPT !.unasked = unasked]
<1>1. one = [payload |-> payload, attachment |-> save.attachment, base |-> save.base,
             seen |-> save.seen, unasked |-> save.unasked]
  BY SavesWritten
<1>2. two = [payload |-> payload, attachment |-> attachment, base |-> save.base,
             seen |-> save.seen, unasked |-> save.unasked]
  <2> HIDE DEF one
  <2> QED BY <1>1
<1>3. three = [payload |-> payload, attachment |-> attachment, base |-> save.base,
               seen |-> save.seen, unasked |-> unasked]
  <2> HIDE DEF two
  <2> QED BY <1>2
<1> QED BY <1>2, <1>3 DEF With, WithUnasked

-----------------------------------------------------------------------------
(* What each step makes of the draft: its status, snapshot and last save *)
LEMMA OpenTurns ==
  ASSUME Typed, NEW u \in Users, Open(u)
  PROVE  \E save \in Saves :
           /\ Turned(u, "ACTIVE", Seed, save)
           /\ save.attachment = InheritedAttachment /\ save.base = project.version
           /\ save.seen = SeedSeen /\ save.unasked = SeedUnasked
<1> DEFINE save == [payload |-> Seed, attachment |-> InheritedAttachment,
                    base |-> project.version, seen |-> SeedSeen, unasked |-> SeedUnasked]
           new == [status |-> "ACTIVE", snapshot |-> Seed, saves |-> <<save>>]
<1>1. save \in Saves
  BY SeedTyped DEF Saves
<1>2. /\ save.attachment = InheritedAttachment /\ save.base = project.version
      /\ save.seen = SeedSeen /\ save.unasked = SeedUnasked
  OBVIOUS
<1>3. draft' = [draft EXCEPT ![u] = new]
  BY DEF Open
<1>4. draft \in [Users -> Drafts] /\ Seed \in Contents /\ MaxSaves[u] \in Nat \ {0}
  BY SeedTyped, ProjectAssumption DEF Typed, DraftsTyped
<1> HIDE DEF save
<1>5. /\ <<save>> \in Seq(Saves) /\ <<save>> # <<>> /\ Len(<<save>>) = 1 /\ Last(<<save>>) = save
  BY <1>1 DEF Last
<1>6. new \in Drafts
  BY <1>4, <1>5 DEF Drafts
<1>7. new.status = "ACTIVE" /\ new.snapshot = Seed /\ new.saves = <<save>>
  OBVIOUS
<1> HIDE DEF new
<1>8. draft' \in [Users -> Drafts] /\ draft'[u] = new /\ \A v \in Users \ {u} : draft'[v] = draft[v]
  BY <1>3, <1>4, <1>6
<1>9. Now(u)' = save
  BY <1>5, <1>7, <1>8 DEF Now
<1>10. Len(draft'[u].saves) <= MaxSaves[u]
  <2>1. draft'[u].saves = <<save>>
    BY <1>7, <1>8
  <2>2. 1 <= MaxSaves[u]
    BY <1>4
  <2> QED BY <2>1, <2>2, <1>5
<1>11. Turned(u, "ACTIVE", Seed, save)
  BY <1>5, <1>7, <1>8, <1>9, <1>10 DEF Turned
<1> QED BY <1>1, <1>2, <1>11

\* Steps that write the content of a draft and leave what it knows alone.
LEMMA UpdateTurns ==
  ASSUME Typed, NEW u \in Users, NEW x \in Form, NEW v \in Values, Update(u, x, v)
  PROVE  \E save \in Saves :
           /\ Turned(u, "ACTIVE", draft[u].snapshot, save)
           /\ save.attachment = Now(u).attachment
           /\ save.base = Now(u).base /\ save.seen = Now(u).seen /\ save.unasked = Now(u).unasked
<1>1. Active(u) /\ Now(u) \in Saves
  BY NowTyped DEF Update, Editing, Active, Typed, DraftsTyped
<1>2. PICK now \in Saves : now = Now(u)
  BY <1>1
<1> DEFINE save == [now EXCEPT !.payload[x] = v]
<1>3. [now.payload EXCEPT ![x] = v] \in Contents
  BY SavesWritten, ContentsWritten, ProjectAssumption DEF Fields
<1>4. save = [payload |-> [now.payload EXCEPT ![x] = v], attachment |-> now.attachment,
              base |-> now.base, seen |-> now.seen, unasked |-> now.unasked]
  BY SavesWritten
<1>5. save \in Saves
  BY <1>3, <1>4, SavesWritten DEF Saves
<1>6. /\ save.attachment = now.attachment /\ save.base = now.base
      /\ save.seen = now.seen /\ save.unasked = now.unasked
  BY <1>4
<1>7. Save(u, save)
  BY <1>2 DEF Update
<1> HIDE DEF save
<1>8. Turned(u, "ACTIVE", draft[u].snapshot, save)
  BY <1>1, <1>5, <1>7, SaveTurns
<1> QED BY <1>2, <1>5, <1>6, <1>8

\* The attachment of a draft is replaced, or removed.
LEMMA DetachTurns ==
  ASSUME Typed, NEW u \in Users, Active(u), NEW attachment \in Attachments,
         Save(u, [Now(u) EXCEPT !.payload = Detached(Now(u)), !.attachment = attachment])
  PROVE  \E save \in Saves :
           /\ Turned(u, "ACTIVE", draft[u].snapshot, save)
           /\ save.attachment = attachment
           /\ save.base = Now(u).base /\ save.seen = Now(u).seen /\ save.unasked = Now(u).unasked
<1>1. Now(u) \in Saves /\ Detached(Now(u)) \in Contents
  BY NowTyped DEF Active, Typed, DraftsTyped
<1>2. PICK now \in Saves : now = Now(u)
  BY <1>1
<1>3. PICK payload \in Contents : payload = Detached(Now(u))
  BY <1>1
<1> DEFINE save == With(now, payload, attachment)
<1>4. save = [payload |-> payload, attachment |-> attachment,
              base |-> now.base, seen |-> now.seen, unasked |-> now.unasked]
  BY SavesExcept
<1>5. save \in Saves
  BY <1>4, SavesWritten DEF Saves
<1>6. /\ save.attachment = attachment /\ save.base = now.base
      /\ save.seen = now.seen /\ save.unasked = now.unasked
  BY <1>4
<1>7. Save(u, save)
  BY <1>2, <1>3 DEF With
<1> HIDE DEF save
<1>8. Turned(u, "ACTIVE", draft[u].snapshot, save)
  BY <1>1, <1>5, <1>7, SaveTurns
<1> QED BY <1>2, <1>5, <1>6, <1>8

\* A return in history: what the draft knows stays, or nothing of it counts any more.
LEMMA RestoreTurns ==
  ASSUME Typed, NEW u \in Users, NEW i, RestoreHistory(u, i)
  PROVE  \E save \in Saves :
           /\ Turned(u, "ACTIVE", draft[u].snapshot, save)
           /\ save.attachment.file \in {None} \cup recalled'
           /\ save.base = Now(u).base /\ save.seen = Now(u).seen
           /\ Now(u).unasked \subseteq save.unasked
<1>1. Active(u) /\ Now(u) \in Saves /\ draft[u].saves[i] \in Saves
  BY NowTyped DEF RestoreHistory, Editing, Active, Typed, DraftsTyped
<1>2. PICK now \in Saves : now = Now(u)
  BY <1>1
<1>3. PICK old \in Saves : old = draft[u].saves[i]
  BY <1>1
<1> DEFINE unasked == now.unasked \cup IF old.base = now.base THEN {} ELSE Fields
           save == WithUnasked(now, old.payload, old.attachment, unasked)
<1>4. unasked \in SUBSET Fields /\ now.unasked \subseteq unasked
  BY SavesWritten
<1>5. Save(u, save) /\ recalled' = recalled \cup FilesOf(old)
  BY <1>2, <1>3 DEF RestoreHistory, WithUnasked
<1> HIDE DEF unasked
<1>6. save = [payload |-> old.payload, attachment |-> old.attachment,
              base |-> now.base, seen |-> now.seen, unasked |-> unasked]
  BY SavesExcept
<1>7. save \in Saves
  BY <1>6, <1>4, SavesWritten DEF Saves
<1>8. /\ save.attachment = old.attachment /\ save.base = now.base
      /\ save.seen = now.seen /\ save.unasked = unasked
  BY <1>6
<1>9. save.attachment.file \in {None} \cup recalled'
  BY <1>5, <1>8 DEF FilesOf
<1> HIDE DEF save
<1>10. Turned(u, "ACTIVE", draft[u].snapshot, save)
  BY <1>1, <1>5, <1>7, SaveTurns
<1> QED BY <1>2, <1>4, <1>7, <1>8, <1>9, <1>10

\* A request that was taken back is the content of the draft.
LEMMA WithdrawTurns ==
  ASSUME Typed, NEW u \in Users, Withdraw(u)
  PROVE  \E save \in Saves :
           /\ Turned(u, "ACTIVE", project.fields, save)
           /\ save.attachment = InheritedAttachment /\ save.base = project.version
           /\ save.seen = request.seen /\ save.unasked = SeedUnasked
<1> DEFINE save == [payload |-> request.proposed, attachment |-> InheritedAttachment,
                    base |-> project.version, seen |-> request.seen, unasked |-> SeedUnasked]
<1>1. /\ request.proposed \in Contents /\ request.seen \in Seen /\ project.fields \in Contents
  BY DEF Typed, Requests, Projects
<1>2. save \in Saves
  BY <1>1, SeedTyped DEF Saves
<1>3. /\ save.attachment = InheritedAttachment /\ save.base = project.version
      /\ save.seen = request.seen /\ save.unasked = SeedUnasked
  OBVIOUS
<1>4. /\ Len(draft[u].saves) < MaxSaves[u]
      /\ draft' = [draft EXCEPT ![u] = [status |-> "ACTIVE", snapshot |-> project.fields,
                                       saves |-> Append(draft[u].saves, save)]]
  BY DEF Withdraw
<1> HIDE DEF save
<1>5. Turned(u, "ACTIVE", project.fields, save)
  BY <1>1, <1>2, <1>4, DraftTurned
<1> QED BY <1>2, <1>3, <1>5

LEMMA SubmitTurns ==
  ASSUME Typed, NEW u \in Users, Submit(u)
  PROVE  /\ Active(u) /\ Now(u) \in Saves
         /\ Turned(u, "SUBMITTED", Initial, Now(u))
<1>1. Active(u) /\ Now(u) \in Saves
  BY NowTyped DEF Submit, Editing, Active, Typed, DraftsTyped
<1>2. PICK now \in Saves : now = Now(u)
  BY <1>1
<1>3. Turned(u, "SUBMITTED", Initial, now)
  BY <1>2, InitialTyped, DraftTurned DEF Submit
<1> QED BY <1>1, <1>2, <1>3

-----------------------------------------------------------------------------
(* The merge *)

\* Where the merge does not take theirs, its owner chose, or theirs is what the draft
\* started from.
LEMMA MergedFields ==
  ASSUME NEW mine, NEW base, NEW theirs, NEW choice, NEW x \in Fields
  PROVE  \/ Merged(mine, base, theirs, choice)[x] = theirs[x]
         \/ x \in Conflicts(mine, base, theirs) /\ choice[x] # "THEIRS"
         \/ theirs[x] = base[x]
BY DEF Merged, Conflicts

\* A draft and its attachment: other fields are proposed as they are.
LEMMA ProposedFields ==
  ASSUME NEW payload \in Contents, NEW attachment, NEW save, save.payload = payload,
         save.attachment = attachment, NEW x \in Fields,
         x # Document \/ attachment = NoAttachment
  PROVE  Proposal(save)[x] = payload[x]
BY ContentsFields DEF Proposal

\* The merge of Rebase, once its owner has chosen.
RebasesTo(u, now, base, theirs, choice) ==
  LET next == [now EXCEPT !.payload = Merged(now.payload, base, theirs, choice),
                          !.base = project.version]
      decided == {x \in Fields : \/ Proposal(next)[x] = theirs[x]
                                 \/ x \in Conflicts(now.payload, base, theirs) /\ choice[x] = "MINE"}
      kept == {x \in {Document} : next.attachment # NoAttachment /\ theirs[x] # base[x]}
      hidden == {x \in Fields : ~VersionCurrent(now.base) /\ theirs[x] # project.fields[x]}
  IN /\ Len(draft[u].saves) < MaxSaves[u]
     /\ draft' = [draft EXCEPT ![u].snapshot = theirs, ![u].saves = Append(draft[u].saves,
          [next EXCEPT
             !.seen = [x \in Fields |-> IF x \in decided THEN SeedSeen[x] ELSE now.seen[x]],
             !.unasked = SeedUnasked \cup ((now.unasked \cup kept \cup hidden) \ decided)])]

\* After a merge the draft knows of each field what it did before, or what one that
\* starts now would know. Where it keeps what it knew, nothing has changed underneath.
LEMMA RebaseTurns ==
  ASSUME Typed, NEW u \in Users, Rebase(u)
  PROVE  \E save \in Saves :
           /\ Turned(u, "ACTIVE", Seed, save)
           /\ save.attachment = Now(u).attachment /\ save.base = project.version
           /\ \A x \in Fields \ save.unasked :
                /\ x \notin SeedUnasked
                /\ \/ save.seen[x] = SeedSeen[x]
                   \/ /\ save.seen[x] = Now(u).seen[x] /\ x \notin Now(u).unasked
                      /\ Seed[x] = draft[u].snapshot[x]
                      /\ VersionCurrent(Now(u).base) \/ Seed[x] = project.fields[x]
<1>1. Active(u) /\ Now(u) \in Saves /\ draft[u].snapshot \in Contents
  BY NowTyped DEF Rebase, Editing, Active, Typed, DraftsTyped
<1>2. PICK now \in Saves : now = Now(u)
  BY <1>1
<1>3. PICK base \in Contents : base = draft[u].snapshot
  BY <1>1
<1>4. PICK theirs \in Contents : theirs = Seed
  BY SeedTyped
<1> DEFINE asked == Conflicts(now.payload, base, theirs)
<1>5. PICK choice \in [asked -> {"MINE", "THEIRS"}] :
        RebasesTo(u, now, base, theirs, choice)
  <2>1. \E choice \in [Conflicts(Now(u).payload, draft[u].snapshot, Seed) -> {"MINE", "THEIRS"}] :
          RebasesTo(u, Now(u), draft[u].snapshot, Seed, choice)
    BY DEF Rebase, RebasesTo
  <2> QED BY <2>1, <1>2, <1>3, <1>4
<1> DEFINE next == [now EXCEPT !.payload = Merged(now.payload, base, theirs, choice),
                               !.base = project.version]
           decided == {x \in Fields : \/ Proposal(next)[x] = theirs[x]
                                      \/ x \in asked /\ choice[x] = "MINE"}
           kept == {x \in {Document} : next.attachment # NoAttachment /\ theirs[x] # base[x]}
           hidden == {x \in Fields : ~VersionCurrent(now.base) /\ theirs[x] # project.fields[x]}
           seen == [x \in Fields |-> IF x \in decided THEN SeedSeen[x] ELSE now.seen[x]]
           unasked == SeedUnasked \cup ((now.unasked \cup kept \cup hidden) \ decided)
           save == [next EXCEPT !.seen = seen, !.unasked = unasked]
<1>6. /\ Len(draft[u].saves) < MaxSaves[u]
      /\ draft' = [draft EXCEPT ![u].snapshot = theirs, ![u].saves = Append(draft[u].saves, save)]
  BY <1>5 DEF RebasesTo
<1>7. PICK payload \in Contents : payload = Merged(now.payload, base, theirs, choice)
  BY MergedTyped, SavesWritten
<1>8. next = [payload |-> payload, attachment |-> now.attachment, base |-> project.version,
              seen |-> now.seen, unasked |-> now.unasked]
  <2> DEFINE one == [now EXCEPT !.payload = payload]
             two == [one EXCEPT !.base = project.version]
  <2>1. one = [payload |-> payload, attachment |-> now.attachment, base |-> now.base,
               seen |-> now.seen, unasked |-> now.unasked]
    BY SavesWritten
  <2>2. two = [payload |-> payload, attachment |-> now.attachment, base |-> project.version,
               seen |-> now.seen, unasked |-> now.unasked]
    <3> HIDE DEF one
    <3> QED BY <2>1
  <2> QED BY <2>2, <1>7
<1>9. next \in Saves /\ next.payload = payload /\ next.attachment = now.attachment
  BY <1>8, SavesWritten, SeedTyped DEF Saves
<1>10. \A x \in Fields \ decided :
         \/ theirs[x] = base[x]
         \/ x \in kept
  <2> SUFFICES ASSUME NEW x \in Fields, x \notin decided, x \notin kept
               PROVE  theirs[x] = base[x]
    OBVIOUS
  <2>1. CASE x = Document /\ now.attachment # NoAttachment
    BY <2>1, <1>9
  <2>2. CASE x # Document \/ now.attachment = NoAttachment
    <3>1. Proposal(next)[x] = payload[x]
      <4> HIDE DEF next
      <4> QED BY <2>2, <1>9, ProposedFields
    <3>2. payload[x] # theirs[x] /\ ~(x \in asked /\ choice[x] = "MINE")
      BY <3>1
    <3>3. x \in asked => choice[x] \in {"MINE", "THEIRS"}
      BY <1>5
    <3> QED BY <3>2, <3>3, <1>7, MergedFields
  <2> QED BY <2>1, <2>2
<1>11. \A x \in Fields \ decided :
         VersionCurrent(now.base) \/ theirs[x] = project.fields[x] \/ x \in hidden
  OBVIOUS
<1>12. decided \in SUBSET Fields /\ kept \in SUBSET Fields /\ hidden \in SUBSET Fields
  BY DEF Fields
<1> HIDE DEF asked, next, decided, kept, hidden
<1>13. seen \in Seen
  <2>1. \A x \in Fields : SeedSeen[x] \in SUBSET (Values \cup Files \cup {None})
                          /\ now.seen[x] \in SUBSET (Values \cup Files \cup {None})
    BY SeedTyped, SavesWritten DEF Seen
  <2> QED BY <2>1 DEF Seen
<1>14. unasked \in SUBSET Fields
  BY <1>12, SeedTyped, SavesWritten
<1>15. \A x \in Fields \ unasked :
         /\ x \notin SeedUnasked
         /\ \/ seen[x] = SeedSeen[x]
            \/ /\ seen[x] = now.seen[x] /\ x \notin now.unasked
               /\ theirs[x] = base[x]
               /\ VersionCurrent(now.base) \/ theirs[x] = project.fields[x]
  BY <1>10, <1>11
<1> HIDE DEF seen, unasked
<1>16. save = [payload |-> payload, attachment |-> now.attachment, base |-> project.version,
               seen |-> seen, unasked |-> unasked]
  <2> DEFINE one == [next EXCEPT !.seen = seen]
             two == [one EXCEPT !.unasked = unasked]
  <2>1. one = [payload |-> payload, attachment |-> now.attachment, base |-> project.version,
               seen |-> seen, unasked |-> now.unasked]
    BY <1>8
  <2>2. two = [payload |-> payload, attachment |-> now.attachment, base |-> project.version,
               seen |-> seen, unasked |-> unasked]
    <3> HIDE DEF one
    <3> QED BY <2>1
  <2> QED BY <2>2
<1> HIDE DEF save
<1>17. save \in Saves
  BY <1>13, <1>14, <1>16, SavesWritten, SeedTyped DEF Saves
<1>18. /\ save.attachment = now.attachment /\ save.base = project.version
       /\ save.seen = seen /\ save.unasked = unasked
  BY <1>16
<1>19. draft' = [draft EXCEPT ![u] = [status |-> "ACTIVE", snapshot |-> theirs,
                                     saves |-> Append(draft[u].saves, save)]]
  <2>1. draft[u] \in Drafts /\ draft \in [Users -> Drafts]
    BY DEF Typed, DraftsTyped
  <2>2. draft[u] = [status |-> "ACTIVE", snapshot |-> draft[u].snapshot, saves |-> draft[u].saves]
    BY <2>1, <1>1 DEF Drafts, Active
  <2> DEFINE saves == Append(draft[u].saves, save)
             one == [draft EXCEPT ![u].snapshot = theirs]
  <2>3. one[u] = [status |-> "ACTIVE", snapshot |-> theirs, saves |-> draft[u].saves]
    BY <2>1, <2>2
  <2>4. draft' = [one EXCEPT ![u].saves = saves]
    BY <1>6
  <2>5. draft' = [one EXCEPT ![u] = [status |-> "ACTIVE", snapshot |-> theirs, saves |-> saves]]
    <3>1. one \in [Users -> Drafts]
      BY <2>1, <2>3 DEF Drafts
    <3> HIDE DEF one, saves
    <3>2. [one[u] EXCEPT !.saves = saves] = [status |-> "ACTIVE", snapshot |-> theirs, saves |-> saves]
      BY <2>3
    <3>3. draft' = [one EXCEPT ![u] = [one[u] EXCEPT !.saves = saves]]
      BY <2>4, <3>1
    <3> QED BY <3>2, <3>3
  <2> QED BY <2>1, <2>5
<1>20. Turned(u, "ACTIVE", theirs, save)
  BY <1>6, <1>17, <1>19, DraftTurned
<1> QED BY <1>2, <1>3, <1>4, <1>15, <1>17, <1>18, <1>20

-----------------------------------------------------------------------------
(* Types *)

LEMMA TurnedTyped ==
  ASSUME Typed, NEW u \in Users, NEW status, NEW snapshot, NEW save,
         Turned(u, status, snapshot, save)
  PROVE  DraftsTyped'
<1>1. draft' \in [Users -> Drafts]
  BY DEF Turned
<1>2. \A v \in Users : Len(draft'[v].saves) <= MaxSaves[v]
  BY DEF Turned, Typed, DraftsTyped
<1>3. \A v \in Users : Active(v)' => draft'[v].saves # <<>>
  BY DEF Turned, Typed, DraftsTyped, Active
<1> QED BY <1>1, <1>2, <1>3 DEF DraftsTyped

LEMMA FencedTyped ==
  ASSUME Typed
  PROVE  /\ Fenced \in Uploads
         /\ \A u \in Users : Fenced[u].file = uploads[u].file
<1> SUFFICES ASSUME NEW u \in Users
             PROVE  /\ Fenced[u] \in [file : Files \cup {None}, saves : Nat, fenced : BOOLEAN]
                    /\ Fenced[u].file = uploads[u].file
  BY DEF Fenced, Uploads
<1>1. uploads[u] \in [file : Files \cup {None}, saves : Nat, fenced : BOOLEAN]
  BY DEF Typed, Uploads
<1>2. Fenced[u] = [uploads[u] EXCEPT !.fenced = (uploads[u] # NoUpload)]
  BY DEF Fenced
<1>3. (uploads[u] # NoUpload) \in BOOLEAN
  OBVIOUS
<1> QED BY <1>1, <1>2, <1>3

LEMMA NoUploadTyped == NoUpload \in [file : Files \cup {None}, saves : Nat, fenced : BOOLEAN]
BY DEF NoUpload

LEMMA ReviewsTyped ==
  /\ NoReview \in Reviews
  /\ \A token \in Tokens, proposed \in Contents :
       [at |-> "LOOKED", token |-> token, proposed |-> proposed] \in Reviews
<1>1. <<0, 0, "NONE">> \in Tokens
  BY ProjectAssumption DEF Tokens
<1> QED BY <1>1, InitialTyped DEF NoReview, Reviews

LEMMA DiscardedTyped ==
  ASSUME Typed, NEW u \in Users, Active(u)
  PROVE  Discarded(u) \in SUBSET (Files \X Users)
<1>1. Now(u) \in Saves
  BY NowTyped DEF Typed, DraftsTyped
<1>2. Now(u).attachment.file \in Files \cup {None}
  BY <1>1, SavesWritten, AttachmentsTyped
<1> QED BY <1>2 DEF Discarded

LEMMA AttachTurns ==
  ASSUME Typed, NEW u \in Users, Attach(u)
  PROVE  \E save \in Saves :
           /\ Turned(u, "ACTIVE", draft[u].snapshot, save)
           /\ save.attachment = [file |-> uploads[u].file, inherited |-> FALSE]
           /\ save.base = Now(u).base /\ save.seen = Now(u).seen /\ save.unasked = Now(u).unasked
<1>1. Active(u) /\ uploads[u].file \in Files \cup {None}
  BY DEF Attach, Editing, Active, Typed, Uploads
<1>2. [file |-> uploads[u].file, inherited |-> FALSE] \in Attachments
  BY <1>1, AttachmentsTyped DEF NoAttachment
<1>3. PICK attachment \in Attachments : attachment = [file |-> uploads[u].file, inherited |-> FALSE]
  BY <1>2
<1>4. Save(u, [Now(u) EXCEPT !.payload = Detached(Now(u)), !.attachment = attachment])
  BY <1>3 DEF Attach
<1> QED BY <1>1, <1>3, <1>4, DetachTurns

LEMMA RemoveTurns ==
  ASSUME Typed, NEW u \in Users, RemoveAttachment(u)
  PROVE  \E save \in Saves :
           /\ Turned(u, "ACTIVE", draft[u].snapshot, save)
           /\ save.attachment = NoAttachment
           /\ save.base = Now(u).base /\ save.seen = Now(u).seen /\ save.unasked = Now(u).unasked
<1>1. PICK attachment \in Attachments : attachment = NoAttachment
  BY AttachmentsTyped
<1>2. Save(u, [Now(u) EXCEPT !.payload = Detached(Now(u)), !.attachment = attachment])
  BY <1>1 DEF RemoveAttachment
<1>3. Active(u)
  BY DEF RemoveAttachment, Editing, Active
<1> QED BY <1>1, <1>2, <1>3, DetachTurns

\* The initial state.
LEMMA InitTyped ==
  ASSUME Init
  PROVE  Typed
<1>1. Initial \in Contents /\ 1 \in 1..MaxVersion /\ 0 \in 0..MaxRequests /\ 0 \in 0..MaxVersion
  BY InitialTyped, ProjectAssumption
<1>2. project \in Projects
  BY <1>1 DEF Init, Projects
<1>3. request \in Requests
  <2>1. [x \in Fields |-> {}] \in Seen /\ {} \in SUBSET Fields
    BY DEF Seen
  <2> QED BY <1>1, <2>1 DEF Init, NoRequest, Requests
<1>4. DraftsTyped
  <2>1. NoDraft \in Drafts /\ NoDraft.status = "NONE" /\ Len(NoDraft.saves) = 0
    BY <1>1 DEF NoDraft, Drafts
  <2>2. draft = [u \in Users |-> NoDraft]
    BY DEF Init
  <2>3. \A u \in Users : MaxSaves[u] \in Nat
    BY ProjectAssumption
  <2> HIDE DEF NoDraft
  <2> QED BY <2>1, <2>2, <2>3 DEF DraftsTyped, Active
<1>5. lease \in Users \cup {None} /\ files \in StoredFiles
  BY DEF Init, StoredFiles
<1>6. uploads \in Uploads
  BY NoUploadTyped DEF Init, Uploads
<1>7. review \in Reviews
  BY ReviewsTyped DEF Init
<1>8. cleanups = {} /\ recalled = {} /\ scenario \in Scenarios
  BY DEF Init
<1> QED BY <1>2, <1>3, <1>4, <1>5, <1>6, <1>7, <1>8 DEF Typed

\* The fields and files of a scenario are among the project's.
LEMMA ScenarioTyped ==
  ASSUME Typed
  PROVE  scenario.fields \subseteq Form /\ scenario.files \subseteq Files
BY ProjectAssumption DEF Typed

\* A step that moves no draft keeps the types of the drafts.
LEMMA DraftsStay ==
  ASSUME Typed, UNCHANGED draft
  PROVE  DraftsTyped'
BY DEF Typed, DraftsTyped, Active

\* The steps of one user.
LEMMA EditTyped ==
  ASSUME Typed, NEW u \in Users, Edit(u)
  PROVE  Typed'
<1> USE DEF Typed
<1>1. CASE Acquire(u)
  BY <1>1, DraftsStay DEF Acquire
<1>2. CASE Open(u)
  <2>1. DraftsTyped'
    BY <1>2, OpenTurns, TurnedTyped
  <2> QED BY <1>2, <2>1 DEF Open
<1>3. CASE Rebase(u)
  <2>1. DraftsTyped'
    BY <1>3, RebaseTurns, TurnedTyped
  <2> QED BY <1>3, <2>1 DEF Rebase
<1>4. CASE Submit(u)
  <2>1. DraftsTyped'
    BY <1>4, SubmitTurns, TurnedTyped
  <2>2. request' \in Requests
    <3>1. PICK now \in Saves : now = Now(u)
      BY <1>4, SubmitTurns
    <3>2. Proposal(now) \in Contents /\ now.seen \in Seen /\ now.unasked \in SUBSET Fields
      BY ProposalTyped, SavesWritten
    <3>3. request.number + 1 \in 0..MaxRequests
      BY <1>4, ProjectAssumption DEF Submit, Requests
    <3>4. project.version \in 0..MaxVersion /\ project.fields \in Contents
      BY ProjectAssumption DEF Projects
    <3>5. request' = [status |-> "PENDING", by |-> u, number |-> request.number + 1,
                      base |-> project.version, before |-> project.fields,
                      proposed |-> Proposal(now), seen |-> now.seen, unasked |-> now.unasked]
      BY <1>4, <3>1 DEF Submit
    <3> QED BY <3>2, <3>3, <3>4, <3>5 DEF Requests
  <2>3. uploads' \in Uploads /\ lease' = None
    BY <1>4, FencedTyped DEF Submit
  <2> QED BY <1>4, <2>1, <2>2, <2>3 DEF Submit
<1>5. CASE Withdraw(u)
  <2>1. DraftsTyped'
    BY <1>5, WithdrawTurns, TurnedTyped
  <2>2. request' \in Requests
    BY <1>5 DEF Withdraw, Requests
  <2> QED BY <1>5, <2>1, <2>2 DEF Withdraw
<1>6. CASE Attach(u)
  <2>1. DraftsTyped'
    BY <1>6, AttachTurns, TurnedTyped
  <2>2. cleanups' \in SUBSET (Files \X Users)
    BY <1>6, DiscardedTyped DEF Attach, Editing, Active
  <2>3. uploads' \in Uploads
    BY <1>6, NoUploadTyped DEF Attach, Uploads
  <2> QED BY <1>6, <2>1, <2>2, <2>3 DEF Attach
<1>7. CASE AttachFails(u)
  <2>1. files' \in StoredFiles
    BY <1>7 DEF AttachFails, StoredFiles
  <2>2. uploads' \in Uploads
    BY <1>7, NoUploadTyped DEF AttachFails, Uploads
  <2> QED BY <1>7, <2>1, <2>2, DraftsStay DEF AttachFails
<1>8. CASE RemoveAttachment(u)
  <2>1. DraftsTyped'
    BY <1>8, RemoveTurns, TurnedTyped
  <2>2. cleanups' \in SUBSET (Files \X Users)
    BY <1>8, DiscardedTyped DEF RemoveAttachment, Editing, Active
  <2> QED BY <1>8, <2>1, <2>2 DEF RemoveAttachment
<1>9. ASSUME NEW x \in scenario.fields, NEW v \in Values, Update(u, x, v)
      PROVE  Typed'
  <2>1. DraftsTyped'
    BY <1>9, ScenarioTyped, UpdateTurns, TurnedTyped
  <2> QED BY <1>9, <2>1 DEF Update
<1>10. ASSUME NEW i \in 1..MaxSaves[u], RestoreHistory(u, i)
       PROVE  Typed'
  <2>1. DraftsTyped'
    BY <1>10, RestoreTurns, TurnedTyped
  <2>2. FilesOf(draft[u].saves[i]) \subseteq Files
    <3>1. draft[u].saves[i] \in Saves
      BY <1>10, NowTyped DEF RestoreHistory, Editing, Active, DraftsTyped
    <3>2. PICK old \in Saves : old = draft[u].saves[i]
      BY <3>1
    <3>3. old.attachment.file \in Files \cup {None} /\ old.payload[Document] \in Files \cup {None}
      BY SavesWritten, AttachmentsTyped, ContentsFields
    <3> QED BY <3>2, <3>3 DEF FilesOf
  <2> QED BY <1>10, <2>1, <2>2 DEF RestoreHistory
<1>11. ASSUME NEW file \in scenario.files, Upload(u, file)
       PROVE  Typed'
  <2>1. file \in Files
    BY ScenarioTyped
  <2>2. files' \in StoredFiles
    BY <1>11, <2>1 DEF Upload, StoredFiles
  <2>3. uploads' \in Uploads
    <3>1. draft[u].saves \in Seq(Saves)
      BY DEF DraftsTyped, Drafts
    <3>2. Len(draft[u].saves) \in Nat
      BY <3>1, LenProperties
    <3> QED BY <1>11, <2>1, <3>2 DEF Upload, Uploads
  <2> QED BY <1>11, <2>2, <2>3, DraftsStay DEF Upload
<1>12. ASSUME NEW file \in scenario.files, CleanUp(file, u)
       PROVE  Typed'
  <2>1. files' \in StoredFiles
    BY <1>12 DEF CleanUp, StoredFiles
  <2> QED BY <1>12, <2>1, DraftsStay DEF CleanUp
<1> QED BY <1>1, <1>2, <1>3, <1>4, <1>5, <1>6, <1>7, <1>8, <1>9, <1>10, <1>11, <1>12 DEF Edit

\* The other steps.
LEMMA OthersTyped ==
  /\ Typed /\ EndLease => Typed'
  /\ Typed /\ Look => Typed'
  /\ Typed /\ InspectFiles => Typed'
  /\ Typed /\ Approve => Typed'
  /\ Typed /\ Reject => Typed'
<1>1. ASSUME Typed, EndLease PROVE Typed'
  BY <1>1, FencedTyped, DraftsStay DEF EndLease, Typed
<1>2. ASSUME Typed, Look PROVE Typed'
  <2>1. Token \in Tokens
    BY <1>2, ProjectAssumption DEF Look, Token, Tokens, Typed, Projects, Requests
  <2>2. review' \in Reviews
    BY <1>2, <2>1, ReviewsTyped DEF Look, Typed, Requests
  <2> QED BY <1>2, <2>2, DraftsStay DEF Look, Typed
<1>3. ASSUME Typed, InspectFiles PROVE Typed'
  <2>1. review' \in Reviews
    BY <1>3 DEF InspectFiles, Typed, Reviews
  <2> QED BY <1>3, <2>1, DraftsStay DEF InspectFiles, Typed
<1>4. ASSUME Typed, Approve PROVE Typed'
  <2>1. project' \in Projects
    BY <1>4, ProjectAssumption DEF Approve, Typed, Projects, Requests
  <2>2. request' \in Requests
    BY <1>4 DEF Approve, Typed, Requests
  <2> QED BY <1>4, <2>1, <2>2, ReviewsTyped, DraftsStay DEF Approve, Typed
<1>5. ASSUME Typed, Reject PROVE Typed'
  <2>1. request' \in Requests
    BY <1>5 DEF Reject, Typed, Requests
  <2> QED BY <1>5, <2>1, ReviewsTyped, DraftsStay DEF Reject, Typed
<1> QED BY <1>1, <1>2, <1>3, <1>4, <1>5

LEMMA WritesTyped ==
  /\ Typed => \A x \in Form, v \in Values : WriteProject(x, v) => Typed'
  /\ Typed => \A file \in Files : UploadCheckout(file) => Typed'
<1>1. ASSUME Typed, NEW x \in Form, NEW v \in Values, WriteProject(x, v) PROVE Typed'
  <2>1. PICK content \in Contents : content = project.fields
    BY <1>1 DEF Typed, Projects
  <2>2. [content EXCEPT ![x] = v] \in Contents
    BY ContentsWritten, ProjectAssumption DEF Fields
  <2>3. project.version + 1 \in 1..MaxVersion
    BY <1>1, ProjectAssumption DEF WriteProject, Typed, Projects
  <2>4. project' = [version |-> project.version + 1, fields |-> [content EXCEPT ![x] = v]]
    BY <1>1, <2>1 DEF WriteProject
  <2>5. project' \in Projects
    BY <2>2, <2>3, <2>4 DEF Projects
  <2> QED BY <1>1, <2>5, DraftsStay DEF WriteProject, Typed
<1>2. ASSUME Typed, NEW file \in Files, UploadCheckout(file) PROVE Typed'
  <2>1. PICK content \in Contents : content = project.fields
    BY <1>2 DEF Typed, Projects
  <2>2. [content EXCEPT ![Document] = file] \in Contents
    BY ContentsWritten DEF Fields
  <2>3. project.version + 1 \in 1..MaxVersion
    BY <1>2, ProjectAssumption DEF UploadCheckout, Typed, Projects
  <2>4. project' = [version |-> project.version + 1, fields |-> [content EXCEPT ![Document] = file]]
    BY <1>2, <2>1 DEF UploadCheckout
  <2>5. project' \in Projects
    BY <2>2, <2>3, <2>4 DEF Projects
  <2>6. files' \in StoredFiles
    BY <1>2 DEF UploadCheckout, Typed, StoredFiles
  <2> QED BY <1>2, <2>5, <2>6, DraftsStay DEF UploadCheckout, Typed
<1> QED BY <1>1, <1>2

LEMMA NextTyped ==
  ASSUME Typed, [Next]_vars
  PROVE  Typed'
<1>1. CASE UNCHANGED vars
  BY <1>1, DraftsStay DEF vars, Typed
<1>2. CASE Next
  BY <1>2, EditTyped, OthersTyped, WritesTyped, ScenarioTyped DEF Next
<1> QED BY <1>1, <1>2

-----------------------------------------------------------------------------
(* What the authors know: whatever is based on the present version of the project was *)
(* chosen against what the project holds, field by field, or is marked as taken over. *)
Informed(base, seen, unasked) ==
  VersionCurrent(base) => \A x \in Fields \ unasked : project.fields[x] \in seen[x]
RequestInformed ==
  /\ request.base <= project.version
  /\ Informed(request.base, request.seen, request.unasked)
\* A draft also knows what the next merge compares with.
Knows(save, snapshot) ==
  /\ save.base <= project.version
  /\ Informed(save.base, save.seen, save.unasked)
  /\ \A x \in Fields \ save.unasked : snapshot[x] \in save.seen[x]
DraftsInformed == \A u \in Users : Active(u) => Knows(Now(u), draft[u].snapshot)
\* What the approver has looked at is what the request proposes, unless it was replaced.
Reviewed ==
  review.at # "NO" =>
    /\ review.token[2] <= request.number
    /\ review.token[2] = request.number => review.proposed = request.proposed
Aware == RequestInformed /\ DraftsInformed /\ Reviewed

\* A draft that is saved knows enough if what was saved does.
LEMMA TurnedInformed ==
  ASSUME Typed, DraftsInformed, UNCHANGED project,
         NEW u \in Users, NEW status, NEW snapshot, NEW save,
         Turned(u, status, snapshot, save),
         status = "ACTIVE" => Knows(save, snapshot)
  PROVE  DraftsInformed'
<1> SUFFICES ASSUME NEW v \in Users, Active(v)'
             PROVE  Knows(Now(v), draft[v].snapshot)'
  BY DEF DraftsInformed
<1>1. CASE v = u
  <2>1. Now(u)' = save /\ draft'[u].snapshot = snapshot /\ status = "ACTIVE"
    BY <1>1 DEF Turned, Active
  <2> QED BY <1>1, <2>1 DEF Knows, Informed, VersionCurrent
<1>2. CASE v # u
  <2>1. draft'[v] = draft[v]
    BY <1>2 DEF Turned
  <2>2. Active(v) /\ Now(v)' = Now(v)
    BY <2>1 DEF Active, Now
  <2> QED BY <2>1, <2>2 DEF DraftsInformed, Knows, Informed, VersionCurrent
<1> QED BY <1>1, <1>2

\* A draft that starts now knows what it starts from and what the project holds.
LEMMA SeedInformed ==
  ASSUME Typed, RequestInformed
  PROVE  \A x \in Fields \ SeedUnasked : /\ project.fields[x] \in SeedSeen[x]
                                         /\ Seed[x] \in SeedSeen[x]
<1> SUFFICES ASSUME NEW x \in Fields \ SeedUnasked
             PROVE  project.fields[x] \in SeedSeen[x] /\ Seed[x] \in SeedSeen[x]
  OBVIOUS
<1>1. SeedSeen[x] = {Seed[x]} \cup IF Resumable THEN request.seen[x] ELSE {}
  BY DEF SeedSeen
<1>2. CASE Resumable
  <2>1. VersionCurrent(request.base) /\ x \notin request.unasked
    BY <1>2 DEF SeedUnasked, TakenOver
  <2>2. project.fields[x] \in request.seen[x]
    BY <2>1 DEF RequestInformed, Informed
  <2> QED BY <1>1, <1>2, <2>2
<1>3. CASE ~Resumable
  BY <1>1, <1>3 DEF Seed
<1> QED BY <1>2, <1>3

\* A save that knows what the last one did knows enough.
LEMMA StillKnows ==
  ASSUME Typed, DraftsInformed, NEW u \in Users, Active(u), NEW save \in Saves,
         save.base = Now(u).base, save.seen = Now(u).seen, Now(u).unasked \subseteq save.unasked
  PROVE  Knows(save, draft[u].snapshot)
<1>1. Knows(Now(u), draft[u].snapshot)
  BY DEF DraftsInformed
<1> QED BY <1>1 DEF Knows, Informed

\* Nothing of this is touched.
LEMMA AwareStays ==
  ASSUME Aware, UNCHANGED <<project, request, draft, review>>
  PROVE  Aware'
BY DEF Aware, RequestInformed, Reviewed, DraftsInformed, Knows, Informed, VersionCurrent, Active, Now

LEMMA SavedAware ==
  ASSUME Typed, Aware, UNCHANGED <<project, request, review>>,
         NEW u \in Users, NEW snapshot, NEW save,
         Turned(u, "ACTIVE", snapshot, save), Knows(save, snapshot)
  PROVE  Aware'
<1>1. DraftsInformed'
  BY TurnedInformed DEF Aware
<1>2. RequestInformed' /\ Reviewed'
  BY DEF Aware, RequestInformed, Reviewed, Informed, VersionCurrent
<1> QED BY <1>1, <1>2 DEF Aware

\* The steps of one user.
LEMMA EditAware ==
  ASSUME Typed, Aware, NEW u \in Users, Edit(u)
  PROVE  Aware'
<1>0. RequestInformed /\ DraftsInformed /\ Reviewed
  BY DEF Aware
<1>1. CASE Acquire(u)
  BY <1>1, AwareStays DEF Acquire
<1>2. CASE Open(u)
  <2>1. PICK save \in Saves :
          /\ Turned(u, "ACTIVE", Seed, save) /\ save.base = project.version
          /\ save.seen = SeedSeen /\ save.unasked = SeedUnasked
    BY <1>2, OpenTurns
  <2>2. Knows(save, Seed)
    BY <2>1, <1>0, SeedInformed DEF Knows, Informed, Typed, Projects
  <2> QED BY <1>2, <2>1, <2>2, SavedAware DEF Open
<1>3. CASE Rebase(u)
  <2>1. PICK save \in Saves :
           /\ Turned(u, "ACTIVE", Seed, save) /\ save.base = project.version
           /\ \A x \in Fields \ save.unasked :
                /\ x \notin SeedUnasked
                /\ \/ save.seen[x] = SeedSeen[x]
                   \/ /\ save.seen[x] = Now(u).seen[x] /\ x \notin Now(u).unasked
                      /\ Seed[x] = draft[u].snapshot[x]
                      /\ VersionCurrent(Now(u).base) \/ Seed[x] = project.fields[x]
    BY <1>3, RebaseTurns
  <2>2. Knows(Now(u), draft[u].snapshot)
    BY <1>0, <1>3 DEF DraftsInformed, Rebase, Editing, Active
  <2>3. ASSUME NEW x \in Fields \ save.unasked
        PROVE  project.fields[x] \in save.seen[x] /\ Seed[x] \in save.seen[x]
    <3>1. CASE save.seen[x] = SeedSeen[x]
      BY <2>1, <3>1, <1>0, SeedInformed
    <3>2. CASE /\ save.seen[x] = Now(u).seen[x] /\ x \notin Now(u).unasked
               /\ Seed[x] = draft[u].snapshot[x]
               /\ VersionCurrent(Now(u).base) \/ Seed[x] = project.fields[x]
      BY <3>2, <2>2 DEF Knows, Informed
    <3> QED BY <2>1, <3>1, <3>2
  <2>4. Knows(save, Seed)
    BY <2>1, <2>3 DEF Knows, Informed, Typed, Projects
  <2> QED BY <1>3, <2>1, <2>4, SavedAware DEF Rebase
<1>4. CASE Submit(u)
  <2>1. PICK now \in Saves : now = Now(u)
    BY <1>4, SubmitTurns
  <2>2. Knows(now, draft[u].snapshot) /\ VersionCurrent(now.base)
    BY <2>1, <1>0, <1>4, SubmitTurns DEF DraftsInformed, Submit
  <2>3. DraftsInformed'
    BY <1>0, <1>4, SubmitTurns, TurnedInformed DEF Submit
  <2>4. /\ request'.number = request.number + 1 /\ request'.base = project.version
        /\ request'.seen = now.seen /\ request'.unasked = now.unasked
        /\ project' = project /\ review' = review
    BY <1>4, <2>1 DEF Submit
  <2>5. RequestInformed'
    BY <2>2, <2>4 DEF RequestInformed, Knows, Informed, VersionCurrent, Typed, Projects
  <2>6. Reviewed'
    <3>1. request.number \in Nat /\ review.token[2] \in Nat
      BY ProjectAssumption DEF Typed, Requests, Reviews, Tokens
    <3> QED BY <1>0, <2>4, <3>1 DEF Reviewed
  <2> QED BY <2>3, <2>5, <2>6 DEF Aware
<1>5. CASE Withdraw(u)
  <2>1. PICK save \in Saves :
           /\ Turned(u, "ACTIVE", project.fields, save) /\ save.base = project.version
           /\ save.seen = request.seen /\ save.unasked = SeedUnasked
    BY <1>5, WithdrawTurns
  <2>2. \A x \in Fields \ SeedUnasked : project.fields[x] \in request.seen[x]
    <3>1. Resumable
      BY <1>5 DEF Withdraw, Resumable
    <3>2. \A x \in Fields \ SeedUnasked : VersionCurrent(request.base) /\ x \notin request.unasked
      BY <3>1 DEF SeedUnasked, TakenOver
    <3> QED BY <3>2, <1>0 DEF RequestInformed, Informed
  <2>3. Knows(save, project.fields)
    BY <2>1, <2>2 DEF Knows, Informed, Typed, Projects
  <2>4. DraftsInformed'
    BY <1>0, <1>5, <2>1, <2>3, TurnedInformed DEF Withdraw
  <2>5. /\ request'.number = request.number /\ request'.base = request.base
        /\ request'.seen = request.seen /\ request'.unasked = request.unasked
        /\ request'.proposed = request.proposed
        /\ project' = project /\ review' = review
    BY <1>5 DEF Withdraw, Typed, Requests
  <2>6. RequestInformed' /\ Reviewed'
    BY <1>0, <2>5 DEF RequestInformed, Reviewed, Informed, VersionCurrent
  <2> QED BY <2>4, <2>6 DEF Aware
<1>6. CASE Attach(u)
  <2>1. PICK save \in Saves :
           /\ Turned(u, "ACTIVE", draft[u].snapshot, save)
           /\ save.base = Now(u).base /\ save.seen = Now(u).seen /\ save.unasked = Now(u).unasked
    BY <1>6, AttachTurns
  <2>2. Knows(save, draft[u].snapshot)
    BY <1>0, <1>6, <2>1, StillKnows DEF Attach, Editing, Active
  <2> QED BY <1>6, <2>1, <2>2, SavedAware DEF Attach
<1>7. CASE AttachFails(u)
  BY <1>7, AwareStays DEF AttachFails
<1>8. CASE RemoveAttachment(u)
  <2>1. PICK save \in Saves :
           /\ Turned(u, "ACTIVE", draft[u].snapshot, save)
           /\ save.base = Now(u).base /\ save.seen = Now(u).seen /\ save.unasked = Now(u).unasked
    BY <1>8, RemoveTurns
  <2>2. Knows(save, draft[u].snapshot)
    BY <1>0, <1>8, <2>1, StillKnows DEF RemoveAttachment, Editing, Active
  <2> QED BY <1>8, <2>1, <2>2, SavedAware DEF RemoveAttachment
<1>9. ASSUME NEW x \in scenario.fields, NEW v \in Values, Update(u, x, v)
      PROVE  Aware'
  <2>1. PICK save \in Saves :
           /\ Turned(u, "ACTIVE", draft[u].snapshot, save)
           /\ save.base = Now(u).base /\ save.seen = Now(u).seen /\ save.unasked = Now(u).unasked
    BY <1>9, ScenarioTyped, UpdateTurns
  <2>2. Knows(save, draft[u].snapshot)
    BY <1>0, <1>9, <2>1, StillKnows DEF Update, Editing, Active
  <2> QED BY <1>9, <2>1, <2>2, SavedAware DEF Update
<1>10. ASSUME NEW i \in 1..MaxSaves[u], RestoreHistory(u, i)
       PROVE  Aware'
  <2>1. PICK save \in Saves :
           /\ Turned(u, "ACTIVE", draft[u].snapshot, save)
           /\ save.base = Now(u).base /\ save.seen = Now(u).seen
           /\ Now(u).unasked \subseteq save.unasked
    BY <1>10, RestoreTurns
  <2>2. Knows(save, draft[u].snapshot)
    BY <1>0, <1>10, <2>1, StillKnows DEF RestoreHistory, Editing, Active
  <2> QED BY <1>10, <2>1, <2>2, SavedAware DEF RestoreHistory
<1>11. ASSUME NEW file \in scenario.files, Upload(u, file)
       PROVE  Aware'
  BY <1>11, AwareStays DEF Upload
<1>12. ASSUME NEW file \in scenario.files, CleanUp(file, u)
       PROVE  Aware'
  BY <1>12, AwareStays DEF CleanUp
<1> QED BY <1>1, <1>2, <1>3, <1>4, <1>5, <1>6, <1>7, <1>8, <1>9, <1>10, <1>11, <1>12 DEF Edit

\* A new version of the project: whatever was based on the old one is not current.
LEMMA NewVersionAware ==
  ASSUME Typed, Aware, UNCHANGED draft, project'.version = project.version + 1,
         request'.base = request.base, Reviewed'
  PROVE  Aware'
<1>1. project.version \in Nat /\ request.base \in Nat /\ request.base <= project.version
  BY ProjectAssumption DEF Typed, Projects, Requests, Aware, RequestInformed
<1>2. request'.base < project'.version
  BY <1>1
<1>3. RequestInformed'
  BY <1>1, <1>2 DEF RequestInformed, Informed, VersionCurrent
<1>4. ASSUME NEW u \in Users, Active(u)'
      PROVE  Knows(Now(u), draft[u].snapshot)'
  <2>1. Active(u) /\ Now(u)' = Now(u) /\ draft'[u] = draft[u]
    BY <1>4 DEF Active, Now
  <2>2. Knows(Now(u), draft[u].snapshot)
    BY <2>1 DEF Aware, DraftsInformed
  <2>3. Now(u).base \in Nat
    BY <2>1, NowTyped, SavesWritten DEF Typed, DraftsTyped
  <2>4. Now(u).base <= project'.version /\ Now(u).base # project'.version
    BY <1>1, <2>2, <2>3 DEF Knows
  <2> QED BY <2>1, <2>2, <2>4 DEF Knows, Informed, VersionCurrent
<1>5. DraftsInformed'
  BY <1>4 DEF DraftsInformed
<1> QED BY <1>3, <1>5 DEF Aware

\* The other steps.
LEMMA OthersAware ==
  ASSUME Typed, Aware
  PROVE  /\ EndLease \/ Look \/ InspectFiles \/ Approve \/ Reject => Aware'
         /\ \A x \in Form, v \in Values : WriteProject(x, v) => Aware'
         /\ \A file \in Files : UploadCheckout(file) => Aware'
<1>0. RequestInformed /\ DraftsInformed /\ Reviewed
  BY DEF Aware
<1>1. ASSUME EndLease PROVE Aware'
  BY <1>1, AwareStays DEF EndLease
<1>2. ASSUME UNCHANGED <<project, request, draft>>, Reviewed' PROVE Aware'
  BY <1>0, <1>2 DEF Aware, RequestInformed, DraftsInformed, Knows, Informed, VersionCurrent, Active, Now
<1>3. ASSUME Look PROVE Aware'
  <2>1. review'.token[2] = request.number /\ review'.proposed = request.proposed
    BY <1>3 DEF Look, Token
  <2>2. Reviewed'
    BY <1>3, <2>1, ProjectAssumption DEF Look, Reviewed, Typed, Requests
  <2> QED BY <1>2, <1>3, <2>2 DEF Look
<1>4. ASSUME InspectFiles PROVE Aware'
  <2>1. review'.token = review.token /\ review'.proposed = review.proposed
    BY <1>4 DEF InspectFiles, Typed, Reviews
  <2>2. Reviewed'
    BY <1>0, <1>4, <2>1 DEF InspectFiles, Reviewed
  <2> QED BY <1>2, <1>4, <2>2 DEF InspectFiles
<1>5. ASSUME Approve PROVE Aware'
  <2>1. Reviewed'
    BY <1>5 DEF Approve, NoReview, Reviewed
  <2>2. request'.base = request.base /\ project'.version = project.version + 1
    BY <1>5 DEF Approve, Typed, Requests
  <2> QED BY <1>5, <2>1, <2>2, NewVersionAware DEF Approve
<1>6. ASSUME Reject PROVE Aware'
  <2>1. Reviewed'
    BY <1>6 DEF Reject, NoReview, Reviewed
  <2>2. /\ request'.base = request.base /\ request'.seen = request.seen
        /\ request'.unasked = request.unasked
    BY <1>6 DEF Reject, Typed, Requests
  <2>3. RequestInformed' /\ DraftsInformed'
    BY <1>0, <1>6, <2>2 DEF Reject, RequestInformed, DraftsInformed, Knows, Informed, VersionCurrent,
                             Active, Now
  <2> QED BY <2>1, <2>3 DEF Aware
<1>7. ASSUME NEW x \in Form, NEW v \in Values, WriteProject(x, v) PROVE Aware'
  <2>1. Reviewed'
    BY <1>0, <1>7 DEF WriteProject, Reviewed
  <2> QED BY <1>7, <2>1, NewVersionAware DEF WriteProject
<1>8. ASSUME NEW file \in Files, UploadCheckout(file) PROVE Aware'
  <2>1. Reviewed'
    BY <1>0, <1>8 DEF UploadCheckout, Reviewed
  <2> QED BY <1>8, <2>1, NewVersionAware DEF UploadCheckout
<1> QED BY <1>1, <1>3, <1>4, <1>5, <1>6, <1>7, <1>8

LEMMA InitAware ==
  ASSUME Init
  PROVE  Aware
<1>1. RequestInformed
  BY DEF Init, NoRequest, RequestInformed, Informed, VersionCurrent
<1>2. DraftsInformed
  BY DEF Init, NoDraft, DraftsInformed, Active
<1>3. Reviewed
  BY DEF Init, NoReview, Reviewed
<1> QED BY <1>1, <1>2, <1>3 DEF Aware

LEMMA NextAware ==
  ASSUME Typed, Aware, [Next]_vars
  PROVE  Aware'
<1>1. CASE UNCHANGED vars
  BY <1>1, AwareStays DEF vars
<1>2. CASE Next
  BY <1>2, EditAware, OthersAware, ScenarioTyped DEF Next
<1> QED BY <1>1, <1>2

-----------------------------------------------------------------------------
(* Whose a file is. A file the project or an open request refers to is in storage, and *)
(* nobody is left who would delete it: nobody uploads it, has it as an attachment of   *)
(* his own or has it on the list of files to be deleted. A user in whose hands a file  *)
(* is has uploaded it, and has it in one place.                                        *)
Holding(u) == IF Active(u) THEN Now(u).attachment ELSE NoAttachment
Offered == {project.fields[Document]} \cup IF Resumable THEN {request.proposed[Document]} ELSE {}
Inherits(u, file) == Holding(u) = [file |-> file, inherited |-> TRUE]
Uploading(u, file) == uploads[u].file = file
Attached(u, file) == Holding(u) = [file |-> file, inherited |-> FALSE]
Condemned(u, file) == <<file, u>> \in cleanups
Owns(u, file) == Uploading(u, file) \/ Attached(u, file) \/ Condemned(u, file)
OwnedOnce(u, file) ==
  /\ ~(Uploading(u, file) /\ Attached(u, file))
  /\ ~(Uploading(u, file) /\ Condemned(u, file))
  /\ ~(Attached(u, file) /\ Condemned(u, file))

Custody(file) ==
  /\ file \in Offered => files[file].state = "KEPT"
  /\ \A u \in Users : Inherits(u, file) => files[file].state # "FREE"
  /\ \A u \in Users :
       Owns(u, file) =>
         /\ file \notin Offered /\ \A v \in Users : ~Inherits(v, file)
         /\ files[file].by = u /\ files[file].state # "FREE"
         /\ OwnedOnce(u, file)
InCustody == \A file \in Files \ recalled : Custody(file)

\* Of a step that leaves the file itself alone: nobody inherits it who did not and it
\* was not offered, it is offered only if it was, or was somebody's who lets go of it,
\* and nobody owns it who did not.
LEMMA CustodyStays ==
  ASSUME Typed, NEW file \in Files, Custody(file),
         files'[file] = files[file],
         file \in Offered' => file \in Offered,
         \A u \in Users : Inherits(u, file)' => Inherits(u, file) \/ file \in Offered,
         \A u \in Users : Owns(u, file)' => Owns(u, file) /\ OwnedOnce(u, file)'
  PROVE  Custody(file)'
<1>1. file \in Offered' => files'[file].state = "KEPT"
  BY DEF Custody
<1>2. ASSUME NEW u \in Users, Inherits(u, file)'
      PROVE  files'[file].state # "FREE"
  BY <1>2 DEF Custody
<1>3. ASSUME NEW u \in Users, Owns(u, file)'
      PROVE  /\ file \notin Offered' /\ \A v \in Users : ~Inherits(v, file)'
             /\ files'[file].by = u /\ files'[file].state # "FREE"
             /\ OwnedOnce(u, file)'
  <2>1. Owns(u, file) /\ OwnedOnce(u, file)'
    BY <1>3
  <2>2. /\ file \notin Offered /\ \A v \in Users : ~Inherits(v, file)
        /\ files[file].by = u /\ files[file].state # "FREE"
    BY <2>1 DEF Custody
  <2> QED BY <2>1, <2>2
<1> QED BY <1>1, <1>2, <1>3 DEF Custody

\* A draft that did not move holds what it held.
LEMMA OthersHold ==
  ASSUME NEW v \in Users, draft'[v] = draft[v]
  PROVE  Holding(v)' = Holding(v)
BY DEF Holding, Active, Now

LEMMA TurnedHolds ==
  ASSUME Typed, NEW u \in Users, NEW status, NEW snapshot, NEW save,
         Turned(u, status, snapshot, save)
  PROVE  /\ Holding(u)' = IF status = "ACTIVE" THEN save.attachment ELSE NoAttachment
         /\ \A v \in Users \ {u} : Holding(v)' = Holding(v)
BY OthersHold DEF Turned, Holding, Active

\* The draft of one user holds something else: what it held itself, nothing, or what
\* the request offers; the rest stays.
LEMMA HoldingChanged ==
  ASSUME Typed, InCustody, UNCHANGED <<files, uploads, cleanups>>, recalled \subseteq recalled',
         Offered' \subseteq Offered,
         NEW u \in Users, \A v \in Users \ {u} : Holding(v)' = Holding(v),
         \/ Holding(u)' \in {Holding(u), NoAttachment}
         \/ Holding(u)'.file \in {None} \cup recalled'
         \/ \E file \in Offered : Holding(u)' = [file |-> file, inherited |-> TRUE]
  PROVE  InCustody'
<1> SUFFICES ASSUME NEW file \in Files \ recalled'
             PROVE  Custody(file)'
  BY DEF InCustody
<1>1. Custody(file) /\ file # None
  BY ProjectAssumption DEF InCustody
<1>2. \A v \in Users : Inherits(v, file)' => Inherits(v, file) \/ file \in Offered
  BY <1>1 DEF Inherits, NoAttachment
<1>3. \A v \in Users : Attached(v, file)' => Attached(v, file)
  BY <1>1 DEF Attached, NoAttachment
<1>4. \A v \in Users : /\ Uploading(v, file)' = Uploading(v, file)
                       /\ Condemned(v, file)' = Condemned(v, file)
  BY DEF Uploading, Condemned
<1>5. \A v \in Users : Owns(v, file)' => Owns(v, file) /\ OwnedOnce(v, file)'
  BY <1>1, <1>3, <1>4 DEF Owns, OwnedOnce, Custody
<1> QED BY <1>1, <1>2, <1>5, CustodyStays

\* Nothing of this is touched.
LEMMA CustodyUntouched ==
  ASSUME Typed, InCustody, UNCHANGED <<files, cleanups, recalled, draft>>,
         \A u \in Users : uploads'[u].file = uploads[u].file,
         Offered' \subseteq Offered
  PROVE  InCustody'
<1> SUFFICES ASSUME NEW file \in Files \ recalled'
             PROVE  Custody(file)'
  BY DEF InCustody
<1>1. Custody(file)
  BY DEF InCustody
<1>2. \A v \in Users : Holding(v)' = Holding(v)
  BY OthersHold
<1>3. \A v \in Users : /\ Inherits(v, file)' = Inherits(v, file)
                       /\ Attached(v, file)' = Attached(v, file)
                       /\ Uploading(v, file)' = Uploading(v, file)
                       /\ Condemned(v, file)' = Condemned(v, file)
  BY <1>2 DEF Inherits, Attached, Uploading, Condemned
<1>4. \A v \in Users : Owns(v, file)' => Owns(v, file) /\ OwnedOnce(v, file)'
  BY <1>1, <1>3 DEF Owns, OwnedOnce, Custody
<1> QED BY <1>1, <1>3, <1>4, CustodyStays

\* What one inherits is on offer.
LEMMA InheritedOffered ==
  ASSUME Typed
  PROVE  \/ InheritedAttachment = NoAttachment
         \/ \E file \in Offered : InheritedAttachment = [file |-> file, inherited |-> TRUE]
BY DEF InheritedAttachment, Offered

\* An attachment is one's own or inherited.
LEMMA AttachmentKinds ==
  ASSUME NEW a \in Attachments, a # NoAttachment
  PROVE  /\ a.file \in Files
         /\ a \in {[file |-> a.file, inherited |-> TRUE], [file |-> a.file, inherited |-> FALSE]}
BY AttachmentsTyped DEF Attachments

LEMMA SubmitCustody ==
  ASSUME Typed, InCustody, NEW u \in Users, Submit(u)
  PROVE  InCustody'
<1> SUFFICES ASSUME NEW file \in Files \ recalled
             PROVE  Custody(file)'
  BY DEF InCustody, Submit
<1>1. Custody(file) /\ file # None
  BY ProjectAssumption DEF InCustody
<1>2. PICK now \in Saves : now = Now(u)
  BY SubmitTurns
<1>3. Holding(u) = now.attachment /\ Holding(u)' = NoAttachment
  BY <1>2, SubmitTurns, TurnedHolds DEF Holding
<1>4. \A v \in Users \ {u} : Holding(v)' = Holding(v)
  BY SubmitTurns, TurnedHolds
<1>5. files' = files /\ cleanups' = cleanups /\ \A v \in Users : uploads'[v].file = uploads[v].file
  BY FencedTyped DEF Submit
<1>6. Offered' = {project.fields[Document], Proposal(now)[Document]}
  <2>1. request'.status = "PENDING" /\ request'.proposed = Proposal(now) /\ project' = project
    BY <1>2 DEF Submit
  <2> QED BY <2>1 DEF Offered, Resumable
<1>7. \A v \in Users : Inherits(v, file)' => Inherits(v, file)
  BY <1>1, <1>3, <1>4 DEF Inherits, NoAttachment
<1>8. \A v \in Users : /\ Attached(v, file)' => Attached(v, file) /\ v # u
                       /\ Uploading(v, file)' = Uploading(v, file)
                       /\ Condemned(v, file)' = Condemned(v, file)
  BY <1>1, <1>3, <1>4, <1>5 DEF Attached, Uploading, Condemned, NoAttachment
<1>9. \A v \in Users : Owns(v, file)' => Owns(v, file) /\ OwnedOnce(v, file)'
  BY <1>1, <1>8 DEF Owns, OwnedOnce, Custody
<1>10. \/ file \in Offered' => file \in Offered
       \/ file = now.attachment.file /\ now.attachment # NoAttachment
  <2>1. CASE now.attachment = NoAttachment
    <3>1. Proposal(now)[Document] = now.payload[Document]
      BY <2>1 DEF Proposal
    <3>2. now.payload[Document] \in {None} \cup Offered
      BY <1>2, <2>1 DEF Submit, Trusted, Offered
    <3> QED BY <1>1, <1>6, <3>1, <3>2 DEF Offered
  <2>2. CASE now.attachment # NoAttachment
    <3>1. Proposal(now)[Document] = now.attachment.file
      BY <2>2, SavesWritten, ContentsFields DEF Proposal, Fields
    <3> QED BY <1>6, <2>2, <3>1 DEF Offered
  <2> QED BY <2>1, <2>2
<1>11. CASE file \in Offered' => file \in Offered
  BY <1>1, <1>5, <1>7, <1>9, <1>11, CustodyStays
<1>12. CASE file = now.attachment.file /\ now.attachment # NoAttachment
  <2>1. files[file].state = "KEPT"
    BY <1>2, <1>12 DEF Submit
  <2>2. Inherits(u, file) \/ Attached(u, file)
    BY <1>3, <1>12, SavesWritten, AttachmentKinds DEF Inherits, Attached
  <2>3. \A v \in Users : ~Owns(v, file)'
    <3> SUFFICES ASSUME NEW v \in Users, Owns(v, file)'
                 PROVE  FALSE
      OBVIOUS
    <3>1. Owns(v, file) /\ ~Inherits(u, file) /\ files[file].by = v /\ OwnedOnce(v, file)
      BY <1>1, <1>9 DEF Custody
    <3>2. Attached(u, file)
      BY <2>2, <3>1
    <3>3. v = u
      BY <1>1, <3>1, <3>2 DEF Custody, Owns
    <3>4. Uploading(u, file) \/ Condemned(u, file)
      BY <1>8, <3>3 DEF Owns
    <3> QED BY <3>1, <3>2, <3>3, <3>4 DEF OwnedOnce
  <2>4. files'[file].state = "KEPT"
    BY <1>5, <2>1
  <2> QED BY <2>3, <2>4 DEF Custody
<1> QED BY <1>10, <1>11, <1>12

\* The owner of a file lets go of it: he deletes it, or it goes on the list of files to be
\* deleted, or from there or the upload to the attachment.
LEMMA HandedOn ==
  ASSUME Typed, NEW file \in Files, Custody(file), NEW u \in Users,
         \/ files'[file] = files[file]
         \/ Owns(u, file) /\ files'[file].state = "GONE" /\ files'[file].by = files[file].by,
         Offered' = Offered,
         \A v \in Users : Inherits(v, file)' => Inherits(v, file),
         \A v \in Users \ {u} : /\ Attached(v, file)' = Attached(v, file)
                                /\ Uploading(v, file)' = Uploading(v, file)
                                /\ Condemned(v, file)' = Condemned(v, file),
         Owns(u, file)' => Owns(u, file),
         OwnedOnce(u, file) => OwnedOnce(u, file)'
  PROVE  Custody(file)'
<1>1. \A v \in Users : Owns(v, file)' => Owns(v, file) /\ OwnedOnce(v, file)'
  <2> SUFFICES ASSUME NEW v \in Users, Owns(v, file)'
               PROVE  Owns(v, file) /\ OwnedOnce(v, file)'
    OBVIOUS
  <2>1. CASE v = u
    BY <2>1 DEF Custody
  <2>2. CASE v # u
    BY <2>2 DEF Custody, Owns, OwnedOnce
  <2> QED BY <2>1, <2>2
<1>2. CASE files'[file] = files[file]
  BY <1>1, <1>2, CustodyStays
<1>3. CASE Owns(u, file) /\ files'[file].state = "GONE" /\ files'[file].by = files[file].by
  <2>1. file \notin Offered /\ \A v \in Users : ~Inherits(v, file)
    BY <1>3 DEF Custody
  <2>2. \A v \in Users : Owns(v, file)' => files'[file].by = v /\ OwnedOnce(v, file)'
    BY <1>1, <1>3 DEF Custody
  <2> QED BY <1>3, <2>1, <2>2 DEF Custody
<1> QED BY <1>2, <1>3

LEMMA AttachCustody ==
  ASSUME Typed, InCustody, NEW u \in Users, Attach(u)
  PROVE  InCustody'
<1> SUFFICES ASSUME NEW file \in Files \ recalled
             PROVE  Custody(file)'
  BY DEF InCustody, Attach
<1>1. Custody(file) /\ file # None
  BY ProjectAssumption DEF InCustody
<1>2. Active(u)
  BY DEF Attach, Editing, Active
<1>3. Holding(u)' = [file |-> uploads[u].file, inherited |-> FALSE]
  <2>1. PICK save \in Saves : /\ Turned(u, "ACTIVE", draft[u].snapshot, save)
                             /\ save.attachment = [file |-> uploads[u].file, inherited |-> FALSE]
    BY AttachTurns
  <2>2. Holding(u)' = save.attachment
    BY <2>1, TurnedHolds
  <2> QED BY <2>1, <2>2
<1>4. \A v \in Users \ {u} : Holding(v)' = Holding(v)
  BY AttachTurns, TurnedHolds
<1>5. /\ files' = files /\ Offered' = Offered /\ cleanups' = cleanups \cup Discarded(u)
      /\ uploads' = [uploads EXCEPT ![u] = NoUpload]
  BY DEF Attach, Offered, Resumable
<1>6. uploads'[u].file = None /\ \A v \in Users \ {u} : uploads'[v] = uploads[v]
  BY <1>5 DEF NoUpload, Typed, Uploads
<1>7. Condemned(u, file)' => Condemned(u, file) \/ Attached(u, file)
  <2>1. Now(u).attachment \in Attachments
    BY <1>2, NowTyped, SavesWritten DEF Typed, DraftsTyped
  <2>2. Now(u).attachment.file = file /\ ~Now(u).attachment.inherited => Attached(u, file)
    BY <1>1, <1>2, <2>1, AttachmentKinds, AttachmentsTyped DEF Attached, Holding
  <2> QED BY <1>5, <2>2 DEF Condemned, Discarded
<1>8. \A v \in Users \ {u} : Condemned(v, file)' = Condemned(v, file)
  BY <1>5 DEF Condemned, Discarded
<1>9. \A v \in Users : Inherits(v, file)' => Inherits(v, file)
  BY <1>3, <1>4 DEF Inherits
<1>10. \A v \in Users \ {u} : /\ Attached(v, file)' = Attached(v, file)
                              /\ Uploading(v, file)' = Uploading(v, file)
  BY <1>4, <1>6 DEF Attached, Uploading
<1>11. ~Uploading(u, file)' /\ (Attached(u, file)' => Uploading(u, file))
  BY <1>1, <1>3, <1>6 DEF Uploading, Attached
<1>12. Owns(u, file)' => Owns(u, file)
  BY <1>7, <1>11 DEF Owns
<1>13. OwnedOnce(u, file) => OwnedOnce(u, file)'
  BY <1>7, <1>11 DEF OwnedOnce
<1> QED BY <1>1, <1>5, <1>8, <1>9, <1>10, <1>12, <1>13, HandedOn

LEMMA RemoveCustody ==
  ASSUME Typed, InCustody, NEW u \in Users, RemoveAttachment(u)
  PROVE  InCustody'
<1> SUFFICES ASSUME NEW file \in Files \ recalled
             PROVE  Custody(file)'
  BY DEF InCustody, RemoveAttachment
<1>1. Custody(file) /\ file # None
  BY ProjectAssumption DEF InCustody
<1>2. Active(u)
  BY DEF RemoveAttachment, Editing, Active
<1>3. Holding(u)' = NoAttachment
  BY RemoveTurns, TurnedHolds
<1>4. \A v \in Users \ {u} : Holding(v)' = Holding(v)
  BY RemoveTurns, TurnedHolds
<1>5. /\ files' = files /\ Offered' = Offered /\ cleanups' = cleanups \cup Discarded(u)
      /\ uploads' = uploads
  BY DEF RemoveAttachment, Offered, Resumable
<1>6. Condemned(u, file)' => Condemned(u, file) \/ Attached(u, file)
  <2>1. Now(u).attachment \in Attachments
    BY <1>2, NowTyped, SavesWritten DEF Typed, DraftsTyped
  <2>2. Now(u).attachment.file = file /\ ~Now(u).attachment.inherited => Attached(u, file)
    BY <1>1, <1>2, <2>1, AttachmentKinds, AttachmentsTyped DEF Attached, Holding
  <2> QED BY <1>5, <2>2 DEF Condemned, Discarded
<1>7. \A v \in Users \ {u} : Condemned(v, file)' = Condemned(v, file)
  BY <1>5 DEF Condemned, Discarded
<1>8. \A v \in Users : Inherits(v, file)' => Inherits(v, file)
  BY <1>1, <1>3, <1>4 DEF Inherits, NoAttachment
<1>9. \A v \in Users \ {u} : Attached(v, file)' = Attached(v, file)
  BY <1>4 DEF Attached
<1>10. \A v \in Users : Uploading(v, file)' = Uploading(v, file)
  BY <1>5 DEF Uploading
<1>11. ~Attached(u, file)'
  BY <1>1, <1>3 DEF Attached, NoAttachment
<1>12. Owns(u, file)' => Owns(u, file)
  BY <1>6, <1>10, <1>11 DEF Owns
<1>13. OwnedOnce(u, file) => OwnedOnce(u, file)'
  BY <1>6, <1>10, <1>11 DEF OwnedOnce
<1> QED BY <1>1, <1>5, <1>7, <1>8, <1>9, <1>10, <1>12, <1>13, HandedOn

\* An upload that fails, and a deletion that was due, delete a file of their user.
LEMMA DeletionCustody ==
  ASSUME Typed, InCustody, NEW u \in Users
  PROVE  /\ AttachFails(u) => InCustody'
         /\ \A file \in Files : CleanUp(file, u) => InCustody'
<1>1. ASSUME UNCHANGED <<project, request, draft>>
      PROVE  /\ Offered' = Offered
             /\ \A v \in Users, file \in Files : /\ Inherits(v, file)' = Inherits(v, file)
                                                 /\ Attached(v, file)' = Attached(v, file)
  BY <1>1, OthersHold DEF Offered, Resumable, Inherits, Attached
<1>2. ASSUME AttachFails(u)
      PROVE  InCustody'
  <2> SUFFICES ASSUME NEW file \in Files \ recalled
               PROVE  Custody(file)'
    BY <1>2 DEF InCustody, AttachFails
  <2>1. Custody(file) /\ file # None
    BY ProjectAssumption DEF InCustody
  <2>2. /\ uploads'[u].file = None /\ \A v \in Users \ {u} : uploads'[v] = uploads[v]
        /\ cleanups' = cleanups
    BY <1>2 DEF AttachFails, NoUpload, Typed, Uploads
  <2>3. /\ \A v \in Users \ {u} : Uploading(v, file)' = Uploading(v, file)
        /\ ~Uploading(u, file)'
        /\ \A v \in Users : Condemned(v, file)' = Condemned(v, file)
    BY <2>1, <2>2 DEF Uploading, Condemned
  <2>4. \/ files'[file] = files[file]
        \/ Owns(u, file) /\ files'[file].state = "GONE" /\ files'[file].by = files[file].by
    BY <1>2 DEF AttachFails, Owns, Uploading, Typed, StoredFiles
  <2>5. /\ Owns(u, file)' => Owns(u, file)
        /\ OwnedOnce(u, file) => OwnedOnce(u, file)'
    BY <1>1, <1>2, <2>3 DEF AttachFails, Owns, OwnedOnce
  <2>6. UNCHANGED <<project, request, draft>>
    BY <1>2 DEF AttachFails
  <2> QED BY <1>1, <2>1, <2>3, <2>4, <2>5, <2>6, HandedOn
<1>3. ASSUME NEW gone \in Files, CleanUp(gone, u)
      PROVE  InCustody'
  <2> SUFFICES ASSUME NEW file \in Files \ recalled
               PROVE  Custody(file)'
    BY <1>3 DEF InCustody, CleanUp
  <2>1. Custody(file)
    BY DEF InCustody
  <2>2. cleanups' = cleanups \ {<<gone, u>>} /\ uploads' = uploads /\ <<gone, u>> \in cleanups
    BY <1>3 DEF CleanUp
  <2>3. /\ \A v \in Users : Uploading(v, file)' = Uploading(v, file)
        /\ \A v \in Users \ {u} : Condemned(v, file)' = Condemned(v, file)
        /\ Condemned(u, file)' => Condemned(u, file)
    BY <2>2 DEF Uploading, Condemned
  <2>4. \/ files'[file] = files[file]
        \/ Owns(u, file) /\ files'[file].state = "GONE" /\ files'[file].by = files[file].by
    BY <1>3 DEF CleanUp, Owns, Condemned, Typed, StoredFiles
  <2>5. UNCHANGED <<project, request, draft>>
    BY <1>3 DEF CleanUp
  <2>6. /\ Owns(u, file)' => Owns(u, file)
        /\ OwnedOnce(u, file) => OwnedOnce(u, file)'
    BY <1>1, <2>3, <2>5 DEF Owns, OwnedOnce
  <2> QED BY <1>1, <2>1, <2>3, <2>4, <2>5, <2>6, HandedOn
<1> QED BY <1>2, <1>3

LEMMA UploadCustody ==
  ASSUME Typed, InCustody, NEW u \in Users, NEW new \in Files, Upload(u, new)
  PROVE  InCustody'
<1> SUFFICES ASSUME NEW file \in Files \ recalled
             PROVE  Custody(file)'
  BY DEF InCustody, Upload
<1>1. Custody(file) /\ file # None
  BY ProjectAssumption DEF InCustody
<1>2. /\ uploads'[u].file = new /\ uploads[u].file = None
      /\ \A v \in Users \ {u} : uploads'[v] = uploads[v]
  BY DEF Upload, NoUpload, Typed, Uploads
<1>3. \A v \in Users : Holding(v)' = Holding(v)
  BY OthersHold DEF Upload
<1>4. /\ Offered' = Offered
      /\ \A v \in Users : /\ Inherits(v, file)' = Inherits(v, file)
                          /\ Attached(v, file)' = Attached(v, file)
                          /\ Condemned(v, file)' = Condemned(v, file)
  BY <1>3 DEF Upload, Offered, Resumable, Inherits, Attached, Condemned
<1>5. CASE file = new
  <2>1. files[file].state = "FREE" /\ files'[file] = [state |-> "KEPT", by |-> u]
    BY <1>5 DEF Upload, Typed, StoredFiles
  <2>2. /\ file \notin Offered
        /\ \A v \in Users : ~Inherits(v, file) /\ ~Owns(v, file)
    BY <1>1, <2>1 DEF Custody
  <2>3. \A v \in Users : Owns(v, file)' => v = u /\ OwnedOnce(v, file)'
    BY <1>2, <1>4, <2>2 DEF Owns, OwnedOnce, Uploading
  <2>4. files'[file].state = "KEPT" /\ files'[file].by = u
    BY <2>1
  <2> QED BY <1>4, <2>2, <2>3, <2>4 DEF Custody
<1>6. CASE file # new
  <2>1. files'[file] = files[file]
    BY <1>6 DEF Upload, Typed, StoredFiles
  <2>2. \A v \in Users : Uploading(v, file)' = Uploading(v, file)
    BY <1>1, <1>2, <1>6 DEF Uploading
  <2>3. \A v \in Users : Owns(v, file)' => Owns(v, file) /\ OwnedOnce(v, file)'
    BY <1>1, <1>4, <2>2 DEF Owns, OwnedOnce, Custody
  <2> QED BY <1>1, <1>4, <2>1, <2>3, CustodyStays
<1> QED BY <1>5, <1>6

\* A file that another route stores and writes to the project was nobody's.
LEMMA CheckoutCustody ==
  ASSUME Typed, InCustody, NEW new \in Files, UploadCheckout(new)
  PROVE  InCustody'
<1> SUFFICES ASSUME NEW file \in Files \ recalled
             PROVE  Custody(file)'
  BY DEF InCustody, UploadCheckout
<1>1. Custody(file)
  BY DEF InCustody
<1>2. \A v \in Users : Holding(v)' = Holding(v)
  BY OthersHold DEF UploadCheckout
<1>3. \A v \in Users : /\ Inherits(v, file)' = Inherits(v, file)
                       /\ Attached(v, file)' = Attached(v, file)
                       /\ Uploading(v, file)' = Uploading(v, file)
                       /\ Condemned(v, file)' = Condemned(v, file)
  BY <1>2 DEF UploadCheckout, Inherits, Attached, Uploading, Condemned
<1>4. \A v \in Users : Owns(v, file)' => Owns(v, file) /\ OwnedOnce(v, file)'
  BY <1>1, <1>3 DEF Owns, OwnedOnce, Custody
<1>5. project'.fields[Document] = new
  <2>1. project.fields \in Contents
    BY DEF Typed, Projects
  <2> QED BY <2>1, ContentsFields DEF UploadCheckout, Fields
<1>6. file \in Offered' => file = new \/ file \in Offered
  BY <1>5 DEF UploadCheckout, Offered, Resumable
<1>7. CASE file = new
  <2>1. files[file].state = "FREE" /\ files'[file].state = "KEPT"
    BY <1>7 DEF UploadCheckout, Typed, StoredFiles
  <2>2. \A v \in Users : ~Owns(v, file)
    BY <1>1, <2>1 DEF Custody
  <2> QED BY <1>4, <2>1, <2>2 DEF Custody
<1>8. CASE file # new
  <2>1. files'[file] = files[file]
    BY <1>8 DEF UploadCheckout, Typed, StoredFiles
  <2> QED BY <1>1, <1>3, <1>4, <1>6, <1>8, <2>1, CustodyStays
<1> QED BY <1>7, <1>8

\* The steps of one user.
LEMMA EditCustody ==
  ASSUME Typed, InCustody, NEW u \in Users, Edit(u)
  PROVE  InCustody'
<1>0. ASSUME UNCHANGED <<project, request>> PROVE Offered' = Offered
  BY <1>0 DEF Offered, Resumable
<1>1. CASE Acquire(u)
  BY <1>0, <1>1, CustodyUntouched DEF Acquire
<1>2. CASE Open(u)
  <2>1. Holding(u)' = InheritedAttachment /\ \A v \in Users \ {u} : Holding(v)' = Holding(v)
    <3>1. PICK save \in Saves : /\ Turned(u, "ACTIVE", Seed, save)
                                /\ save.attachment = InheritedAttachment
      BY <1>2, OpenTurns
    <3> QED BY <3>1, TurnedHolds
  <2>2. \/ Holding(u)' = NoAttachment
        \/ \E file \in Offered : Holding(u)' = [file |-> file, inherited |-> TRUE]
    BY <2>1, InheritedOffered
  <2>3. UNCHANGED <<files, uploads, cleanups>> /\ recalled' = recalled /\ Offered' = Offered
    BY <1>0, <1>2 DEF Open
  <2> QED BY <2>1, <2>2, <2>3, HoldingChanged
<1>3. CASE Rebase(u)
  <2>1. Holding(u)' = Holding(u) /\ \A v \in Users \ {u} : Holding(v)' = Holding(v)
    <3>1. PICK save \in Saves : /\ Turned(u, "ACTIVE", Seed, save)
                                /\ save.attachment = Now(u).attachment
      BY <1>3, RebaseTurns
    <3> QED BY <1>3, <3>1, TurnedHolds DEF Rebase, Editing, Holding, Active
  <2>2. UNCHANGED <<files, uploads, cleanups>> /\ recalled' = recalled /\ Offered' = Offered
    BY <1>0, <1>3 DEF Rebase
  <2> QED BY <2>1, <2>2, HoldingChanged
<1>4. CASE Submit(u)
  BY <1>4, SubmitCustody
<1>5. CASE Withdraw(u)
  <2>1. Holding(u)' = InheritedAttachment /\ \A v \in Users \ {u} : Holding(v)' = Holding(v)
    <3>1. PICK save \in Saves : /\ Turned(u, "ACTIVE", project.fields, save)
                                /\ save.attachment = InheritedAttachment
      BY <1>5, WithdrawTurns
    <3> QED BY <3>1, TurnedHolds
  <2>2. \/ Holding(u)' = NoAttachment
        \/ \E file \in Offered : Holding(u)' = [file |-> file, inherited |-> TRUE]
    BY <2>1, InheritedOffered
  <2>3. Offered' \subseteq Offered
    BY <1>5 DEF Withdraw, Offered, Resumable, Typed, Requests
  <2>4. UNCHANGED <<files, uploads, cleanups>> /\ recalled' = recalled
    BY <1>5 DEF Withdraw
  <2> QED BY <2>1, <2>2, <2>3, <2>4, HoldingChanged
<1>6. CASE Attach(u)
  BY <1>6, AttachCustody
<1>7. CASE AttachFails(u)
  BY <1>7, DeletionCustody
<1>8. CASE RemoveAttachment(u)
  BY <1>8, RemoveCustody
<1>9. ASSUME NEW x \in scenario.fields, NEW v \in Values, Update(u, x, v)
      PROVE  InCustody'
  <2>1. Holding(u)' = Holding(u) /\ \A w \in Users \ {u} : Holding(w)' = Holding(w)
    <3>1. PICK save \in Saves : /\ Turned(u, "ACTIVE", draft[u].snapshot, save)
                                /\ save.attachment = Now(u).attachment
      BY <1>9, ScenarioTyped, UpdateTurns
    <3> QED BY <1>9, <3>1, TurnedHolds DEF Update, Editing, Holding, Active
  <2>2. UNCHANGED <<files, uploads, cleanups>> /\ recalled' = recalled /\ Offered' = Offered
    BY <1>0, <1>9 DEF Update
  <2> QED BY <2>1, <2>2, HoldingChanged
<1>10. ASSUME NEW i \in 1..MaxSaves[u], RestoreHistory(u, i)
       PROVE  InCustody'
  <2>1. Holding(u)'.file \in {None} \cup recalled' /\ \A w \in Users \ {u} : Holding(w)' = Holding(w)
    <3>1. PICK save \in Saves : /\ Turned(u, "ACTIVE", draft[u].snapshot, save)
                                /\ save.attachment.file \in {None} \cup recalled'
      BY <1>10, RestoreTurns
    <3> QED BY <3>1, TurnedHolds
  <2>2. UNCHANGED <<files, uploads, cleanups>> /\ recalled \subseteq recalled' /\ Offered' = Offered
    BY <1>0, <1>10 DEF RestoreHistory
  <2> QED BY <2>1, <2>2, HoldingChanged
<1>11. ASSUME NEW file \in scenario.files, Upload(u, file)
       PROVE  InCustody'
  BY <1>11, ScenarioTyped, UploadCustody
<1>12. ASSUME NEW file \in scenario.files, CleanUp(file, u)
       PROVE  InCustody'
  BY <1>12, ScenarioTyped, DeletionCustody
<1> QED BY <1>1, <1>2, <1>3, <1>4, <1>5, <1>6, <1>7, <1>8, <1>9, <1>10, <1>11, <1>12 DEF Edit

\* The other steps.
LEMMA OthersCustody ==
  ASSUME Typed, InCustody
  PROVE  /\ EndLease \/ Look \/ InspectFiles \/ Approve \/ Reject => InCustody'
         /\ \A x \in Form, v \in Values : WriteProject(x, v) => InCustody'
<1>1. ASSUME EndLease PROVE InCustody'
  <2>1. \A u \in Users : uploads'[u].file = uploads[u].file
    BY <1>1, FencedTyped DEF EndLease
  <2> QED BY <1>1, <2>1, CustodyUntouched DEF EndLease, Offered, Resumable
<1>2. ASSUME Look \/ InspectFiles PROVE InCustody'
  BY <1>2, CustodyUntouched DEF Look, InspectFiles, Offered, Resumable
<1>3. ASSUME Approve PROVE InCustody'
  <2>1. Offered' \subseteq Offered
    BY <1>3 DEF Approve, Decidable, Offered, Resumable, Typed, Requests
  <2> QED BY <1>3, <2>1, CustodyUntouched DEF Approve
<1>4. ASSUME Reject PROVE InCustody'
  <2>1. Offered' \subseteq Offered
    BY <1>4 DEF Reject, Decidable, Offered, Resumable, Typed, Requests
  <2> QED BY <1>4, <2>1, CustodyUntouched DEF Reject
<1>5. ASSUME NEW x \in Form, NEW v \in Values, WriteProject(x, v) PROVE InCustody'
  <2>1. project'.fields[Document] = project.fields[Document]
    <3>1. project.fields \in Contents
      BY DEF Typed, Projects
    <3> QED BY <1>5, <3>1, ContentsFields, ProjectAssumption DEF WriteProject, Fields
  <2>2. Offered' = Offered
    BY <1>5, <2>1 DEF WriteProject, Offered, Resumable
  <2> QED BY <1>5, <2>2, CustodyUntouched DEF WriteProject
<1> QED BY <1>1, <1>2, <1>3, <1>4, <1>5

LEMMA InitCustody ==
  ASSUME Init
  PROVE  InCustody
<1> SUFFICES ASSUME NEW file \in Files
             PROVE  Custody(file)
  BY DEF InCustody
<1>1. file # None
  BY ProjectAssumption
<1>2. Offered = {None}
  BY DEF Init, NoRequest, Offered, Resumable, Initial, Fields
<1>3. \A u \in Users : Holding(u) = NoAttachment /\ uploads[u].file = None
  BY DEF Init, NoDraft, Holding, Active, NoUpload
<1>4. \A u \in Users : ~Inherits(u, file) /\ ~Owns(u, file)
  BY <1>1, <1>3 DEF Init, Inherits, Owns, Uploading, Attached, Condemned, NoAttachment
<1> QED BY <1>1, <1>2, <1>4 DEF Custody

LEMMA NextCustody ==
  ASSUME Typed, InCustody, [Next]_vars
  PROVE  InCustody'
<1>1. CASE UNCHANGED vars
  BY <1>1, CustodyUntouched DEF vars, Offered, Resumable
<1>2. CASE Next
  BY <1>2, EditCustody, OthersCustody, CheckoutCustody, ScenarioTyped DEF Next
<1> QED BY <1>1, <1>2

-----------------------------------------------------------------------------
(* The theorems *)
Inv == Typed /\ Aware /\ InCustody

\* The inductive invariant: types, what everybody knows, and whose each file is.
LEMMA InvAlways == Spec => []Inv
<1>1. Init => Inv
  BY InitTyped, InitAware, InitCustody DEF Inv
<1>2. Inv /\ [Next]_vars => Inv'
  BY NextTyped, NextAware, NextCustody DEF Inv
<1> QED BY <1>1, <1>2, PTL DEF Spec

\* Projects, requests, drafts, files and reviews keep their shape: every save of a draft
\* is a content of the project with a base version, an attachment is none or a file.
THEOREM DraftsKeepTheirTypes == Spec => []TypeOK
<1>1. Inv => TypeOK
  <2> SUFFICES ASSUME Typed PROVE TypeOK
    BY DEF Inv
  <2>1. \A u \in Users : /\ DOMAIN draft[u] = {"status", "snapshot", "saves"}
                         /\ draft[u].status \in {"NONE", "ACTIVE", "SUBMITTED"}
                         /\ draft[u].snapshot \in Contents
    BY DEF Typed, DraftsTyped, Drafts
  <2>2. \A u \in Users : draft[u].saves # <<>> => Now(u) \in Saves
    BY NowTyped
  <2> QED BY <2>1, <2>2 DEF TypeOK, Typed, DraftsTyped, Projects, Requests, Reviews, StoredFiles, Uploads
<1> QED BY <1>1, InvAlways, PTL

\* No file the project or a pending request refers to is deleted, however many drafts
\* replace, remove and inherit files and however late their deletions come; files that a
\* draft took back from its history are excepted.
THEOREM FilesAlwaysStay == Spec => []FilesStay
<1>1. Inv => FilesStay
  <2> SUFFICES ASSUME Inv, NEW file \in InUse \ recalled
               PROVE  files[file].state = "KEPT"
    BY DEF FilesStay
  <2>1. file \in Offered
    BY DEF InUse, Offered, Resumable
  <2>2. file \in Files
    BY ContentsFields DEF InUse, Inv, Typed, Projects, Requests
  <2> QED BY <2>1, <2>2 DEF Inv, InCustody, Custody
<1> QED BY <1>1, InvAlways, PTL

\* Whatever an approval overwrites, its author chose against, in every field that the code
\* did not take over without asking, and what it writes is what the approver looked at.
THEOREM ApprovalsAlwaysInformed == Spec => ApprovalsAreInformed
<1>1. Inv /\ [Next]_vars => [(request.status = "PENDING" /\ request'.status = "APPROVED") =>
        /\ project'.fields = review.proposed
        /\ \A f \in Fields \ request.unasked :
             project'.fields[f] # project.fields[f] => project.fields[f] \in request.seen[f]]_vars
  <2> SUFFICES ASSUME Inv, Next, request.status = "PENDING", request'.status = "APPROVED"
               PROVE  /\ project'.fields = review.proposed
                      /\ \A f \in Fields \ request.unasked : project.fields[f] \in request.seen[f]
    OBVIOUS
  <2>1. Approve
    <3>1. ASSUME NEW u \in Users, Edit(u) PROVE FALSE
      <4>1. request' = request \/ Submit(u) \/ Withdraw(u)
        BY <3>1 DEF Edit, Acquire, Open, Rebase, Attach, AttachFails, RemoveAttachment,
                    Update, RestoreHistory, Upload, CleanUp
      <4>2. ASSUME Submit(u) PROVE FALSE
        BY <4>2 DEF Submit
      <4>3. ASSUME Withdraw(u) PROVE FALSE
        BY <4>3 DEF Withdraw, Inv, Typed, Requests
      <4> QED BY <4>1, <4>2, <4>3
    <3>2. ASSUME Reject PROVE FALSE
      BY <3>2 DEF Reject, Inv, Typed, Requests
    <3>3. ASSUME request' = request PROVE FALSE
      BY <3>3
    <3> QED BY <3>1, <3>2, <3>3 DEF Next, EndLease, Look, InspectFiles, WriteProject, UploadCheckout
  <2>2. project'.fields = request.proposed /\ VersionCurrent(request.base)
    BY <2>1 DEF Approve, Decidable
  <2>3. review.at # "NO" /\ review.token[2] = request.number
    BY <2>1 DEF Approve, Decidable, Token
  <2>4. review.proposed = request.proposed
    BY <2>3 DEF Inv, Aware, Reviewed
  <2>5. \A f \in Fields \ request.unasked : project.fields[f] \in request.seen[f]
    BY <2>2 DEF Inv, Aware, RequestInformed, Informed
  <2> QED BY <2>2, <2>4, <2>5
<1> QED BY <1>1, InvAlways, PTL DEF Spec, ApprovalsAreInformed
=============================================================================
