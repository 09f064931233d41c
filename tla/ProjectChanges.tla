--------------------------- MODULE ProjectChanges ---------------------------
(* How the information of a project is changed: each user drafts a change      *)
(* under the edit lease, submits it as the project's one change request, and   *)
(* the approval of that request writes the project. Other routes write the     *)
(* project meanwhile. One of its fields is a document kept in storage.         *)
EXTENDS Integers, Sequences, SequencesExt

CONSTANTS
  Users, Form, Values,  \* people, ordinary fields of the project, their values
  Files, None,
  Scenarios,            \* bounds: the fields and files a behaviour is about,
  MaxVersion,           \* the versions of the project,
  MaxSaves,             \* the saves of a draft of each user,
  MaxRequests           \* and the submissions

Document == "document"
Fields == Form \cup {Document}
ASSUME ProjectAssumption ==
  /\ Document \notin Form /\ Values # {} /\ None \notin Users \cup Files
  /\ MaxVersion \in Nat \ {0} /\ MaxSaves \in [Users -> Nat \ {0}] /\ MaxRequests \in Nat
  /\ \A s \in Scenarios : s.fields \subseteq Form /\ s.files \subseteq Files

VARIABLES
  project,   \* projects/<project>: version, fields
  request,   \* project_requests/change-<project>
  draft,     \* privateEditDrafts/... of each user: status, base snapshot, and every save
             \* of its generation, of which the last is what the draft holds now
  lease,     \* who holds the edit lease of the project information
  files,     \* storage: what became of each file, and whose draft uploaded it
  uploads,   \* files being attached: stored, not yet in the draft
  cleanups,  \* files to be deleted, and on behalf of whose draft
  review,    \* what the approver is looking at
  recalled,  \* history: files a draft took back from its history
  scenario   \* one of Scenarios

vars == <<project, request, draft, lease, files, uploads, cleanups, review, recalled, scenario>>

NoAttachment == [file |-> None, inherited |-> FALSE]
NoUpload == [file |-> None, saves |-> 0, fenced |-> FALSE]
Initial == [f \in Fields |-> IF f = Document THEN None ELSE CHOOSE v \in Values : TRUE]
NoRequest == [status |-> "NONE", by |-> None, number |-> 0, base |-> 0, before |-> Initial,
              proposed |-> Initial, seen |-> [f \in Fields |-> {}], unasked |-> {}]
NoDraft == [status |-> "NONE", snapshot |-> Initial, saves |-> <<>>]
NoReview == [at |-> "NO", token |-> <<0, 0, "NONE">>, proposed |-> Initial]

Init ==
  /\ project = [version |-> 1, fields |-> Initial]
  /\ request = NoRequest /\ draft = [u \in Users |-> NoDraft]
  /\ lease = None
  /\ files = [f \in Files |-> [state |-> "FREE", by |-> None]]
  /\ uploads = [u \in Users |-> NoUpload] /\ cleanups = {}
  /\ review = NoReview /\ recalled = {}
  /\ scenario \in Scenarios

-----------------------------------------------------------------------------
(* What a draft starts from *)
Resumable == request.status \in {"PENDING", "REJECTED"}
Seed == IF Resumable THEN request.proposed ELSE project.fields
\* Mutant: a request without a document is inherited from, too.
AnyInherited ==
  LET file == request.proposed[Document]
  IN  IF Resumable /\ file # request.before[Document]
      THEN [file |-> file, inherited |-> TRUE] ELSE NoAttachment
\* Mutant: what was inherited counts as one's own.
InheritedAsOwn ==
  LET file == request.proposed[Document]
  IN  IF Resumable /\ file \notin {None, request.before[Document]}
      THEN [file |-> file, inherited |-> FALSE] ELSE NoAttachment
InheritedAttachment ==
  LET file == request.proposed[Document]
  IN  IF Resumable /\ file \notin {None, request.before[Document]}
      THEN [file |-> file, inherited |-> TRUE] ELSE NoAttachment

(* History for the properties. seen: for each field, the values the authors of *)
(* a draft have had before them. unasked: fields whose value was taken over    *)
(* although the project had moved on, without asking anybody.                  *)
SeedSeen == [f \in Fields |-> {Seed[f]} \cup IF Resumable THEN request.seen[f] ELSE {}]
VersionCurrent(base) == base = project.version
TakenOver(base) == IF VersionCurrent(base) THEN {} ELSE Fields
SeedUnasked == IF Resumable THEN request.unasked \cup TakenOver(request.base) ELSE {}

Now(u) == Last(draft[u].saves)
Editing(u) == lease = u /\ draft[u].status = "ACTIVE"
\* What a draft proposes: its own attachment comes before the document in its payload.
Proposal(save) ==
  IF save.attachment = NoAttachment THEN save.payload
  ELSE [save.payload EXCEPT ![Document] = save.attachment.file]
\* The payload once the attachment of a draft is replaced or removed.
Detached(save) ==
  [save.payload EXCEPT ![Document] =
     IF save.payload[Document] = save.attachment.file THEN None ELSE save.payload[Document]]
Save(u, save) ==
  /\ Len(draft[u].saves) < MaxSaves[u]
  /\ draft' = [draft EXCEPT ![u].saves = Append(draft[u].saves, save)]
\* A lease that has ended fences off what was sent under it.
Fenced == [u \in Users |-> [uploads[u] EXCEPT !.fenced = uploads[u] # NoUpload]]

-----------------------------------------------------------------------------
(* The lease, as far as this resource needs it (see EditLease). *)
Acquire(u) ==
  /\ lease = None
  /\ lease' = u
  /\ UNCHANGED <<project, request, draft, files, uploads, cleanups, review, recalled, scenario>>

EndLease ==
  /\ lease # None
  /\ lease' = None /\ uploads' = Fenced
  /\ UNCHANGED <<project, request, draft, files, cleanups, review, recalled, scenario>>

-----------------------------------------------------------------------------
(* The draft *)
Open(u) ==
  /\ lease = u /\ draft[u].status # "ACTIVE"
  /\ draft' = [draft EXCEPT ![u] =
       [status |-> "ACTIVE", snapshot |-> Seed,
        saves |-> <<[payload |-> Seed, attachment |-> InheritedAttachment,
                     base |-> project.version, seen |-> SeedSeen, unasked |-> SeedUnasked]>>]]
  /\ UNCHANGED <<project, request, lease, files, uploads, cleanups, review, recalled, scenario>>

Update(u, f, v) ==
  /\ Editing(u) /\ Now(u).payload[f] # v
  /\ Save(u, [Now(u) EXCEPT !.payload[f] = v])
  /\ UNCHANGED <<project, request, lease, files, uploads, cleanups, review, recalled, scenario>>

\* The three-way merge: mine is the draft, base what it started from, theirs what a draft
\* opened now would start from. The owner decides about the conflicts.
Conflicts(mine, base, theirs) ==
  {f \in Fields : mine[f] # theirs[f] /\ mine[f] # base[f] /\ theirs[f] # base[f]}
\* Mutant: the draft is right unless it conflicts.
MineUnlessAsked(mine, base, theirs, choice) ==
  [f \in Fields |->
     IF f \in Conflicts(mine, base, theirs) /\ choice[f] = "THEIRS" THEN theirs[f] ELSE mine[f]]
Merged(mine, base, theirs, choice) ==
  [f \in Fields |->
     IF f \in Conflicts(mine, base, theirs)
     THEN IF choice[f] = "THEIRS" THEN theirs[f] ELSE mine[f]
     ELSE IF mine[f] = base[f] THEN theirs[f] ELSE mine[f]]

\* A merge (or a return in history) that changes nothing would only save the same again.
Rebase(u) ==
  /\ Editing(u)
  /\ LET mine == Now(u).payload
         base == draft[u].snapshot
         asked == Conflicts(mine, base, Seed)
     IN /\ <<Now(u).base, base>> # <<project.version, Seed>>
        /\ \E choice \in [asked -> {"MINE", "THEIRS"}] :
          LET next == [Now(u) EXCEPT !.payload = Merged(mine, base, Seed, choice),
                                     !.base = project.version]
              decided == {f \in Fields : \/ Proposal(next)[f] = Seed[f]
                                         \/ f \in asked /\ choice[f] = "MINE"}
              kept == {f \in {Document} : next.attachment # NoAttachment /\ Seed[f] # base[f]}
              \* The merge compared with the proposal of a request, not with the project.
              hidden == {f \in Fields : ~VersionCurrent(Now(u).base) /\ Seed[f] # project.fields[f]}
          IN /\ Len(draft[u].saves) < MaxSaves[u]
             /\ draft' = [draft EXCEPT ![u].snapshot = Seed, ![u].saves = Append(draft[u].saves,
                  [next EXCEPT
                     !.seen = [f \in Fields |-> IF f \in decided THEN SeedSeen[f] ELSE Now(u).seen[f]],
                     !.unasked = SeedUnasked \cup ((Now(u).unasked \cup kept \cup hidden) \ decided)])]
  /\ UNCHANGED <<project, request, lease, files, uploads, cleanups, review, recalled, scenario>>

\* An earlier save of the same generation becomes the draft's content. The version the
\* draft is based on stays as it is. Every file must still be there, and be one's own,
\* published, or inherited.
MayRestore(u, save, file) ==
  /\ files[file].state = "KEPT"
  /\ \/ files[file].by = u
     \/ project.fields[Document] = file
     \/ save.attachment = [file |-> file, inherited |-> TRUE]
FilesOf(save) == {save.attachment.file, save.payload[Document]} \ {None}
RestoreHistory(u, i) ==
  /\ Editing(u) /\ i \in DOMAIN draft[u].saves
  /\ <<draft[u].saves[i].payload, draft[u].saves[i].attachment>> # <<Now(u).payload, Now(u).attachment>>
  /\ LET save == draft[u].saves[i]
     IN /\ \A file \in FilesOf(save) : MayRestore(u, save, file)
        /\ Save(u, [Now(u) EXCEPT !.payload = save.payload, !.attachment = save.attachment,
                                  !.unasked = Now(u).unasked \cup
                                    (IF save.base = Now(u).base THEN {} ELSE Fields)])
        /\ recalled' = recalled \cup FilesOf(save)
  /\ UNCHANGED <<project, request, lease, files, uploads, cleanups, review, scenario>>

-----------------------------------------------------------------------------
(* Attachments: stored first, then written into the draft *)
Upload(u, file) ==
  /\ Editing(u) /\ uploads[u] = NoUpload /\ files[file].state = "FREE"
  /\ files' = [files EXCEPT ![file] = [state |-> "KEPT", by |-> u]]
  /\ uploads' = [uploads EXCEPT ![u] =
       [file |-> file, saves |-> Len(draft[u].saves), fenced |-> FALSE]]
  /\ UNCHANGED <<project, request, draft, lease, cleanups, review, recalled, scenario>>

\* Whoever takes an attachment out of a draft deletes its file, unless it was inherited
\* from a request.
Discarded(u) ==
  LET attached == Now(u).attachment
  IN  IF attached.file = None \/ attached.inherited THEN {} ELSE {<<attached.file, u>>}

Attach(u) ==
  /\ uploads[u] # NoUpload /\ ~uploads[u].fenced
  /\ Editing(u) /\ Len(draft[u].saves) = uploads[u].saves
  /\ Save(u, [Now(u) EXCEPT !.payload = Detached(Now(u)),
                            !.attachment = [file |-> uploads[u].file, inherited |-> FALSE]])
  /\ cleanups' = cleanups \cup Discarded(u)
  /\ uploads' = [uploads EXCEPT ![u] = NoUpload]
  /\ UNCHANGED <<project, request, lease, files, review, recalled, scenario>>

\* The draft went on meanwhile, or the lease has ended: the new file is deleted.
AttachFails(u) ==
  /\ uploads[u] # NoUpload
  /\ uploads[u].fenced \/ ~Editing(u) \/ Len(draft[u].saves) # uploads[u].saves
  /\ files' = [files EXCEPT ![uploads[u].file].state = "GONE"]
  /\ uploads' = [uploads EXCEPT ![u] = NoUpload]
  /\ UNCHANGED <<project, request, draft, lease, cleanups, review, recalled, scenario>>

RemoveAttachment(u) ==
  /\ Editing(u) /\ Now(u).attachment # NoAttachment
  /\ Save(u, [Now(u) EXCEPT !.payload = Detached(Now(u)), !.attachment = NoAttachment])
  /\ cleanups' = cleanups \cup Discarded(u)
  /\ UNCHANGED <<project, request, lease, files, uploads, review, recalled, scenario>>

\* Right after the transaction, or by the event it left. Storage refuses the files of
\* another draft.
CleanUp(file, u) ==
  /\ <<file, u>> \in cleanups
  /\ cleanups' = cleanups \ {<<file, u>>}
  /\ files' = IF files[file].by = u THEN [files EXCEPT ![file].state = "GONE"] ELSE files
  /\ UNCHANGED <<project, request, draft, lease, uploads, review, recalled, scenario>>

-----------------------------------------------------------------------------
(* The request *)
Trusted(save) ==
  \/ save.attachment # NoAttachment
  \/ save.payload[Document] \in {None, project.fields[Document]}
  \/ Resumable /\ save.payload[Document] = request.proposed[Document]

\* The draft replaces whatever request there is, and keeps no content.
Submit(u) ==
  /\ Editing(u) /\ VersionCurrent(Now(u).base) /\ request.number < MaxRequests
  /\ Now(u).attachment # NoAttachment => files[Now(u).attachment.file].state = "KEPT"
  /\ Trusted(Now(u))
  /\ request' = [status |-> "PENDING", by |-> u, number |-> request.number + 1,
                 base |-> project.version, before |-> project.fields,
                 proposed |-> Proposal(Now(u)), seen |-> Now(u).seen, unasked |-> Now(u).unasked]
  /\ Len(draft[u].saves) < MaxSaves[u]
  /\ draft' = [draft EXCEPT ![u] = [status |-> "SUBMITTED", snapshot |-> Initial,
                                    saves |-> Append(draft[u].saves, Now(u))]]
  /\ lease' = None /\ uploads' = Fenced
  /\ UNCHANGED <<project, files, cleanups, review, recalled, scenario>>

\* The owner takes a pending request back. Its content replaces that of the draft,
\* whatever the draft is, and counts as based on the present version.
Withdraw(u) ==
  /\ lease = u /\ draft[u] # NoDraft
  /\ request.status = "PENDING" /\ request.by = u
  /\ request' = [request EXCEPT !.status = "WITHDRAWN"]
  /\ Len(draft[u].saves) < MaxSaves[u]
  /\ draft' = [draft EXCEPT ![u] =
       [status |-> "ACTIVE", snapshot |-> project.fields,
        saves |-> Append(draft[u].saves,
          [payload |-> request.proposed, attachment |-> InheritedAttachment,
           base |-> project.version, seen |-> request.seen, unasked |-> SeedUnasked])]]
  /\ UNCHANGED <<project, lease, files, uploads, cleanups, review, recalled, scenario>>

-----------------------------------------------------------------------------
(* The decision. The token is a digest of the project and the request. *)
Token == <<project.version, request.number, request.status>>
Look ==
  /\ request.status = "PENDING" /\ review.token # Token
  /\ review' = [at |-> "LOOKED", token |-> Token, proposed |-> request.proposed]
  /\ UNCHANGED <<project, request, draft, lease, files, uploads, cleanups, recalled, scenario>>

\* Before the transaction of an approval: the files of the request are in storage.
InspectFiles ==
  /\ review.at = "LOOKED"
  /\ \A file \in {request.proposed[Document]} \ {None} : files[file].state = "KEPT"
  /\ review' = [review EXCEPT !.at = "INSPECTED"]
  /\ UNCHANGED <<project, request, draft, lease, files, uploads, cleanups, recalled, scenario>>

Decidable == request.status = "PENDING" /\ VersionCurrent(request.base) /\ review.token = Token

Approve ==
  /\ review.at = "INSPECTED" /\ Decidable /\ project.version < MaxVersion
  /\ project' = [version |-> project.version + 1, fields |-> request.proposed]
  /\ request' = [request EXCEPT !.status = "APPROVED"]
  /\ review' = NoReview
  /\ UNCHANGED <<draft, lease, files, uploads, cleanups, recalled, scenario>>

Reject ==
  /\ review.at = "LOOKED" /\ Decidable
  /\ request' = [request EXCEPT !.status = "REJECTED"]
  /\ review' = NoReview
  /\ UNCHANGED <<project, draft, lease, files, uploads, cleanups, recalled, scenario>>

-----------------------------------------------------------------------------
(* Other routes that write the project *)
WriteProject(f, v) ==
  /\ project.version < MaxVersion /\ project.fields[f] # v
  /\ project' = [version |-> project.version + 1, fields |-> [project.fields EXCEPT ![f] = v]]
  /\ UNCHANGED <<request, draft, lease, files, uploads, cleanups, review, recalled, scenario>>

\* The file is stored, then written to the project; nobody knows it in between.
UploadCheckout(file) ==
  /\ project.version < MaxVersion /\ files[file].state = "FREE"
  /\ files' = [files EXCEPT ![file] = [state |-> "KEPT", by |-> None]]
  /\ project' = [version |-> project.version + 1,
                 fields |-> [project.fields EXCEPT ![Document] = file]]
  /\ UNCHANGED <<request, draft, lease, uploads, cleanups, review, recalled, scenario>>

Edit(u) ==
  \/ Acquire(u) \/ Open(u) \/ Rebase(u) \/ Submit(u) \/ Withdraw(u)
  \/ Attach(u) \/ AttachFails(u) \/ RemoveAttachment(u)
  \/ \E f \in scenario.fields, v \in Values : Update(u, f, v)
  \/ \E i \in 1..MaxSaves[u] : RestoreHistory(u, i)
  \/ \E file \in scenario.files : Upload(u, file) \/ CleanUp(file, u)

Next ==
  \/ \E u \in Users : Edit(u)
  \/ EndLease \/ Look \/ InspectFiles \/ Approve \/ Reject
  \/ \E f \in scenario.fields, v \in Values : WriteProject(f, v)
  \/ \E file \in scenario.files : UploadCheckout(file)

Spec == Init /\ [][Next]_vars
=============================================================================
