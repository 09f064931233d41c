----------------------- MODULE ProjectChangeProperties -----------------------
(* What the way from a draft to the project promises to those who write it. *)
EXTENDS ProjectChanges

Contents == {c \in [Fields -> Values \cup Files \cup {None}] :
               /\ \A f \in Form : c[f] \in Values
               /\ c[Document] \in Files \cup {None}}
Attachments == {NoAttachment} \cup [file : Files, inherited : BOOLEAN]
Seen == [Fields -> SUBSET (Values \cup Files \cup {None})]
Saves == [payload : Contents, attachment : Attachments,
          base : 1..MaxVersion, seen : Seen, unasked : SUBSET Fields]
Tokens == (0..MaxVersion) \X (0..MaxRequests) \X {"NONE", "PENDING"}

\* The type of every variable (every save of a draft was its last once).
TypeOK ==
  /\ project \in [version : 1..MaxVersion, fields : Contents]
  /\ request \in [status : {"NONE", "PENDING", "APPROVED", "REJECTED", "WITHDRAWN"},
                  by : Users \cup {None}, number : 0..MaxRequests, base : 0..MaxVersion,
                  before : Contents, proposed : Contents, seen : Seen, unasked : SUBSET Fields]
  /\ \A u \in Users :
       /\ DOMAIN draft[u] = {"status", "snapshot", "saves"}
       /\ draft[u].status \in {"NONE", "ACTIVE", "SUBMITTED"}
       /\ draft[u].snapshot \in Contents
       /\ draft[u].saves # <<>> => Now(u) \in Saves
       /\ Len(draft[u].saves) <= MaxSaves[u]
  /\ lease \in Users \cup {None}
  /\ files \in [Files -> [state : {"FREE", "KEPT", "GONE"}, by : Users \cup {None}]]
  /\ uploads \in [Users -> [file : Files \cup {None}, saves : Nat, fenced : BOOLEAN]]
  /\ cleanups \in SUBSET (Files \X Users)
  /\ review \in [at : {"NO", "LOOKED", "INSPECTED"}, token : Tokens, proposed : Contents]
  /\ recalled \in SUBSET Files /\ scenario \in Scenarios

\* The files the project shows, and those that wait for a decision.
InUse ==
  ({project.fields[Document]} \cup
   IF request.status = "PENDING" THEN {request.proposed[Document]} ELSE {}) \ {None}

\* No file is deleted that the project or a pending request refers to, although drafts
\* replace and remove files, inherit those of requests, and their deletions come late.
\* The exception: a file that a draft took back from its history may be on its way out.
FilesStay == \A file \in InUse \ recalled : files[file].state = "KEPT"

\* An approval is informed on both sides: it writes what the approver looked at, and what
\* it replaces is what the author chose against. Nobody's change in between is undone
\* unseen, except in the fields the code takes over without asking.
ApprovalsAreInformed ==
  [][(request.status = "PENDING" /\ request'.status = "APPROVED") =>
       /\ project'.fields = review.proposed
       /\ \A f \in Fields \ request.unasked :
            project'.fields[f] # project.fields[f] => project.fields[f] \in request.seen[f]]_vars
=============================================================================
