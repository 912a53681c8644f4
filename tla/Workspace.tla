------------------------------- MODULE Workspace -------------------------------
(***************************************************************************)
(* What the members of an organisation keep: notes (slots/example),        *)
(* approval requests (slots/example_with_states) and files (files/), and   *)
(* the task that moves old audit rows to the archive (audit/tasks.py).     *)
(*                                                                         *)
(* An item that is created is named after the request that creates it.     *)
(* The bytes of a file are on a disk, which takes no part in transactions. *)
(***************************************************************************)
EXTENDS Transactions

CONSTANTS Users, Orgs, UserOrg,
          Items,      \* approval requests, notes and files there are at first
          ItemTable, ItemOrg,
          Submitted,  \* approval requests that are submitted at first, not drafts
          OldLogs,    \* audit rows that are older than the retention period
          Workloads   \* what the requests may ask for

Tables    == {"note", "approval", "file"}
Decisions == {"approve", "reject"}
Jobs      == {"create", "edit", "delete", "list", "submit", "download", "sweep"}
                 \cup Decisions

AllItems == Items \cup Requests

ASSUME WorkspaceAssumption ==
    /\ UserOrg \in [Users -> Orgs]
    /\ ItemTable \in [Items -> Tables]
    /\ ItemOrg \in [Items -> Orgs]
    /\ Submitted \subseteq Items
    /\ Items \cap Requests = {}
    /\ OldLogs \cap Requests = {}
    \* permitted: the user's role has the slot's permission.  valid: a file that is
    \* within the limit, a decision with a note.
    /\ Workloads \subseteq
           [Requests -> [job : Jobs, user : Users, table : Tables, item : AllItems,
                         permitted : BOOLEAN, valid : BOOLEAN]]
    /\ \A w \in Workloads, r \in Requests :
          /\ w[r].job = "download" => w[r].table = "file"
          /\ w[r].job = "edit" => w[r].table # "file"
          /\ w[r].job \in {"submit"} \cup Decisions => w[r].table = "approval"

VARIABLES call,   \* what each request asks for
          disk,   \* files whose bytes are on the disk
          stuck,  \* files whose bytes could not be removed from it
          shown,  \* items it has read
          named,  \* the approver of the item that it decides, as it has read it
          loaded  \* audit rows that it has selected for the archive

locals == <<disk, stuck, shown, named, loaded>>

vars == <<pc, db, writes, response, faults, call, locals>>

\* The columns of an item that the code tells apart.
Columns == {"text", "status", "submitted_at", "approver"}

RowIds == (Columns \X AllItems) \cup ({"log", "archive"} \X (OldLogs \cup Requests))

Statuses == {"draft", "submitted", "approved", "rejected"}
Contents == Statuses \cup {"original", "edited", "recorded"} \cup Users

ASSUME WorkspaceContentsAssumption == Absent \notin Contents /\ Untouched \notin Contents

Phases    == {"idle", "begin", "insert", "write", "remove", "select_old", "archive",
              "delete_logs", "audit", "respond", "commit", "done", "failed"}
Responses == {"none", "forbidden", "not_found", "conflict", "unprocessable",
              "too_large", "bad_request", "gone", "error", "success"}

TableOf(i) == IF i \in Items THEN ItemTable[i] ELSE call[i].table
OrgOf(i)   == IF i \in Items THEN ItemOrg[i] ELSE UserOrg[call[i].user]

Exists(i) == db[<<"text", i>>] # Absent
Status(i) == db[<<"status", i>>]

------------------------------------------------------------------------------
Init ==
    /\ InitTransactions([k \in RowIds |->
           CASE k[1] = "text" /\ k[2] \in Items -> "original"
             [] k[1] = "status" /\ k[2] \in Submitted -> "submitted"
             [] k[1] = "status" /\ k[2] \in Items \ Submitted
                  /\ ItemTable[k[2]] = "approval" -> "draft"
             [] k[1] = "submitted_at" /\ k[2] \in Submitted -> "recorded"
             [] k[1] = "log" /\ k[2] \in OldLogs -> "recorded"
             [] OTHER -> Absent])
    /\ call \in Workloads
    /\ disk = {i \in Items : ItemTable[i] = "file"}
    /\ stuck = {}
    /\ shown = [r \in Requests |-> {}]
    /\ named = [r \in Requests |-> Absent]
    /\ loaded = [r \in Requests |-> {}]

Begins(r, jobs) == pc[r] = "begin" /\ call[r].job \in jobs

Refuse(r, answer) == Fail(r, answer) /\ UNCHANGED <<db, faults, call, locals>>

Continue(r, phase) == GoTo(r, phase) /\ UNCHANGED <<db, writes, response, faults, call>>

FlushEach(r, contents, phase) ==
    /\ PutEach(r, contents)
    /\ GoTo(r, phase)
    /\ UNCHANGED <<db, response, faults, call, locals>>

Flush(r, K, content, phase) == FlushEach(r, [k \in K |-> content], phase)

\* requires(...) of the slots; files need a membership only, the task nothing.
Enter(r) ==
    /\ pc[r] = "idle"
    /\ \/ call[r].permitted \/ call[r].table = "file" \/ call[r].job = "sweep"
    /\ Continue(r, "begin")
    /\ UNCHANGED locals

Forbidden(r) ==
    /\ pc[r] = "idle"
    /\ ~call[r].permitted /\ call[r].table # "file" /\ call[r].job # "sweep"
    /\ Refuse(r, "forbidden")

\* The tenant filter of the slots, the organisation in the query of the files.
Visible(r, i) ==
    Exists(i) /\ TableOf(i) = call[r].table /\ OrgOf(i) = UserOrg[call[r].user]

List(r) ==
    /\ Begins(r, {"list"})
    /\ shown' = [shown EXCEPT ![r] = {i \in AllItems : Visible(r, i)}]
    /\ Continue(r, "respond")
    /\ UNCHANGED <<disk, stuck, named, loaded>>

NotFound(r) ==
    /\ Begins(r, Jobs \ {"create", "list", "sweep"})
    /\ ~Visible(r, call[r].item)
    /\ Refuse(r, "not_found")

\* Begins, with an item that is there.
Loads(r, jobs) == Begins(r, jobs) /\ Visible(r, call[r].item)

------------------------------------------------------------------------------
(* Notes and approval requests *)

NewColumns(r) == IF call[r].table = "approval" THEN {"text", "status"} ELSE {"text"}

\* create_note, create_approval_request
Create(r) ==
    /\ Begins(r, {"create"})
    /\ call[r].table # "file"
    /\ FlushEach(r, [k \in NewColumns(r) \X {r} |->
                       IF k[1] = "status" THEN "draft" ELSE "original"], "audit")

\* Mutant: a draft may be decided, too.
AllowedOfDraft(status) ==
    CASE status \in {"draft", "submitted"} -> {"submitted", "approved", "rejected"}
      [] OTHER                             -> {}

\* ALLOWED_TRANSITIONS
Allowed(status) ==
    CASE status = "draft"     -> {"submitted"}
      [] status = "submitted" -> {"approved", "rejected"}
      [] OTHER                -> {}

Target(r) == CASE call[r].job = "submit"  -> "submitted"
               [] call[r].job = "approve" -> "approved"
               [] call[r].job = "reject"  -> "rejected"

\* IllegalTransition
NotAllowed(r) ==
    /\ \/ /\ Loads(r, {"edit"})
          /\ call[r].table = "approval"
          /\ Status(call[r].item) # "draft"
       \/ /\ Loads(r, {"submit"} \cup Decisions)
          /\ Target(r) \notin Allowed(Status(call[r].item))
    /\ Refuse(r, "conflict")

DecisionNoteRequired(r) ==
    /\ Loads(r, Decisions)
    /\ Target(r) \in Allowed(Status(call[r].item))
    /\ ~call[r].valid
    /\ Refuse(r, "unprocessable")

\* A text that is as it should be is not written.
LoadForEdit(r) ==
    /\ Loads(r, {"edit"})
    /\ call[r].table = "note" \/ Status(call[r].item) = "draft"
    /\ Continue(r, IF db[<<"text", call[r].item>>] = "edited" THEN "audit" ELSE "write")
    /\ UNCHANGED locals

LoadForTransition(r) ==
    /\ Loads(r, {"submit"} \cup Decisions)
    /\ Target(r) \in Allowed(Status(call[r].item))
    /\ call[r].job \in Decisions => call[r].valid
    /\ named' = [named EXCEPT ![r] = db[<<"approver", call[r].item>>]]
    /\ Continue(r, "write")
    /\ UNCHANGED <<disk, stuck, shown, loaded>>

\* Mutant: the name of the operation is stored for the status.
ChangesByName(r) ==
    CASE call[r].job = "edit"   -> [text |-> "edited"]
      [] call[r].job = "submit" -> [status |-> "submitted", submitted_at |-> "recorded"]
      [] call[r].job \in Decisions /\ named[r] = call[r].user -> [status |-> call[r].job]
      [] OTHER                  -> [status |-> call[r].job, approver |-> call[r].user]

\* The columns that differ from what the request has loaded.  Who decides a request
\* again, which names him already, leaves the name alone.
Changes(r) ==
    CASE call[r].job = "edit"   -> [text |-> "edited"]
      [] call[r].job = "submit" -> [status |-> "submitted", submitted_at |-> "recorded"]
      [] call[r].job \in Decisions /\ named[r] = call[r].user -> [status |-> Target(r)]
      [] OTHER                  -> [status |-> Target(r), approver |-> call[r].user]

RowFree(r, i) == \A c \in Columns : Free(r, <<c, i>>)

\* StaleDataError, if the row has gone.
Update(r) ==
    /\ pc[r] = "write"
    /\ RowFree(r, call[r].item)
    /\ IF ~Exists(call[r].item) THEN Refuse(r, "error")
       ELSE FlushEach(r, [k \in (DOMAIN Changes(r)) \X {call[r].item} |->
                             Changes(r)[k[1]]], "audit")

LoadForDelete(r) ==
    /\ Loads(r, {"delete"})
    /\ Continue(r, "remove")
    /\ UNCHANGED locals

\* Deleting an approval request is not audited.  A row that has gone is no error.
DeleteRow(r) ==
    /\ pc[r] = "remove"
    /\ call[r].table # "file"
    /\ RowFree(r, call[r].item)
    /\ Flush(r, Columns \X {call[r].item}, Absent,
             IF call[r].table = "approval" THEN "respond" ELSE "audit")

------------------------------------------------------------------------------
(* Files *)

\* FileTooLarge, FileError
NotStored(r) ==
    /\ Begins(r, {"create"})
    /\ call[r].table = "file"
    /\ ~call[r].valid
    /\ \E answer \in {"too_large", "bad_request"} : Refuse(r, answer)

\* write_bytes comes before the row.
WriteBytes(r) ==
    /\ Begins(r, {"create"})
    /\ call[r].table = "file"
    /\ call[r].valid
    /\ disk' = disk \cup {r}
    /\ Continue(r, "insert")
    /\ UNCHANGED <<stuck, shown, named, loaded>>

InsertFile(r) ==
    /\ pc[r] = "insert"
    /\ Flush(r, {<<"text", r>>}, "original", "audit")

Download(r) ==
    /\ Loads(r, {"download"})
    /\ call[r].item \in disk
    /\ shown' = [shown EXCEPT ![r] = {call[r].item}]
    /\ Continue(r, "respond")
    /\ UNCHANGED <<disk, stuck, named, loaded>>

ContentsUnavailable(r) ==
    /\ Loads(r, {"download"})
    /\ call[r].item \notin disk
    /\ Refuse(r, "gone")

\* The bytes go before the deletion of the row is committed.  If they cannot be
\* removed, the request goes on all the same.
RemoveFile(r) ==
    /\ pc[r] = "remove"
    /\ call[r].table = "file"
    /\ RowFree(r, call[r].item)
    /\ Put(r, {<<"text", call[r].item>>}, Absent)
    /\ \/ disk' = disk \ {call[r].item} /\ UNCHANGED stuck
       \/ /\ call[r].item \in disk
          /\ stuck' = stuck \cup {call[r].item}
          /\ UNCHANGED disk
    /\ GoTo(r, "audit")
    /\ UNCHANGED <<db, response, faults, call, shown, named, loaded>>

------------------------------------------------------------------------------
(* The archive *)

Old == {x \in OldLogs : db[<<"log", x>>] # Absent}

\* _move_to_archive: three statements, each with a snapshot of its own.
CountOld(r) ==
    /\ Begins(r, {"sweep"})
    /\ Continue(r, IF Old = {} THEN "respond" ELSE "select_old")
    /\ UNCHANGED locals

SelectOld(r) ==
    /\ pc[r] = "select_old"
    /\ loaded' = [loaded EXCEPT ![r] = Old]
    /\ Continue(r, "archive")
    /\ UNCHANGED <<disk, stuck, shown, named>>

\* A row that another sweep is archiving is waited for, and is a duplicate then.
InsertArchive(r) ==
    /\ pc[r] = "archive"
    /\ \A x \in loaded[r] : Free(r, <<"archive", x>>)
    /\ IF \E x \in loaded[r] : db[<<"archive", x>>] # Absent THEN Refuse(r, "error")
       ELSE Flush(r, {<<"archive", x>> : x \in loaded[r]}, "recorded", "delete_logs")

\* Mutant: the rows that have been archived are left where they are.
KeepLogs(r) ==
    /\ pc[r] = "delete_logs"
    /\ Continue(r, "respond")
    /\ UNCHANGED locals

DeleteLogs(r) ==
    /\ pc[r] = "delete_logs"
    /\ Flush(r, {<<"log", x>> : x \in Old}, Absent, "respond")

------------------------------------------------------------------------------
(* The end of a request *)

Audit(r) ==
    /\ pc[r] = "audit"
    /\ Flush(r, {<<"log", r>>}, "recorded", "respond")

Respond(r) ==
    /\ pc[r] = "respond"
    /\ Answer(r, "commit")
    /\ UNCHANGED <<db, writes, faults, call, locals>>

Commit(r) ==
    /\ pc[r] = "commit"
    /\ CommitRows(r)
    /\ GoTo(r, "done")
    /\ UNCHANGED <<response, faults, call, locals>>

CutOff(r) == Interrupted(r) /\ UNCHANGED <<call, locals>>

------------------------------------------------------------------------------
Slots(r)  == \/ List(r) \/ NotFound(r) \/ Create(r) \/ NotAllowed(r)
             \/ DecisionNoteRequired(r) \/ LoadForEdit(r) \/ LoadForTransition(r)
             \/ Update(r) \/ LoadForDelete(r) \/ DeleteRow(r)
Files(r)  == \/ NotStored(r) \/ WriteBytes(r) \/ InsertFile(r) \/ Download(r)
             \/ ContentsUnavailable(r) \/ RemoveFile(r)
Sweep(r)  == CountOld(r) \/ SelectOld(r) \/ InsertArchive(r) \/ DeleteLogs(r)
Finish(r) == Audit(r) \/ Respond(r) \/ Commit(r) \/ CutOff(r)

Step(r) == Enter(r) \/ Forbidden(r) \/ Slots(r) \/ Files(r) \/ Sweep(r) \/ Finish(r)

Next == \E r \in Requests : Step(r)

Spec == Init /\ [][Next]_vars

------------------------------------------------------------------------------
(* Properties *)

TypeOK ==
    /\ TransactionsTypeOK(RowIds, Contents, Phases, Responses)
    /\ call \in Workloads
    /\ disk \subseteq AllItems
    /\ stuck \subseteq AllItems
    /\ shown \in [Requests -> SUBSET AllItems]
    /\ named \in [Requests -> Contents \cup {Absent}]
    /\ loaded \in [Requests -> SUBSET OldLogs]

\* The requests that have decided an item: with a note, by a member of the
\* organisation it belongs to, and with a row in the audit log.
Deciders(i) ==
    {s \in Requests : /\ call[s].job \in Decisions
                      /\ call[s].item = i
                      /\ call[s].valid
                      /\ UserOrg[call[s].user] = OrgOf(i)
                      /\ db[<<"log", s>>] # Absent}

Submissions(i) ==
    {s \in Requests : /\ call[s].job = "submit"
                      /\ call[s].item = i
                      /\ db[<<"log", s>>] # Absent}

\* A submission that had loaded the draft was late.
SubmittedAgain(i) == \E s, t \in Submissions(i) : s # t

\* Whoever decides, submits, edits and deletes at the same time: the approver an item
\* names has decided it; what reads approved or rejected has been submitted, and
\* somebody asked for just that, the approver it names unless it was submitted twice;
\* what is submitted names an approver in that case only, and a draft never.
DecisionsAreGenuine ==
    \A i \in AllItems :
        /\ db[<<"approver", i>>] # Absent =>
              \E s \in Deciders(i) : call[s].user = db[<<"approver", i>>]
        /\ Status(i) \in {"approved", "rejected"} =>
              /\ db[<<"submitted_at", i>>] # Absent
              /\ db[<<"approver", i>>] # Absent
              /\ \E s \in Deciders(i) :
                    /\ Target(s) = Status(i)
                    /\ call[s].user = db[<<"approver", i>>] \/ SubmittedAgain(i)
        /\ Status(i) = "submitted" /\ db[<<"approver", i>>] # Absent => SubmittedAgain(i)
        /\ Status(i) = "draft" =>
              db[<<"submitted_at", i>>] = Absent /\ db[<<"approver", i>>] = Absent

Removers(i) == {s \in Requests : call[s].job = "delete" /\ call[s].item = i}

\* A file that is listed has its bytes, unless a request that removes it has not
\* come to its end, or has failed; bytes without a row could not be removed, or are
\* an upload's that has not come to its end, or has failed; an old audit row is in
\* the log or in the archive, never in both; what is created is audited; and nobody
\* reads another organisation's items.
NothingLost ==
    /\ \A i \in AllItems : TableOf(i) = "file" =>
          /\ (Exists(i) /\ i \notin disk) => \E s \in Removers(i) : pc[s] # "done"
          /\ (~Exists(i) /\ i \in disk) => i \in stuck \/ (i \in Requests /\ pc[i] # "done")
    /\ \A x \in OldLogs :
          db[<<"log", x>>] = "recorded" <=> db[<<"archive", x>>] = Absent
    /\ \A r \in Requests : Exists(r) => db[<<"log", r>>] # Absent
    /\ \A r \in Requests : \A i \in shown[r] : OrgOf(i) = UserOrg[call[r].user]

\* "APPROVED, REJECTED are TERMINAL": a request that has been decided is not decided
\* otherwise, or opened, again.
FinalIsFinal ==
    [][\A i \in AllItems : Status(i) \in {"approved", "rejected"} =>
            db'[<<"status", i>>] \in {Status(i), Absent}]_vars
==============================================================================
