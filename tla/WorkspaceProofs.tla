---------------------------- MODULE WorkspaceProofs ----------------------------
(***************************************************************************)
(* Proofs about Workspace, for every set of requests, users, organisations *)
(* and items, every workload and any number of faults.                     *)
(***************************************************************************)
EXTENDS Workspace, TLAPS

\* The rows there are.
LEMMA RowsThereAre ==
    /\ \A c \in Columns, i \in AllItems : <<c, i>> \in RowIds
    /\ \A x \in OldLogs \cup Requests : <<"log", x>> \in RowIds /\ <<"archive", x>> \in RowIds
    /\ "log" \notin Columns /\ "archive" \notin Columns
    /\ \A r \in Requests : r \in AllItems
BY DEF RowIds, Columns, AllItems

\* What the assumption on Workloads says of a request.
LEMMA CallType ==
    ASSUME TypeOK, NEW r \in Requests
    PROVE  /\ call[r].job \in Jobs
           /\ call[r].user \in Users
           /\ call[r].table \in Tables
           /\ call[r].item \in AllItems
           /\ call[r].valid \in BOOLEAN
           /\ call[r].permitted \in BOOLEAN
           /\ call[r].job = "download" => call[r].table = "file"
           /\ call[r].job = "edit" => call[r].table # "file"
           /\ call[r].job \in {"submit"} \cup Decisions => call[r].table = "approval"
BY WorkspaceAssumption DEF TypeOK

\* The types that a step can disturb beside those of its locals.
SharedTypes == TransactionsTypeOK(RowIds, Contents, Phases, Responses) /\ call \in Workloads

LEMMA RefuseTypes ==
    ASSUME TypeOK, NEW r \in Requests, NEW answer \in Responses, Refuse(r, answer)
    PROVE  TypeOK'
<1>1. writes' \in [Requests -> [RowIds -> Contents \cup {Absent, Untouched}]]
  BY DEF Refuse, Fail, NoWrites, Rows, TypeOK, TransactionsTypeOK
<1> QED BY <1>1 DEF Refuse, Fail, GoTo, locals, TypeOK, TransactionsTypeOK, Phases

LEMMA ContinueTypes ==
    ASSUME TypeOK, NEW r \in Requests, NEW phase \in Phases, Continue(r, phase)
    PROVE  SharedTypes'
BY DEF Continue, GoTo, SharedTypes, TypeOK, TransactionsTypeOK

\* The sets of phases and answers that the actions name.
LEMMA Names ==
    /\ {"begin", "insert", "write", "remove", "select_old", "archive", "delete_logs",
        "audit", "respond", "commit", "done", "failed"} \subseteq Phases
    /\ {"forbidden", "not_found", "conflict", "unprocessable", "too_large", "bad_request",
        "gone", "error", "success"} \subseteq Responses
BY DEF Phases, Responses

\* What a writing step changes are some rows of its own session.
SessionTypes == writes \in [Requests -> [RowIds -> Contents \cup {Absent, Untouched}]]

LEMMA CreateWrites ==
    ASSUME TypeOK, NEW r \in Requests, Create(r)
    PROVE  /\ SessionTypes'
           /\ \A t \in Requests, k \in RowIds :
                 writes'[t][k] = IF t = r /\ k \in NewColumns(r) \X {r}
                                 THEN IF k[1] = "status" THEN "draft" ELSE "original"
                                 ELSE writes[t][k]
<1>1. /\ DOMAIN db = RowIds
      /\ SessionTypes
      /\ {"original", "draft"} \subseteq Contents
  BY DEF TypeOK, TransactionsTypeOK, SessionTypes, Contents, Statuses
<1> QED BY <1>1 DEF Create, FlushEach, PutEach, Rows, SessionTypes

LEMMA UpdateWrites ==
    ASSUME TypeOK, NEW r \in Requests, Update(r), Exists(call[r].item),
           call[r].job \in {"edit", "submit"} \cup Decisions
    PROVE  /\ SessionTypes'
           /\ \A t \in Requests, k \in RowIds :
                 writes'[t][k] = IF t = r /\ k \in (DOMAIN Changes(r)) \X {call[r].item}
                                 THEN Changes(r)[k[1]] ELSE writes[t][k]
<1>1. /\ DOMAIN db = RowIds
      /\ SessionTypes
  BY DEF TypeOK, TransactionsTypeOK, SessionTypes
<1>2. \A c \in DOMAIN Changes(r) : Changes(r)[c] \in Contents
  <2>1. CASE call[r].job = "edit"
    BY <2>1 DEF Changes, Contents, Decisions
  <2>2. CASE call[r].job = "submit"
    BY <2>2 DEF Changes, Contents, Statuses, Decisions
  <2>3. CASE call[r].job \in Decisions
    <3>1. \/ Changes(r) = [status |-> Target(r), approver |-> call[r].user]
          \/ Changes(r) = [status |-> Target(r)]
      BY <2>3 DEF Changes, Decisions
    <3>2. Target(r) \in Contents
      BY <2>3 DEF Target, Decisions, Contents, Statuses
    <3> QED BY <3>1, <3>2, CallType DEF Contents
  <2> QED BY <2>1, <2>2, <2>3
<1>3. \A k \in (DOMAIN Changes(r)) \X {call[r].item} : k[1] \in DOMAIN Changes(r)
  OBVIOUS
<1> DEFINE K == (DOMAIN Changes(r)) \X {call[r].item}
           Now == [k \in RowIds |-> IF k \in K THEN Changes(r)[k[1]] ELSE writes[r][k]]
<1>4. writes' = [writes EXCEPT ![r] = Now]
  BY <1>1 DEF Update, FlushEach, PutEach, Rows
<1>5. Now \in [RowIds -> Contents \cup {Absent, Untouched}]
  BY <1>1, <1>2, <1>3 DEF SessionTypes
<1> QED BY <1>1, <1>4, <1>5 DEF SessionTypes

LEMMA DeleteWrites ==
    ASSUME TypeOK, NEW r \in Requests, DeleteRow(r)
    PROVE  /\ SessionTypes'
           /\ \A t \in Requests, k \in RowIds :
                 writes'[t][k] = IF t = r /\ k \in Columns \X {call[r].item} THEN Absent
                                 ELSE writes[t][k]
<1>1. DOMAIN db = RowIds /\ SessionTypes
  BY DEF TypeOK, TransactionsTypeOK, SessionTypes
<1> QED BY <1>1 DEF DeleteRow, Flush, FlushEach, PutEach, Rows, SessionTypes

LEMMA InsertFileWrites ==
    ASSUME TypeOK, NEW r \in Requests, InsertFile(r)
    PROVE  /\ SessionTypes'
           /\ \A t \in Requests, k \in RowIds :
                 writes'[t][k] = IF t = r /\ k = <<"text", r>> THEN "original"
                                 ELSE writes[t][k]
<1>1. DOMAIN db = RowIds /\ SessionTypes /\ "original" \in Contents
  BY DEF TypeOK, TransactionsTypeOK, SessionTypes, Contents
<1> QED BY <1>1 DEF InsertFile, Flush, FlushEach, PutEach, Rows, SessionTypes

LEMMA RemoveFileWrites ==
    ASSUME TypeOK, NEW r \in Requests, RemoveFile(r)
    PROVE  /\ SessionTypes'
           /\ \A t \in Requests, k \in RowIds :
                 writes'[t][k] = IF t = r /\ k = <<"text", call[r].item>> THEN Absent
                                 ELSE writes[t][k]
<1>1. DOMAIN db = RowIds /\ SessionTypes
  BY DEF TypeOK, TransactionsTypeOK, SessionTypes
<1> QED BY <1>1 DEF RemoveFile, Put, PutEach, Rows, SessionTypes

LEMMA InsertArchiveWrites ==
    ASSUME TypeOK, NEW r \in Requests, InsertArchive(r),
           \A x \in loaded[r] : db[<<"archive", x>>] = Absent
    PROVE  /\ SessionTypes'
           /\ \A t \in Requests, k \in RowIds :
                 writes'[t][k] = IF t = r /\ k \in {<<"archive", x>> : x \in loaded[r]}
                                 THEN "recorded" ELSE writes[t][k]
<1>1. DOMAIN db = RowIds /\ SessionTypes /\ "recorded" \in Contents
  BY DEF TypeOK, TransactionsTypeOK, SessionTypes, Contents
<1>2. Flush(r, {<<"archive", x>> : x \in loaded[r]}, "recorded", "delete_logs")
  BY DEF InsertArchive
<1> QED BY <1>1, <1>2 DEF Flush, FlushEach, PutEach, Rows, SessionTypes

LEMMA DeleteLogsWrites ==
    ASSUME TypeOK, NEW r \in Requests, DeleteLogs(r)
    PROVE  /\ SessionTypes'
           /\ \A t \in Requests, k \in RowIds :
                 writes'[t][k] = IF t = r /\ k \in {<<"log", x>> : x \in Old} THEN Absent
                                 ELSE writes[t][k]
<1>1. DOMAIN db = RowIds /\ SessionTypes
  BY DEF TypeOK, TransactionsTypeOK, SessionTypes
<1> QED BY <1>1 DEF DeleteLogs, Flush, FlushEach, PutEach, Rows, SessionTypes

LEMMA AuditWrites ==
    ASSUME TypeOK, NEW r \in Requests, Audit(r)
    PROVE  /\ SessionTypes'
           /\ \A t \in Requests, k \in RowIds :
                 writes'[t][k] = IF t = r /\ k = <<"log", r>> THEN "recorded"
                                 ELSE writes[t][k]
<1>1. DOMAIN db = RowIds /\ SessionTypes /\ "recorded" \in Contents
  BY DEF TypeOK, TransactionsTypeOK, SessionTypes, Contents
<1> QED BY <1>1 DEF Audit, Flush, FlushEach, PutEach, Rows, SessionTypes

\* A session that ends has written nothing.
LEMMA FailWrites ==
    ASSUME TypeOK, NEW r \in Requests, writes' = [writes EXCEPT ![r] = NoWrites]
    PROVE  /\ SessionTypes'
           /\ \A t \in Requests, k \in RowIds :
                 writes'[t][k] = IF t = r THEN Untouched ELSE writes[t][k]
<1>1. DOMAIN db = RowIds /\ SessionTypes
  BY DEF TypeOK, TransactionsTypeOK, SessionTypes
<1>2. [k \in RowIds |-> Untouched] \in [RowIds -> Contents \cup {Absent, Untouched}]
  OBVIOUS
<1> QED BY <1>1, <1>2 DEF NoWrites, Rows, SessionTypes

\* A commit makes of each row what the session has made of it.
LEMMA CommitShows ==
    ASSUME TypeOK, NEW r \in Requests, Commit(r)
    PROVE  /\ db' \in [RowIds -> Contents \cup {Absent}]
           /\ SessionTypes'
           /\ \A k \in RowIds : db'[k] = IF Holds(r, k) THEN writes[r][k] ELSE db[k]
           /\ \A t \in Requests, k \in RowIds :
                 writes'[t][k] = IF t = r THEN Untouched ELSE writes[t][k]
<1>1. /\ DOMAIN db = RowIds
      /\ db \in [RowIds -> Contents \cup {Absent}]
      /\ writes \in [Requests -> [RowIds -> Contents \cup {Absent, Untouched}]]
  BY DEF TypeOK, TransactionsTypeOK
<1>2. Untouched \notin Contents \cup {Absent}
  BY TransactionsAssumption, WorkspaceContentsAssumption
<1>3. \A k \in RowIds : Read(r, k) \in Contents \cup {Absent}
  BY <1>1, <1>2 DEF Read, Holds
<1>4. db' = [k \in RowIds |-> Read(r, k)]
  BY <1>1 DEF Commit, CommitRows, Rows
<1>5. db' \in [RowIds -> Contents \cup {Absent}]
  BY <1>3, <1>4
<1>6. \A k \in RowIds : db'[k] = IF Holds(r, k) THEN writes[r][k] ELSE db[k]
  BY <1>4 DEF Read
<1>7. writes' = [writes EXCEPT ![r] = NoWrites]
  BY DEF Commit, CommitRows
<1> QED BY <1>5, <1>6, <1>7, FailWrites

------------------------------------------------------------------------------
(* Types *)

\* What a request that stands somewhere has been asked for.
Stages ==
    \A r \in Requests :
        /\ pc[r] = "write" => /\ call[r].job \in {"edit", "submit"} \cup Decisions
                              /\ call[r].table # "file"
        /\ pc[r] = "remove" => call[r].job = "delete"
        /\ pc[r] = "insert" => call[r].job = "create" /\ call[r].table = "file"
        /\ pc[r] \in {"select_old", "archive", "delete_logs"} => call[r].job = "sweep"
        /\ pc[r] = "audit" =>
              call[r].job \in {"create", "edit", "delete", "submit"} \cup Decisions

\* A step of a request is a step of no other one.
LEMMA StepIsLocal ==
    ASSUME TypeOK, NEW r \in Requests, Step(r)
    PROVE  /\ call' = call
           /\ \A t \in Requests \ {r} : /\ pc'[t] = pc[t]
                                        /\ response'[t] = response[t]
                                        /\ shown'[t] = shown[t]
                                        /\ named'[t] = named[t]
                                        /\ loaded'[t] = loaded[t]
<1>1. /\ pc \in [Requests -> Phases]
      /\ response \in [Requests -> Responses]
      /\ shown \in [Requests -> SUBSET AllItems]
      /\ named \in [Requests -> Contents \cup {Absent}]
      /\ loaded \in [Requests -> SUBSET OldLogs]
  BY DEF TypeOK, TransactionsTypeOK
<1> USE DEF GoTo, Fail, Refuse, Continue, FlushEach, Flush, locals
<1>2. CASE Enter(r) \/ Forbidden(r)
  BY <1>1, <1>2 DEF Enter, Forbidden
<1>3. CASE Slots(r)
  BY <1>1, <1>3 DEF Slots, List, NotFound, Create, NotAllowed, DecisionNoteRequired,
                    LoadForEdit, LoadForTransition, Update, LoadForDelete, DeleteRow
<1>4. CASE Files(r)
  BY <1>1, <1>4 DEF Files, NotStored, WriteBytes, InsertFile, Download,
                    ContentsUnavailable, RemoveFile
<1>5. CASE Sweep(r)
  BY <1>1, <1>5 DEF Sweep, CountOld, SelectOld, InsertArchive, DeleteLogs
<1>6. CASE Finish(r)
  BY <1>1, <1>6 DEF Finish, Audit, Respond, Answer, Commit, CutOff, Interrupted
<1> QED BY <1>2, <1>3, <1>4, <1>5, <1>6 DEF Step

LEMMA StagesStep ==
    ASSUME TypeOK, Stages, NEW r \in Requests, Step(r)
    PROVE  Stages'
<1>1. pc \in [Requests -> Phases]
  BY DEF TypeOK, TransactionsTypeOK
<1> DEFINE Stage == /\ pc[r] = "write" => /\ call[r].job \in {"edit", "submit"} \cup Decisions
                                          /\ call[r].table # "file"
                    /\ pc[r] = "remove" => call[r].job = "delete"
                    /\ pc[r] = "insert" => call[r].job = "create" /\ call[r].table = "file"
                    /\ pc[r] \in {"select_old", "archive", "delete_logs"} =>
                          call[r].job = "sweep"
                    /\ pc[r] = "audit" =>
                          call[r].job \in {"create", "edit", "delete", "submit"} \cup Decisions
<1>2. Stage
  BY DEF Stages
<1>3. call' = call
  BY StepIsLocal
<1>4. Stage'
  <2> USE DEF GoTo, Fail, Refuse, Continue, FlushEach, Flush
  <2>2. CASE Enter(r) \/ Forbidden(r)
    BY <1>1, <1>3, <2>2 DEF Enter, Forbidden
  <2>3. CASE Slots(r)
    <3>1. call[r].table \in Tables /\ (call[r].job = "edit" => call[r].table # "file")
          /\ (call[r].job \in {"submit"} \cup Decisions => call[r].table = "approval")
      BY CallType
    <3> QED BY <1>1, <1>2, <1>3, <2>3, <3>1
         DEF Slots, List, NotFound, Create, NotAllowed, DecisionNoteRequired, LoadForEdit,
             LoadForTransition, Update, LoadForDelete, DeleteRow, Loads, Begins, Decisions
  <2>4. CASE Files(r)
    BY <1>1, <1>2, <1>3, <2>4
       DEF Files, NotStored, WriteBytes, InsertFile, Download, ContentsUnavailable,
           RemoveFile, Loads, Begins
  <2>5. CASE Sweep(r)
    BY <1>1, <1>2, <1>3, <2>5
       DEF Sweep, CountOld, SelectOld, InsertArchive, DeleteLogs, Begins
  <2>6. CASE Finish(r)
    BY <1>1, <1>3, <2>6 DEF Finish, Audit, Respond, Answer, Commit, CutOff, Interrupted
  <2> QED BY <2>2, <2>3, <2>4, <2>5, <2>6 DEF Step
<1>5. \A t \in Requests \ {r} : pc'[t] = pc[t]
  BY StepIsLocal
<1> QED BY <1>3, <1>4, <1>5 DEF Stages

\* Every step keeps the variables in their domains.
LEMMA TypeStep ==
    ASSUME TypeOK, Stages, NEW r \in Requests, Step(r)
    PROVE  TypeOK'
<1>1. CASE Forbidden(r) \/ NotFound(r) \/ NotAllowed(r) \/ DecisionNoteRequired(r)
           \/ NotStored(r) \/ ContentsUnavailable(r)
  BY <1>1, RefuseTypes, Names
     DEF Forbidden, NotFound, NotAllowed, DecisionNoteRequired, NotStored,
         ContentsUnavailable
<1>2. CASE Enter(r) \/ LoadForEdit(r) \/ LoadForDelete(r) \/ CountOld(r)
  <2>1. SharedTypes' /\ UNCHANGED locals
    BY <1>2, ContinueTypes, Names DEF Enter, LoadForEdit, LoadForDelete, CountOld
  <2> QED BY <2>1 DEF SharedTypes, locals, TypeOK
<1>13. CASE LoadForTransition(r)
  <2>1. SharedTypes' /\ UNCHANGED <<disk, stuck, shown, loaded>>
    BY <1>13, ContinueTypes, Names DEF LoadForTransition
  <2>2. db[<<"approver", call[r].item>>] \in Contents \cup {Absent}
    BY CallType, RowsThereAre DEF TypeOK, TransactionsTypeOK, Columns
  <2>3. named' \in [Requests -> Contents \cup {Absent}]
    BY <1>13, <2>2 DEF LoadForTransition, TypeOK
  <2> QED BY <2>1, <2>3 DEF SharedTypes, TypeOK
<1>3. CASE List(r) \/ Download(r)
  <2>1. SharedTypes' /\ UNCHANGED <<disk, stuck, named, loaded>>
    BY <1>3, ContinueTypes, Names DEF List, Download
  <2>2. shown' \in [Requests -> SUBSET AllItems]
    BY <1>3, CallType DEF List, Download, TypeOK
  <2> QED BY <2>1, <2>2 DEF SharedTypes, TypeOK
<1>4. CASE WriteBytes(r)
  <2>1. SharedTypes' /\ UNCHANGED <<stuck, shown, named, loaded>>
    BY <1>4, ContinueTypes, Names DEF WriteBytes
  <2>2. disk' \subseteq AllItems
    BY <1>4, RowsThereAre DEF WriteBytes, TypeOK
  <2> QED BY <2>1, <2>2 DEF SharedTypes, TypeOK
<1>5. CASE SelectOld(r)
  <2>1. SharedTypes' /\ UNCHANGED <<disk, stuck, shown, named>>
    BY <1>5, ContinueTypes, Names DEF SelectOld
  <2>2. loaded' \in [Requests -> SUBSET OldLogs]
    BY <1>5 DEF SelectOld, TypeOK, Old
  <2> QED BY <2>1, <2>2 DEF SharedTypes, TypeOK
<1>6. CASE Update(r)
  <2>1. CASE ~Exists(call[r].item)
    BY <1>6, <2>1, RefuseTypes, Names DEF Update
  <2>2. CASE Exists(call[r].item)
    <3>1. SessionTypes'
      BY <1>6, <2>2, UpdateWrites DEF Update, Stages
    <3> QED BY <1>6, <2>2, <3>1, Names
            DEF Update, FlushEach, GoTo, SessionTypes, TypeOK, TransactionsTypeOK, locals
  <2> QED BY <2>1, <2>2
<1>7. CASE InsertArchive(r)
  <2>1. CASE \E x \in loaded[r] : db[<<"archive", x>>] # Absent
    BY <1>7, <2>1, RefuseTypes, Names DEF InsertArchive
  <2>2. CASE \A x \in loaded[r] : db[<<"archive", x>>] = Absent
    <3>1. SessionTypes'
      BY <1>7, <2>2, InsertArchiveWrites
    <3> QED BY <1>7, <2>2, <3>1, Names
            DEF InsertArchive, Flush, FlushEach, GoTo, SessionTypes, TypeOK,
                TransactionsTypeOK, locals
  <2> QED BY <2>1, <2>2
<1>8. CASE Create(r) \/ DeleteRow(r) \/ InsertFile(r) \/ DeleteLogs(r) \/ Audit(r)
  <2>1. SessionTypes'
    BY <1>8, CreateWrites, DeleteWrites, InsertFileWrites, DeleteLogsWrites, AuditWrites
  <2> QED BY <1>8, <2>1, Names
          DEF Create, DeleteRow, InsertFile, DeleteLogs, Audit, Flush, FlushEach, GoTo,
              SessionTypes, TypeOK, TransactionsTypeOK, locals
<1>9. CASE RemoveFile(r)
  <2>1. SessionTypes'
    BY <1>9, RemoveFileWrites
  <2>2. (disk' \subseteq AllItems) /\ (stuck' \subseteq AllItems)
    BY <1>9, CallType DEF RemoveFile, TypeOK
  <2> QED BY <1>9, <2>1, <2>2, Names
          DEF RemoveFile, GoTo, SessionTypes, TypeOK, TransactionsTypeOK
<1>10. CASE Respond(r)
  BY <1>10, Names
     DEF Respond, Answer, GoTo, TypeOK, TransactionsTypeOK, locals
<1>11. CASE Commit(r)
  <2>1. db' \in [RowIds -> Contents \cup {Absent}] /\ SessionTypes'
    BY <1>11, CommitShows
  <2> QED BY <1>11, <2>1, Names
          DEF Commit, GoTo, SessionTypes, TypeOK, TransactionsTypeOK, locals
<1>12. CASE CutOff(r)
  <2>1. SessionTypes'
    BY <1>12, FailWrites DEF CutOff, Interrupted, Fail
  <2> QED BY <1>12, <2>1, Names, TransactionsAssumption
          DEF CutOff, Interrupted, Fail, GoTo, SessionTypes, TypeOK, TransactionsTypeOK,
              locals
<1> QED BY <1>1, <1>2, <1>3, <1>4, <1>5, <1>6, <1>7, <1>8, <1>9, <1>10, <1>11, <1>12,
        <1>13
        DEF Step, Slots, Files, Sweep, Finish

LEMMA InitTypes ==
    ASSUME Init
    PROVE  TypeOK /\ Stages
<1>1. db \in [RowIds -> Contents \cup {Absent}]
  BY DEF Init, InitTransactions, Contents, Statuses
<1>2. \A r \in Requests : pc[r] = "idle"
  BY DEF Init, InitTransactions
<1>3. NoWrites \in [RowIds -> Contents \cup {Absent, Untouched}]
  BY <1>1 DEF NoWrites, Rows
<1>4. TransactionsTypeOK(RowIds, Contents, Phases, Responses)
  BY <1>1, <1>3, TransactionsAssumption
     DEF Init, InitTransactions, TransactionsTypeOK, Phases, Responses
<1> QED BY <1>2, <1>4 DEF Init, TypeOK, Stages, AllItems

LEMMA StutterTypes ==
    ASSUME TypeOK, Stages, UNCHANGED vars
    PROVE  TypeOK' /\ Stages'
<1>1. TypeOK'
  BY DEF TypeOK, TransactionsTypeOK, vars, locals
<1> QED BY <1>1 DEF Stages, vars

\* Every variable of Workspace stays in its domain.
THEOREM TypeCorrect == Spec => []TypeOK
<1>1. Init => TypeOK /\ Stages
  BY InitTypes
<1>2. TypeOK /\ Stages /\ [Next]_vars => (TypeOK /\ Stages)'
  <2> SUFFICES ASSUME TypeOK, Stages, [Next]_vars
               PROVE  (TypeOK /\ Stages)'
    OBVIOUS
  <2>1. CASE UNCHANGED vars
    BY <2>1, StutterTypes
  <2>2. ASSUME NEW r \in Requests, Step(r)
        PROVE  (TypeOK /\ Stages)'
    BY <2>2, TypeStep, StagesStep
  <2> QED BY <2>1, <2>2 DEF Next
<1> QED BY <1>1, <1>2, PTL DEF Spec

------------------------------------------------------------------------------
(* Decisions and files: what holds between the steps *)

Late == {"audit", "respond", "commit"}

\* The jobs that look an item up and then change it.
Changing == {"edit", "delete", "submit"} \cup Decisions

\* The item that a request writes.
Subject(r) == IF call[r].job = "create" THEN r ELSE call[r].item

\* The columns that each job sets, and to what.
Sets(r, c, content) ==
    \/ call[r].job = "create" /\ c = "text" /\ content = "original"
    \/ call[r].job = "create" /\ c = "status" /\ content = "draft"
    \/ call[r].job = "edit" /\ c = "text" /\ content = "edited"
    \/ call[r].job = "submit" /\ c = "status" /\ content = "submitted"
    \/ call[r].job = "submit" /\ c = "submitted_at" /\ content = "recorded"
    \/ call[r].job \in Decisions /\ c = "status" /\ content = Target(r)
    \/ call[r].job \in Decisions /\ c = "approver" /\ content = call[r].user
    \/ call[r].job = "delete" /\ content = Absent /\ (call[r].table = "file" => c = "text")

\* What a session has made of a column of an item.
Values ==
    \A r \in Requests, c \in Columns, i \in AllItems : Holds(r, <<c, i>>) =>
        pc[r] \in Late /\ i = Subject(r) /\ Sets(r, c, writes[r][<<c, i>>])

\* None of the columns is missing, but an approver that has been found there.
SetsAll(r) ==
    /\ call[r].job = "create" => Holds(r, <<"text", r>>)
    /\ call[r].job = "submit" =>
          Holds(r, <<"status", call[r].item>>) /\ Holds(r, <<"submitted_at", call[r].item>>)
    /\ call[r].job \in Decisions =>
          /\ Holds(r, <<"status", call[r].item>>)
          /\ Holds(r, <<"approver", call[r].item>>) \/ named[r] = call[r].user
    /\ call[r].job = "delete" => Holds(r, <<"text", call[r].item>>)
    /\ call[r].job = "delete" /\ call[r].table # "file" =>
          \A c \in Columns : Holds(r, <<c, call[r].item>>)

Complete == \A r \in Requests : pc[r] \in Late => SetsAll(r)

\* An item is written by one session at a time.
Exclusive ==
    \A r \in Requests, t \in Requests, c \in Columns, d \in Columns, i \in AllItems :
        Holds(r, <<c, i>>) /\ Holds(t, <<d, i>>) => r = t

\* What a request has seen of an item it is about to change.
Known ==
    \A r \in Requests : pc[r] \in {"write", "remove"} \cup Late /\ call[r].job \in Changing =>
        /\ TableOf(call[r].item) = call[r].table
        /\ OrgOf(call[r].item) = UserOrg[call[r].user]
        /\ call[r].item \in Requests => pc[call[r].item] = "done"
        /\ call[r].job \in Decisions =>
              /\ call[r].valid
              /\ Exists(call[r].item) => db[<<"submitted_at", call[r].item>>] # Absent

\* A row that is being updated is there.
Alive ==
    \A r \in Requests, c \in Columns, i \in AllItems :
        Holds(r, <<c, i>>) /\ call[r].job \in Changing \ {"delete"} => Exists(i)

\* What has not been created, or has been by nobody, has no columns.
Unborn == \A i \in Requests : pc[i] # "done" => \A c \in Columns : db[<<c, i>>] = Absent

\* The log row of a request, and the rows of a sweep.
Logs ==
    \A r \in Requests, x \in OldLogs \cup Requests : Holds(r, <<"log", x>>) =>
        /\ pc[r] \in {"respond", "commit"}
        /\ \/ x = r /\ writes[r][<<"log", x>>] = "recorded"
           \/ x \in OldLogs /\ call[r].job = "sweep" /\ writes[r][<<"log", x>>] = Absent

Audited ==
    \A r \in Requests : pc[r] \in {"respond", "commit"}
                           /\ call[r].job \in {"create", "edit", "submit"} \cup Decisions =>
        Holds(r, <<"log", r>>)

Submission ==
    \A i \in AllItems : Status(i) \notin {Absent, "draft"} =>
        db[<<"submitted_at", i>>] # Absent

\* What the log tells of an item that has left the draft.
HasBeenSubmitted(i) == i \in Submitted \/ \E s \in Submissions(i) : TRUE

Opened ==
    \A i \in AllItems :
        /\ Status(i) \notin {Absent, "draft"} => HasBeenSubmitted(i)
        /\ db[<<"approver", i>>] # Absent => HasBeenSubmitted(i)
        /\ Status(i) = "draft" => i \notin Submitted

LoggedLast == \A s \in Requests : db[<<"log", s>>] # Absent => pc[s] = "done"

\* What it tells a request that is about to submit or decide an item: to find an
\* approver, there must have been two submissions, and the approver stays.
Traced ==
    \A r \in Requests, i \in AllItems :
        pc[r] \in {"write"} \cup Late /\ call[r].item = i =>
            /\ call[r].job = "submit" => i \notin Submitted
            /\ call[r].job \in Decisions => HasBeenSubmitted(i)
            /\ call[r].job \in Decisions /\ named[r] # Absent =>
                  SubmittedAgain(i) /\ (Exists(i) => db[<<"approver", i>>] # Absent)

History == Opened /\ LoggedLast /\ Traced

DecisionInv == /\ Values /\ Complete /\ Exclusive /\ Known /\ Alive /\ Unborn /\ Logs
               /\ Audited /\ Submission /\ DecisionsAreGenuine /\ History

\* The bytes of a file.
FilesKept ==
    /\ \A r \in Requests : pc[r] \in Late /\ call[r].job = "delete" /\ call[r].table = "file" =>
          call[r].item \notin disk \/ call[r].item \in stuck
    /\ \A r \in Requests : call[r].job = "create" /\ call[r].table = "file"
                              /\ pc[r] \in {"insert"} \cup Late => r \in disk
    /\ \A i \in disk \cap Requests : call[i].job = "create" /\ call[i].table = "file"
                                       /\ pc[i] \notin {"idle", "begin"}
    /\ \A i \in AllItems : TableOf(i) = "file" =>
          /\ (Exists(i) /\ i \notin disk) =>
                \E s \in Removers(i) : pc[s] \in {"failed"} \cup Late
          /\ (~Exists(i) /\ i \in disk) => i \in stuck \/ (i \in Requests /\ pc[i] # "done")

\* The archive rows that a sweep has inserted.
ArchiveRows ==
    \A r \in Requests, x \in OldLogs \cup Requests : Holds(r, <<"archive", x>>) =>
        /\ pc[r] \in {"delete_logs", "respond", "commit"}
        /\ call[r].job = "sweep"
        /\ x \in OldLogs
        /\ writes[r][<<"archive", x>>] = "recorded"

ArchivedOnce ==
    \A r \in Requests, t \in Requests, x \in OldLogs :
        Holds(r, <<"archive", x>>) /\ Holds(t, <<"archive", x>>) => r = t

\* What a sweep is about to archive, what it has archived and is about to delete, and
\* what it has deleted.
Chosen == \A r \in Requests : pc[r] = "archive" => Old \subseteq loaded[r]

Moving ==
    \A r \in Requests : pc[r] = "delete_logs" =>
        \A x \in OldLogs : x \in Old <=> Holds(r, <<"archive", x>>)

Moved ==
    \A r \in Requests : pc[r] \in {"respond", "commit"} =>
        \A x \in OldLogs : Holds(r, <<"archive", x>>) <=> Holds(r, <<"log", x>>)

InOnePlace ==
    \A x \in OldLogs : \/ db[<<"log", x>>] = "recorded" /\ db[<<"archive", x>>] = Absent
                       \/ db[<<"log", x>>] = Absent /\ db[<<"archive", x>>] = "recorded"

Swept == ArchiveRows /\ ArchivedOnce /\ Chosen /\ Moving /\ Moved /\ InOnePlace

Created == \A r \in Requests : Exists(r) => db[<<"log", r>>] # Absent

Shown == \A r \in Requests : \A i \in shown[r] : OrgOf(i) = UserOrg[call[r].user]

KeepingInv == FilesKept /\ Swept /\ Created /\ Shown
------------------------------------------------------------------------------
(* The steps, by what they do *)

\* Steps that only look, and the answer.
Quiet(r) == \/ Enter(r) \/ List(r) \/ LoadForEdit(r) \/ LoadForTransition(r)
            \/ LoadForDelete(r) \/ WriteBytes(r) \/ Download(r) \/ CountOld(r)
            \/ SelectOld(r) \/ Respond(r)

\* Steps that end a request with an error.
Ends(r) == /\ pc[r] \notin {"done", "failed"}
           /\ GoTo(r, "failed")
           /\ writes' = [writes EXCEPT ![r] = NoWrites]
           /\ UNCHANGED <<db, call, locals>>

\* Steps that write the columns of an item.
WritesItem(r) == \/ Create(r) \/ (Update(r) /\ Exists(call[r].item))
                 \/ DeleteRow(r) \/ InsertFile(r) \/ RemoveFile(r)

Archives(r) == InsertArchive(r) /\ \A x \in loaded[r] : db[<<"archive", x>>] = Absent

LEMMA StepIs ==
    ASSUME NEW r \in Requests, Step(r), TypeOK
    PROVE  \/ Quiet(r) \/ Ends(r) \/ WritesItem(r) \/ Archives(r) \/ DeleteLogs(r)
           \/ Audit(r) \/ Commit(r)
<1>1. ASSUME NEW answer \in Responses, Refuse(r, answer), pc[r] \notin {"done", "failed"}
      PROVE  Ends(r)
  BY <1>1 DEF Refuse, Fail, Ends
<1>2. CASE Forbidden(r) \/ NotFound(r) \/ NotAllowed(r) \/ DecisionNoteRequired(r)
           \/ NotStored(r) \/ ContentsUnavailable(r)
  BY <1>1, <1>2, Names
     DEF Forbidden, NotFound, NotAllowed, DecisionNoteRequired, NotStored,
         ContentsUnavailable, Loads, Begins
<1>3. CASE Update(r)
  BY <1>1, <1>3, Names DEF Update, WritesItem
<1>4. CASE InsertArchive(r)
  BY <1>1, <1>4, Names DEF InsertArchive, Archives
<1>5. CASE CutOff(r)
  BY <1>5 DEF CutOff, Interrupted, InFlight, Fail, Ends
<1> QED BY <1>2, <1>3, <1>4, <1>5
        DEF Step, Slots, Files, Sweep, Finish, Quiet, WritesItem

\* A decision that is allowed is one about a submitted request.
LEMMA DecidesSubmitted ==
    ASSUME NEW r \in Requests, NEW status, call[r].job \in Decisions,
           Target(r) \in Allowed(status)
    PROVE  status = "submitted"
<1>1. Target(r) # "submitted"
  BY DEF Target, Decisions
<1> QED BY <1>1 DEF Allowed

LEMMA QuietFacts ==
    ASSUME TypeOK, Stages, NEW r \in Requests, Quiet(r)
    PROVE  /\ UNCHANGED <<db, writes, call>>
           /\ pc' = [pc EXCEPT ![r] = pc'[r]]
           /\ pc[r] \in {"idle", "begin", "select_old", "respond"}
           /\ pc'[r] \notin {"idle", "done", "failed"}
           /\ pc[r] = "respond" => pc'[r] = "commit"
           /\ pc'[r] \in Late =>
                 \/ pc[r] = "respond" /\ pc'[r] = "commit"
                 \/ pc[r] = "begin" /\ pc'[r] = "respond"
                       /\ call[r].job \in {"list", "download", "sweep"}
                 \/ pc[r] = "begin" /\ pc'[r] = "audit" /\ call[r].job = "edit"
           /\ pc'[r] \in {"write", "remove", "audit"} =>
                 /\ pc[r] = "begin"
                 /\ Visible(r, call[r].item)
                 /\ call[r].job \in Decisions =>
                       call[r].valid /\ Status(call[r].item) = "submitted"
                 /\ call[r].job \in {"submit"} \cup Decisions =>
                       /\ Target(r) \in Allowed(Status(call[r].item))
                       /\ named'[r] = db[<<"approver", call[r].item>>]
           /\ pc'[r] # "write" => named' = named
<1> USE DEF GoTo, Continue, Late
<1> USE DEF locals
<1>0. pc \in [Requests -> Phases] /\ named \in [Requests -> Contents \cup {Absent}]
  BY DEF TypeOK, TransactionsTypeOK
<1>1. CASE Enter(r)
  BY <1>0, <1>1 DEF Enter
<1>2. CASE List(r) \/ Download(r)
  BY <1>0, <1>2 DEF List, Download, Loads, Begins
<1>3. CASE LoadForEdit(r) \/ LoadForDelete(r)
  BY <1>0, <1>3 DEF LoadForEdit, LoadForDelete, Loads, Begins, Decisions
<1>4. CASE LoadForTransition(r)
  BY <1>0, <1>4, DecidesSubmitted DEF LoadForTransition, Loads, Begins
<1>5. CASE WriteBytes(r) \/ CountOld(r) \/ SelectOld(r)
  BY <1>0, <1>5 DEF WriteBytes, CountOld, SelectOld, Begins
<1>6. CASE Respond(r)
  BY <1>0, <1>6 DEF Respond, Answer
<1> QED BY <1>1, <1>2, <1>3, <1>4, <1>5, <1>6 DEF Quiet

LEMMA EndsFacts ==
    ASSUME TypeOK, NEW r \in Requests, Ends(r)
    PROVE  /\ UNCHANGED <<db, call>>
           /\ pc' = [pc EXCEPT ![r] = "failed"]
           /\ pc[r] # "done"
           /\ \A t \in Requests, k \in RowIds :
                 writes'[t][k] = IF t = r THEN Untouched ELSE writes[t][k]
BY FailWrites DEF Ends, GoTo
\* What the changes of an update are, by the job.
LEMMA ChangesAre ==
    ASSUME NEW r \in Requests, call[r].job \in {"edit", "submit"} \cup Decisions
    PROVE  /\ \A c \in DOMAIN Changes(r) : c \in Columns /\ Sets(r, c, Changes(r)[c])
           /\ call[r].job = "submit" => {"status", "submitted_at"} \subseteq DOMAIN Changes(r)
           /\ call[r].job \in Decisions =>
                 /\ "status" \in DOMAIN Changes(r)
                 /\ "approver" \in DOMAIN Changes(r) \/ named[r] = call[r].user
<1>1. CASE call[r].job = "edit"
  <2>1. Changes(r) = [text |-> "edited"]
    BY <1>1 DEF Changes, Decisions
  <2> QED BY <1>1, <2>1 DEF Sets, Columns, Decisions
<1>2. CASE call[r].job = "submit"
  <2>1. Changes(r) = [status |-> "submitted", submitted_at |-> "recorded"]
    BY <1>2 DEF Changes, Decisions
  <2> QED BY <1>2, <2>1 DEF Sets, Columns, Decisions
<1>3. CASE call[r].job \in Decisions
  <2>1. \/ Changes(r) = [status |-> Target(r), approver |-> call[r].user]
        \/ Changes(r) = [status |-> Target(r)] /\ named[r] = call[r].user
    BY <1>3 DEF Changes, Decisions
  <2> QED BY <1>3, <2>1 DEF Sets, Columns, Decisions
<1> QED BY <1>1, <1>2, <1>3

\* What all the steps that write an item have in common.
Writing(r) ==
    /\ UNCHANGED <<db, call, named>>
    /\ pc' = [pc EXCEPT ![r] = pc'[r]]
    /\ pc'[r] \in {"audit", "respond"}
    /\ pc'[r] = "respond" => call[r].job = "delete"
    /\ \/ call[r].job = "create" /\ pc[r] \in {"begin", "insert"}
       \/ call[r].job \in Changing /\ pc[r] \in {"write", "remove"}
    /\ call[r].job \in Changing \ {"delete"} => Exists(call[r].item)
    /\ Subject(r) \in AllItems
    /\ \A t \in Requests, k \in RowIds :
          t # r \/ ~(\E c \in Columns : k = <<c, Subject(r)>>) => writes'[t][k] = writes[t][k]
    /\ \A c \in Columns : writes'[r][<<c, Subject(r)>>] # Untouched =>
          Sets(r, c, writes'[r][<<c, Subject(r)>>])
    /\ SetsAll(r)'
    /\ \A t \in Requests \ {r}, c \in Columns : ~Holds(t, <<c, Subject(r)>>)

LEMMA ItemFacts ==
    ASSUME TypeOK, Stages, Values, Known, NEW r \in Requests, WritesItem(r)
    PROVE  Writing(r)
<1>0. pc \in [Requests -> Phases]
  BY DEF TypeOK, TransactionsTypeOK
<1>1. call[r].item \in AllItems /\ r \in AllItems
  BY CallType, RowsThereAre
<1>2. Absent # Untouched /\ {"original", "draft", "edited", "submitted", "recorded"} \subseteq Contents
      /\ Untouched \notin Contents
  BY TransactionsAssumption, WorkspaceContentsAssumption DEF Contents, Statuses
\* Nobody else writes a row that has not been created.
<1>3. ASSUME call[r].job = "create", pc[r] \in {"begin", "insert"}
      PROVE  \A t \in Requests \ {r}, c \in Columns : ~Holds(t, <<c, r>>)
  <2> SUFFICES ASSUME NEW t \in Requests \ {r}, NEW c \in Columns, Holds(t, <<c, r>>)
               PROVE  FALSE
    OBVIOUS
  <2>1. pc[t] \in Late /\ r = Subject(t) /\ Sets(t, c, writes[t][<<c, r>>])
    BY <1>1 DEF Values
  <2>2. call[t].job \in Changing /\ call[t].item = r
    BY <2>1 DEF Subject, Sets, Changing
  <2>3. pc[r] = "done"
    BY <2>1, <2>2 DEF Known
  <2> QED BY <1>3, <2>3
<1>4. CASE Create(r)
  <2>1. call[r].job = "create" /\ pc[r] = "begin" /\ Subject(r) = r
    BY <1>4 DEF Create, Begins, Subject
  <2>2. UNCHANGED <<db, call, named>> /\ pc' = [pc EXCEPT ![r] = "audit"]
    BY <1>4 DEF Create, FlushEach, GoTo, locals
  <2>3. \A t \in Requests, k \in RowIds :
            writes'[t][k] = IF t = r /\ k \in NewColumns(r) \X {r}
                            THEN IF k[1] = "status" THEN "draft" ELSE "original"
                            ELSE writes[t][k]
    BY <1>4, CreateWrites
  <2>4. NewColumns(r) \subseteq {"text", "status"} /\ "text" \in NewColumns(r)
    BY DEF NewColumns
  <2>5. \A c \in Columns : writes'[r][<<c, r>>] # Untouched => Sets(r, c, writes'[r][<<c, r>>])
    <3>1. \A c \in Columns : ~Holds(r, <<c, r>>)
      BY <1>1, <2>1 DEF Values, Late
    <3> QED BY <1>1, <2>1, <2>3, <2>4, <3>1, RowsThereAre DEF Sets, Holds
  <2>6. SetsAll(r)'
    <3>1. <<"text", r>> \in RowIds
      BY <1>1, RowsThereAre DEF Columns
    <3>2. writes'[r][<<"text", r>>] = "original"
      BY <2>3, <2>4, <3>1
    <3> QED BY <1>2, <2>1, <2>2, <3>2 DEF SetsAll, Holds, Decisions
  <2>7. \A k \in RowIds : ~(\E c \in Columns : k = <<c, r>>) => k \notin NewColumns(r) \X {r}
    BY <2>4 DEF Columns
  <2> QED BY <1>0, <1>1, <1>3, <2>1, <2>2, <2>3, <2>5, <2>6, <2>7 DEF Writing, Changing, Decisions
<1>5. CASE Update(r) /\ Exists(call[r].item)
  <2>1. /\ call[r].job \in {"edit", "submit"} \cup Decisions
        /\ pc[r] = "write" /\ Subject(r) = call[r].item
    BY <1>5 DEF Update, Stages, Subject, Decisions
  <2>2. /\ UNCHANGED <<db, call, named>> /\ pc' = [pc EXCEPT ![r] = "audit"]
        /\ RowFree(r, call[r].item)
    BY <1>5 DEF Update, FlushEach, GoTo, locals
  <2>3. \A t \in Requests, k \in RowIds :
            writes'[t][k] = IF t = r /\ k \in (DOMAIN Changes(r)) \X {call[r].item}
                            THEN Changes(r)[k[1]] ELSE writes[t][k]
    BY <1>5, <2>1, UpdateWrites
  <2>4. \A c \in Columns : ~Holds(r, <<c, call[r].item>>)
    BY <1>1, <2>1 DEF Values, Late
  <2>5. \A c \in DOMAIN Changes(r) : writes'[r][<<c, call[r].item>>] = Changes(r)[c]
    BY <1>1, <2>1, <2>3, ChangesAre, RowsThereAre
  <2>6. \A c \in Columns : writes'[r][<<c, call[r].item>>] # Untouched =>
            Sets(r, c, writes'[r][<<c, call[r].item>>])
    <3> SUFFICES ASSUME NEW c \in Columns, writes'[r][<<c, call[r].item>>] # Untouched
                 PROVE  Sets(r, c, writes'[r][<<c, call[r].item>>])
      OBVIOUS
    <3>1. CASE c \in DOMAIN Changes(r)
      BY <2>1, <2>5, <3>1, ChangesAre
    <3>2. CASE c \notin DOMAIN Changes(r)
      BY <1>1, <2>3, <2>4, <3>2, RowsThereAre DEF Holds
    <3> QED BY <3>1, <3>2
  <2>7. SetsAll(r)'
    <3>1. \A c \in DOMAIN Changes(r) : Changes(r)[c] # Untouched
      <4>1. call[r].job \in Decisions => Target(r) \in Contents
        BY DEF Target, Decisions, Contents, Statuses
      <4>2. call[r].user \in Contents
        BY CallType DEF Contents
      <4>3. \A c \in DOMAIN Changes(r) : Sets(r, c, Changes(r)[c])
        BY <2>1, ChangesAre
      <4> QED BY <1>2, <2>1, <4>1, <4>2, <4>3 DEF Sets, Decisions
    <3>2. CASE call[r].job = "edit"
      BY <2>2, <3>2 DEF SetsAll, Decisions
    <3>3. CASE call[r].job = "submit"
      BY <2>1, <2>2, <2>5, <3>1, <3>3, ChangesAre DEF SetsAll, Holds, Decisions
    <3>4. CASE call[r].job \in Decisions
      BY <2>1, <2>2, <2>5, <3>1, <3>4, ChangesAre DEF SetsAll, Holds, Decisions
    <3> QED BY <2>1, <3>2, <3>3, <3>4
  <2>8. \A t \in Requests \ {r}, c \in Columns : ~Holds(t, <<c, call[r].item>>)
    BY <2>2 DEF RowFree, Free
  <2>9. \A k \in RowIds : ~(\E c \in Columns : k = <<c, call[r].item>>) =>
            k \notin (DOMAIN Changes(r)) \X {call[r].item}
    BY <2>1, ChangesAre
  <2> QED BY <1>0, <1>1, <1>5, <2>1, <2>2, <2>3, <2>6, <2>7, <2>8, <2>9
          DEF Writing, Changing
<1>6. CASE DeleteRow(r)
  <2>1. call[r].job = "delete" /\ pc[r] = "remove" /\ Subject(r) = call[r].item
        /\ call[r].table # "file"
    BY <1>6 DEF DeleteRow, Stages, Subject
  <2>2. /\ UNCHANGED <<db, call, named>> /\ RowFree(r, call[r].item)
        /\ pc' = [pc EXCEPT ![r] = pc'[r]] /\ pc'[r] \in {"audit", "respond"}
    BY <1>0, <1>6 DEF DeleteRow, Flush, FlushEach, GoTo, locals
  <2>3. \A t \in Requests, k \in RowIds :
            writes'[t][k] = IF t = r /\ k \in Columns \X {call[r].item} THEN Absent
                            ELSE writes[t][k]
    BY <1>6, DeleteWrites
  <2>4. \A c \in Columns : writes'[r][<<c, call[r].item>>] = Absent
    BY <1>1, <2>3, RowsThereAre
  <2>5. \A c \in Columns : Sets(r, c, writes'[r][<<c, call[r].item>>])
    BY <2>1, <2>4 DEF Sets
  <2>6. SetsAll(r)'
    BY <1>2, <2>1, <2>2, <2>4 DEF SetsAll, Holds, Decisions, Columns
  <2>7. \A t \in Requests \ {r}, c \in Columns : ~Holds(t, <<c, call[r].item>>)
    BY <2>2 DEF RowFree, Free
  <2>8. \A k \in RowIds : ~(\E c \in Columns : k = <<c, call[r].item>>) =>
            k \notin Columns \X {call[r].item}
    OBVIOUS
  <2> QED BY <1>1, <2>1, <2>2, <2>3, <2>5, <2>6, <2>7, <2>8 DEF Writing, Changing
<1>7. CASE InsertFile(r)
  <2>1. call[r].job = "create" /\ pc[r] = "insert" /\ Subject(r) = r
    BY <1>7 DEF InsertFile, Stages, Subject
  <2>2. UNCHANGED <<db, call, named>> /\ pc' = [pc EXCEPT ![r] = "audit"]
    BY <1>7 DEF InsertFile, Flush, FlushEach, GoTo, locals
  <2>3. \A t \in Requests, k \in RowIds :
            writes'[t][k] = IF t = r /\ k = <<"text", r>> THEN "original" ELSE writes[t][k]
    BY <1>7, InsertFileWrites
  <2>4. \A c \in Columns : ~Holds(r, <<c, r>>)
    BY <1>1, <2>1 DEF Values, Late
  <2>5. "text" \in Columns /\ <<"text", r>> \in RowIds
    BY <1>1, RowsThereAre DEF Columns
  <2>6. \A c \in Columns : writes'[r][<<c, r>>] # Untouched => Sets(r, c, writes'[r][<<c, r>>])
    BY <1>1, <2>1, <2>3, <2>4, RowsThereAre DEF Sets, Holds
  <2>7. SetsAll(r)'
    BY <1>2, <2>1, <2>2, <2>3, <2>5 DEF SetsAll, Holds, Decisions
  <2> QED BY <1>0, <1>1, <1>3, <2>1, <2>2, <2>3, <2>5, <2>6, <2>7 DEF Writing, Changing, Decisions
<1>8. CASE RemoveFile(r)
  <2>1. call[r].job = "delete" /\ pc[r] = "remove" /\ Subject(r) = call[r].item
        /\ call[r].table = "file"
    BY <1>8 DEF RemoveFile, Stages, Subject
  <2>2. /\ UNCHANGED <<db, call, named>> /\ RowFree(r, call[r].item)
        /\ pc' = [pc EXCEPT ![r] = "audit"]
    BY <1>8 DEF RemoveFile, GoTo
  <2>3. \A t \in Requests, k \in RowIds :
            writes'[t][k] = IF t = r /\ k = <<"text", call[r].item>> THEN Absent
                            ELSE writes[t][k]
    BY <1>8, RemoveFileWrites
  <2>4. \A c \in Columns : ~Holds(r, <<c, call[r].item>>)
    BY <1>1, <2>1 DEF Values, Late
  <2>5. "text" \in Columns /\ <<"text", call[r].item>> \in RowIds
    BY <1>1, RowsThereAre DEF Columns
  <2>6. \A c \in Columns : writes'[r][<<c, call[r].item>>] # Untouched =>
            Sets(r, c, writes'[r][<<c, call[r].item>>])
    BY <1>1, <2>1, <2>3, <2>4, RowsThereAre DEF Sets, Holds
  <2>7. SetsAll(r)'
    BY <1>2, <2>1, <2>2, <2>3, <2>5 DEF SetsAll, Holds, Decisions
  <2>8. \A t \in Requests \ {r}, c \in Columns : ~Holds(t, <<c, call[r].item>>)
    BY <2>2 DEF RowFree, Free
  <2> QED BY <1>0, <1>1, <2>1, <2>2, <2>3, <2>5, <2>6, <2>7, <2>8 DEF Writing, Changing
<1> QED BY <1>4, <1>5, <1>6, <1>7, <1>8 DEF WritesItem
\* The writes of the other rows.
LEMMA OtherFacts ==
    ASSUME TypeOK, Stages, NEW r \in Requests, Archives(r) \/ DeleteLogs(r) \/ Audit(r)
    PROVE  /\ UNCHANGED <<db, call, named>>
           /\ pc' = [pc EXCEPT ![r] = pc'[r]]
           /\ \/ pc[r] = "archive" /\ pc'[r] = "delete_logs" /\ call[r].job = "sweep"
              \/ pc[r] = "delete_logs" /\ pc'[r] = "respond" /\ call[r].job = "sweep"
              \/ pc[r] = "audit" /\ pc'[r] = "respond"
           /\ \A t \in Requests, c \in Columns, i \in AllItems :
                 writes'[t][<<c, i>>] = writes[t][<<c, i>>]
           /\ \A t \in Requests \ {r}, k \in RowIds : writes'[t][k] = writes[t][k]
           /\ \A x \in OldLogs \cup Requests :
                 writes'[r][<<"log", x>>] = IF pc[r] = "audit" /\ x = r THEN "recorded"
                                            ELSE IF pc[r] = "delete_logs" /\ x \in Old THEN Absent
                                            ELSE writes[r][<<"log", x>>]
           /\ \A x \in OldLogs \cup Requests :
                 writes'[r][<<"archive", x>>] = IF pc[r] = "archive" /\ x \in loaded[r]
                                                THEN "recorded"
                                                ELSE writes[r][<<"archive", x>>]
<1>0. pc \in [Requests -> Phases]
  BY DEF TypeOK, TransactionsTypeOK
<1>1. CASE Archives(r)
  <2>1. /\ UNCHANGED <<db, call, named>>
        /\ pc' = [pc EXCEPT ![r] = "delete_logs"] /\ pc[r] = "archive"
    BY <1>1 DEF Archives, InsertArchive, Flush, FlushEach, GoTo, locals
  <2>2. \A t \in Requests, k \in RowIds :
                 writes'[t][k] = IF t = r /\ k \in {<<"archive", x>> : x \in loaded[r]}
                                 THEN "recorded" ELSE writes[t][k]
    BY <1>1, InsertArchiveWrites DEF Archives
  <2> QED BY <1>0, <2>1, <2>2, RowsThereAre DEF Stages
<1>2. CASE DeleteLogs(r)
  <2>1. /\ UNCHANGED <<db, call, named>>
        /\ pc' = [pc EXCEPT ![r] = "respond"] /\ pc[r] = "delete_logs"
    BY <1>2 DEF DeleteLogs, Flush, FlushEach, GoTo, locals
  <2>2. \A t \in Requests, k \in RowIds :
                 writes'[t][k] = IF t = r /\ k \in {<<"log", x>> : x \in Old} THEN Absent
                                 ELSE writes[t][k]
    BY <1>2, DeleteLogsWrites
  <2> QED BY <1>0, <2>1, <2>2, RowsThereAre DEF Stages
<1>3. CASE Audit(r)
  <2>1. /\ UNCHANGED <<db, call, named>>
        /\ pc' = [pc EXCEPT ![r] = "respond"] /\ pc[r] = "audit"
    BY <1>3 DEF Audit, Flush, FlushEach, GoTo, locals
  <2>2. \A t \in Requests, k \in RowIds :
                 writes'[t][k] = IF t = r /\ k = <<"log", r>> THEN "recorded"
                                 ELSE writes[t][k]
    BY <1>3, AuditWrites
  <2> QED BY <1>0, <2>1, <2>2, RowsThereAre
<1> QED BY <1>1, <1>2, <1>3

------------------------------------------------------------------------------
(* Decisions *)

\* While the calls are the same, so is what a request sets.
LEMMA SameSets ==
    ASSUME call' = call
    PROVE  /\ \A r \in Requests : Subject(r)' = Subject(r) /\ Target(r)' = Target(r)
           /\ \A r \in Requests, c \in Columns, i \in AllItems :
                 Sets(r, c, writes[r][<<c, i>>])' <=> Sets(r, c, writes'[r][<<c, i>>])
<1>1. \A r \in Requests : Subject(r)' = Subject(r) /\ Target(r)' = Target(r)
  BY DEF Subject, Target
<1>2. ASSUME NEW r \in Requests, NEW c \in Columns, NEW i \in AllItems
      PROVE  Sets(r, c, writes[r][<<c, i>>])' <=> Sets(r, c, writes'[r][<<c, i>>])
  BY <1>1 DEF Sets
<1> QED BY <1>1, <1>2

\* The traces in the log stay.
LEMMA TracesStay ==
    ASSUME call' = call,
           \A s \in Requests : db[<<"log", s>>] # Absent => db'[<<"log", s>>] # Absent
    PROVE  \A i \in AllItems :
              /\ \A s \in Deciders(i) : s \in Deciders(i)'
              /\ \A s \in Submissions(i) : s \in Submissions(i)'
              /\ HasBeenSubmitted(i) => HasBeenSubmitted(i)'
              /\ SubmittedAgain(i) => SubmittedAgain(i)'
<1> SUFFICES ASSUME NEW i \in AllItems
             PROVE  /\ \A s \in Deciders(i) : s \in Deciders(i)'
                    /\ \A s \in Submissions(i) : s \in Submissions(i)'
                    /\ HasBeenSubmitted(i) => HasBeenSubmitted(i)'
                    /\ SubmittedAgain(i) => SubmittedAgain(i)'
  OBVIOUS
<1>1. OrgOf(i)' = OrgOf(i)
  BY DEF OrgOf
<1>2. \A s \in Deciders(i) : s \in Deciders(i)'
  BY <1>1 DEF Deciders
<1>3. \A s \in Submissions(i) : s \in Submissions(i)'
  BY DEF Submissions
<1> QED BY <1>2, <1>3 DEF HasBeenSubmitted, SubmittedAgain

\* A step that commits nothing leaves the decisions as they are.
LEMMA SameDecisions ==
    ASSUME DecisionsAreGenuine, UNCHANGED <<db, call>>
    PROVE  DecisionsAreGenuine'
<1>1. \A s \in Requests : Target(s)' = Target(s)
  BY DEF Target
<1>2. \A i \in AllItems : /\ Deciders(i)' = Deciders(i) /\ Status(i)' = Status(i)
                          /\ SubmittedAgain(i)' <=> SubmittedAgain(i)
  BY DEF Deciders, OrgOf, Status, SubmittedAgain, Submissions
<1>3. \A i \in AllItems : Deciders(i) \subseteq Requests
  BY DEF Deciders
<1> QED BY <1>1, <1>2, <1>3 DEF DecisionsAreGenuine

\* What may be submitted is a draft.
LEMMA SubmitsDraft ==
    ASSUME NEW r \in Requests, NEW status, call[r].job = "submit",
           Target(r) \in Allowed(status)
    PROVE  status = "draft"
BY DEF Target, Allowed

\* While nothing is committed, a request that is about to write has known it before, or
\* has just looked its item up.
LEMMA HistoryStays ==
    ASSUME TypeOK, DecisionInv, UNCHANGED <<db, call>>, NEW r \in Requests, pc[r] # "done",
           pc' = [pc EXCEPT ![r] = pc'[r]],
           \A t \in Requests :
               pc'[t] \in {"write"} \cup Late /\ call[t].job \in {"submit"} \cup Decisions =>
                   \/ pc[t] \in {"write"} \cup Late /\ named'[t] = named[t]
                   \/ /\ Visible(t, call[t].item)
                      /\ Target(t) \in Allowed(Status(call[t].item))
                      /\ named'[t] = db[<<"approver", call[t].item>>]
    PROVE  History'
<1>1. \A i \in AllItems : /\ HasBeenSubmitted(i)' <=> HasBeenSubmitted(i)
                          /\ SubmittedAgain(i)' <=> SubmittedAgain(i)
                          /\ Status(i)' = Status(i) /\ Exists(i)' = Exists(i)
  BY DEF HasBeenSubmitted, SubmittedAgain, Submissions, Status, Exists
<1>2. Opened'
  BY <1>1 DEF DecisionInv, History, Opened
<1>3. LoggedLast'
  BY DEF DecisionInv, History, LoggedLast, TypeOK, TransactionsTypeOK
<1>4. ASSUME NEW t \in Requests, NEW i \in AllItems, pc'[t] \in {"write"} \cup Late,
             call[t].item = i, call[t].job \in {"submit"} \cup Decisions
      PROVE  /\ call[t].job = "submit" => i \notin Submitted
             /\ call[t].job \in Decisions => HasBeenSubmitted(i)
             /\ call[t].job \in Decisions /\ named'[t] # Absent =>
                   SubmittedAgain(i) /\ (Exists(i) => db[<<"approver", i>>] # Absent)
  <2>1. CASE pc[t] \in {"write"} \cup Late /\ named'[t] = named[t]
    BY <1>4, <2>1 DEF DecisionInv, History, Traced
  <2>2. CASE /\ Target(t) \in Allowed(Status(i))
             /\ named'[t] = db[<<"approver", i>>]
    <3>1. call[t].job = "submit" => i \notin Submitted
      BY <2>2, SubmitsDraft DEF DecisionInv, History, Opened
    <3>2. ASSUME call[t].job \in Decisions
          PROVE  /\ HasBeenSubmitted(i)
                 /\ named'[t] # Absent =>
                       SubmittedAgain(i) /\ (Exists(i) => db[<<"approver", i>>] # Absent)
      <4>1. Status(i) = "submitted" /\ Absent # "submitted"
        BY <2>2, <3>2, DecidesSubmitted, WorkspaceContentsAssumption DEF Contents, Statuses
      <4>2. HasBeenSubmitted(i)
        BY <4>1 DEF DecisionInv, History, Opened
      <4> QED BY <2>2, <4>1, <4>2 DEF DecisionInv, DecisionsAreGenuine
    <3>3. "submit" \notin Decisions
      BY DEF Decisions
    <3> QED BY <3>1, <3>2
  <2> QED BY <1>4, <2>1, <2>2
<1>5. Traced'
  <2> SUFFICES ASSUME NEW t \in Requests, NEW i \in AllItems, pc'[t] \in {"write"} \cup Late,
                      call[t].item = i
               PROVE  /\ call[t].job = "submit" => i \notin Submitted
                      /\ call[t].job \in Decisions => HasBeenSubmitted(i)'
                      /\ call[t].job \in Decisions /\ named'[t] # Absent =>
                            SubmittedAgain(i)' /\ (Exists(i)' => db'[<<"approver", i>>] # Absent)
    BY DEF Traced
  <2> QED BY <1>1, <1>4
<1> QED BY <1>2, <1>3, <1>5 DEF History

LEMMA DecisionQuiet ==
    ASSUME TypeOK, Stages, DecisionInv, NEW r \in Requests, Quiet(r)
    PROVE  DecisionInv'
<1>0. /\ pc \in [Requests -> Phases] /\ UNCHANGED <<db, writes, call>>
      /\ pc' = [pc EXCEPT ![r] = pc'[r]]
      /\ pc[r] \in {"idle", "begin", "select_old", "respond"}
      /\ pc'[r] \notin {"idle", "done", "failed"}
      /\ pc[r] = "respond" => pc'[r] = "commit"
  BY QuietFacts DEF TypeOK, TransactionsTypeOK
<1>1. Values'
  BY <1>0, SameSets DEF DecisionInv, Values, Holds, Late
<1>2. Complete'
  <2> SUFFICES ASSUME NEW t \in Requests, pc'[t] \in Late
               PROVE  SetsAll(t)'
    BY DEF Complete
  <2>1. CASE pc[t] \in Late
    <3>1. named'[t] = named[t]
      <4>1. CASE t = r
        BY <1>0, <2>1, <4>1, QuietFacts DEF Late
      <4>2. CASE t # r
        <5>1. Step(r)
          BY DEF Quiet, Step, Slots, Files, Sweep, Finish
        <5> QED BY <4>2, <5>1, StepIsLocal
      <4> QED BY <4>1, <4>2
    <3> QED BY <1>0, <2>1, <3>1 DEF DecisionInv, Complete, SetsAll, Holds
  <2>2. CASE pc[t] \notin Late
    <3>1. t = r /\ call[r].job \in {"list", "download", "sweep", "edit"}
      BY <1>0, <2>2, QuietFacts DEF Late
    <3> QED BY <1>0, <3>1 DEF SetsAll, Decisions
  <2> QED BY <2>1, <2>2
<1>3. Exclusive' /\ Alive' /\ Submission'
  BY <1>0 DEF DecisionInv, Exclusive, Alive, Submission, Holds, Exists, Status
<1>4. Known'
  <2> SUFFICES ASSUME NEW t \in Requests, pc'[t] \in {"write", "remove"} \cup Late,
                      call[t].job \in Changing
               PROVE  /\ TableOf(call[t].item) = call[t].table
                      /\ OrgOf(call[t].item) = UserOrg[call[t].user]
                      /\ call[t].item \in Requests => pc'[call[t].item] = "done"
                      /\ call[t].job \in Decisions =>
                            /\ call[t].valid
                            /\ Exists(call[t].item) =>
                                  db[<<"submitted_at", call[t].item>>] # Absent
    BY <1>0 DEF Known, TableOf, OrgOf, Exists
  <2>1. CASE pc[t] \in {"write", "remove"} \cup Late
    BY <1>0, <2>1 DEF DecisionInv, Known
  <2>2. CASE pc[t] \notin {"write", "remove"} \cup Late
    <3>1. t = r /\ pc'[r] \in {"write", "remove", "audit"}
      BY <1>0, <2>2, QuietFacts DEF Late, Changing, Decisions
    <3>2. /\ Visible(r, call[r].item)
          /\ call[r].job \in Decisions => call[r].valid /\ Status(call[r].item) = "submitted"
      BY <3>1, QuietFacts
    <3>3. call[r].item \in Requests => pc[call[r].item] = "done"
      BY <3>2 DEF Visible, Exists, DecisionInv, Unborn, Columns
    <3>4. call[r].job \in Decisions => db[<<"submitted_at", call[r].item>>] # Absent
      BY <3>2, CallType, WorkspaceContentsAssumption
         DEF DecisionInv, Submission, Contents, Statuses
    <3> QED BY <1>0, <3>1, <3>2, <3>3, <3>4 DEF Visible
  <2> QED BY <2>1, <2>2
<1>5. Unborn'
  BY <1>0 DEF DecisionInv, Unborn
<1>6. Logs'
  BY <1>0 DEF DecisionInv, Logs, Holds
<1>7. Audited'
  BY <1>0, QuietFacts DEF DecisionInv, Audited, Holds, Decisions, Late
<1>8. DecisionsAreGenuine'
  BY <1>0, SameDecisions DEF DecisionInv
<1>9. History'
  <2>1. ASSUME NEW t \in Requests, pc'[t] \in {"write"} \cup Late,
               call[t].job \in {"submit"} \cup Decisions
        PROVE  \/ pc[t] \in {"write"} \cup Late /\ named'[t] = named[t]
               \/ /\ Visible(t, call[t].item)
                  /\ Target(t) \in Allowed(Status(call[t].item))
                  /\ named'[t] = db[<<"approver", call[t].item>>]
    <3>1. CASE t # r
      <4>1. Step(r)
        BY DEF Quiet, Step, Slots, Files, Sweep, Finish
      <4> QED BY <1>0, <2>1, <3>1, <4>1, StepIsLocal
    <3>2. CASE t = r /\ pc'[r] = "write"
      BY <2>1, <3>2, QuietFacts
    <3>3. CASE t = r /\ pc'[r] \in Late
      BY <1>0, <2>1, <3>3, QuietFacts DEF Late, Decisions
    <3> QED BY <2>1, <3>1, <3>2, <3>3
  <2> QED BY <1>0, <2>1, HistoryStays
<1> QED BY <1>1, <1>2, <1>3, <1>4, <1>5, <1>6, <1>7, <1>8, <1>9 DEF DecisionInv

LEMMA DecisionEnds ==
    ASSUME TypeOK, Stages, DecisionInv, NEW r \in Requests, Ends(r)
    PROVE  DecisionInv'
<1>0. /\ pc \in [Requests -> Phases] /\ UNCHANGED <<db, call, named>>
      /\ pc' = [pc EXCEPT ![r] = "failed"] /\ pc[r] # "done"
  BY EndsFacts DEF TypeOK, TransactionsTypeOK, Ends, locals
\* Nothing is held that was not.
<1>a. \A t \in Requests, k \in RowIds :
          /\ t # r => writes'[t][k] = writes[t][k]
          /\ ~Holds(r, k)'
  BY EndsFacts DEF Holds
<1>1. Values'
  BY <1>0, <1>a, RowsThereAre, SameSets DEF DecisionInv, Values, Holds, Late
<1>2. Complete'
  <2> SUFFICES ASSUME NEW t \in Requests, pc'[t] \in Late
               PROVE  SetsAll(t)'
    BY DEF Complete
  <2>1. t # r /\ pc[t] \in Late
    BY <1>0 DEF Late
  <2>2. SetsAll(t)
    BY <2>1 DEF DecisionInv, Complete
  <2>3. \A c \in Columns : <<c, call[t].item>> \in RowIds /\ <<c, t>> \in RowIds
    BY CallType, RowsThereAre
  <2> QED BY <1>0, <1>a, <2>1, <2>2, <2>3 DEF SetsAll, Holds, Columns
<1>3. Exclusive' /\ Alive' /\ Submission'
  BY <1>0, <1>a, RowsThereAre DEF DecisionInv, Exclusive, Alive, Submission, Holds, Exists, Status
<1>4. Known'
  BY <1>0 DEF DecisionInv, Known, TableOf, OrgOf, Exists, Late
<1>5. Unborn'
  BY <1>0 DEF DecisionInv, Unborn
<1>6. Logs'
  <2> SUFFICES ASSUME NEW t \in Requests, NEW x \in OldLogs \cup Requests,
                      Holds(t, <<"log", x>>)'
               PROVE  /\ pc'[t] \in {"respond", "commit"}
                      /\ \/ x = t /\ writes'[t][<<"log", x>>] = "recorded"
                         \/ x \in OldLogs /\ call[t].job = "sweep"
                               /\ writes'[t][<<"log", x>>] = Absent
    BY <1>0 DEF Logs
  <2>1. t # r /\ writes'[t][<<"log", x>>] = writes[t][<<"log", x>>]
    BY <1>a, RowsThereAre
  <2> QED BY <1>0, <2>1 DEF DecisionInv, Logs, Holds
<1>7. Audited'
  BY <1>0, <1>a, RowsThereAre DEF DecisionInv, Audited, Holds
<1>8. DecisionsAreGenuine'
  BY <1>0, SameDecisions DEF DecisionInv
<1>9. History'
  BY <1>0, HistoryStays DEF Late
<1> QED BY <1>1, <1>2, <1>3, <1>4, <1>5, <1>6, <1>7, <1>8, <1>9 DEF DecisionInv

LEMMA DecisionItem ==
    ASSUME TypeOK, Stages, DecisionInv, NEW r \in Requests, Writing(r)
    PROVE  DecisionInv'
<1>0. /\ pc \in [Requests -> Phases] /\ pc[r] \notin Late \cup {"done"}
      /\ UNCHANGED <<db, call, named>> /\ pc' = [pc EXCEPT ![r] = pc'[r]]
      /\ pc'[r] \in {"audit", "respond"}
  BY DEF TypeOK, TransactionsTypeOK, Writing, Late
<1>1. Subject(r) \in AllItems
  BY DEF Writing
\* What is held now was held before, or is a column of the item written.
<1>2. \A t \in Requests, c \in Columns, i \in AllItems : Holds(t, <<c, i>>)' =>
          \/ t # r /\ Holds(t, <<c, i>>) /\ writes'[t][<<c, i>>] = writes[t][<<c, i>>]
          \/ t = r /\ i = Subject(r) /\ Sets(r, c, writes'[r][<<c, i>>])
  <2> SUFFICES ASSUME NEW t \in Requests, NEW c \in Columns, NEW i \in AllItems,
                      Holds(t, <<c, i>>)'
               PROVE  \/ t # r /\ Holds(t, <<c, i>>) /\ writes'[t][<<c, i>>] = writes[t][<<c, i>>]
                      \/ t = r /\ i = Subject(r) /\ Sets(r, c, writes'[r][<<c, i>>])
    OBVIOUS
  <2>1. CASE t # r
    BY <2>1, RowsThereAre DEF Writing, Holds
  <2>2. CASE t = r /\ i # Subject(r)
    <3>1. writes'[r][<<c, i>>] = writes[r][<<c, i>>]
      BY <2>2, RowsThereAre DEF Writing
    <3> QED BY <1>0, <2>2, <3>1 DEF DecisionInv, Values, Holds
  <2>3. CASE t = r /\ i = Subject(r)
    BY <2>3 DEF Writing, Holds
  <2> QED BY <2>1, <2>2, <2>3
<1>3. \A t \in Requests \ {r}, c \in Columns : ~Holds(t, <<c, Subject(r)>>)
  BY DEF Writing
<1>4. Values'
  <2> SUFFICES ASSUME NEW t \in Requests, NEW c \in Columns, NEW i \in AllItems,
                      Holds(t, <<c, i>>)'
               PROVE  (pc[t] \in Late /\ i = Subject(t) /\ Sets(t, c, writes[t][<<c, i>>]))'
    BY DEF Values
  <2>1. CASE t # r
    BY <1>0, <1>2, <2>1, SameSets DEF DecisionInv, Values
  <2>2. CASE t = r
    BY <1>0, <1>2, <2>2, SameSets DEF Late
  <2> QED BY <2>1, <2>2
<1>5. Complete'
  <2> SUFFICES ASSUME NEW t \in Requests, pc'[t] \in Late
               PROVE  SetsAll(t)'
    BY DEF Complete
  <2>1. CASE t = r
    BY <2>1 DEF Writing
  <2>2. CASE t # r
    <3>1. SetsAll(t)
      BY <1>0, <2>2 DEF DecisionInv, Complete
    <3>2. \A k \in RowIds : writes'[t][k] = writes[t][k]
      BY <2>2 DEF Writing
    <3>3. \A c \in Columns : <<c, call[t].item>> \in RowIds /\ <<c, t>> \in RowIds
      BY CallType, RowsThereAre
    <3> QED BY <1>0, <3>1, <3>2, <3>3 DEF SetsAll, Holds, Columns
  <2> QED BY <2>1, <2>2
<1>6. Exclusive'
  <2> SUFFICES ASSUME NEW t \in Requests, NEW u \in Requests, NEW c \in Columns,
                      NEW d \in Columns, NEW i \in AllItems,
                      Holds(t, <<c, i>>)', Holds(u, <<d, i>>)'
               PROVE  t = u
    BY DEF Exclusive
  <2> QED BY <1>2, <1>3 DEF DecisionInv, Exclusive
<1>7. Known'
  BY <1>0 DEF DecisionInv, Known, TableOf, OrgOf, Exists, Late, Writing, Changing, Decisions
<1>8. Alive'
  <2> SUFFICES ASSUME NEW t \in Requests, NEW c \in Columns, NEW i \in AllItems,
                      Holds(t, <<c, i>>)', call[t].job \in Changing \ {"delete"}
               PROVE  Exists(i)
    BY <1>0 DEF Alive, Exists
  <2>1. CASE t # r
    BY <1>2, <2>1 DEF DecisionInv, Alive
  <2>2. CASE t = r
    BY <1>2, <2>2 DEF Writing, Subject, Changing, Decisions
  <2> QED BY <2>1, <2>2
<1>9. Unborn' /\ Submission'
  BY <1>0 DEF DecisionInv, Unborn, Submission, Status
<1>10. \A t \in Requests, x \in OldLogs \cup Requests :
           writes'[t][<<"log", x>>] = writes[t][<<"log", x>>]
  BY RowsThereAre DEF Writing
<1>11. Logs'
  BY <1>0, <1>10 DEF DecisionInv, Logs, Holds, Late
<1>12. Audited'
  BY <1>0, <1>10 DEF DecisionInv, Audited, Holds, Writing, Decisions
<1>13. DecisionsAreGenuine'
  BY <1>0, SameDecisions DEF DecisionInv
<1>14. History'
  <2>1. pc'[r] \in Late /\ call[r].job \in {"submit"} \cup Decisions => pc[r] = "write"
    BY DEF Writing, Stages, Changing, Decisions
  <2> QED BY <1>0, <2>1, HistoryStays
<1> QED BY <1>4, <1>5, <1>6, <1>7, <1>8, <1>9, <1>11, <1>12, <1>13, <1>14 DEF DecisionInv

LEMMA DecisionOther ==
    ASSUME TypeOK, Stages, DecisionInv, NEW r \in Requests,
           Archives(r) \/ DeleteLogs(r) \/ Audit(r)
    PROVE  DecisionInv'
<1>0. /\ pc \in [Requests -> Phases] /\ UNCHANGED <<db, call, named>>
      /\ pc' = [pc EXCEPT ![r] = pc'[r]]
      /\ \/ pc[r] = "archive" /\ pc'[r] = "delete_logs" /\ call[r].job = "sweep"
         \/ pc[r] = "delete_logs" /\ pc'[r] = "respond" /\ call[r].job = "sweep"
         \/ pc[r] = "audit" /\ pc'[r] = "respond"
  BY OtherFacts DEF TypeOK, TransactionsTypeOK
<1>a. \A t \in Requests, c \in Columns, i \in AllItems :
          writes'[t][<<c, i>>] = writes[t][<<c, i>>]
  BY OtherFacts
\* The log rows.
<1>b. \A t \in Requests, x \in OldLogs \cup Requests :
          \/ writes'[t][<<"log", x>>] = writes[t][<<"log", x>>]
          \/ t = r /\ pc[r] = "audit" /\ x = r /\ writes'[t][<<"log", x>>] = "recorded"
          \/ t = r /\ pc[r] = "delete_logs" /\ x \in OldLogs
                /\ writes'[t][<<"log", x>>] = Absent
  <2> SUFFICES ASSUME NEW t \in Requests, NEW x \in OldLogs \cup Requests
               PROVE  \/ writes'[t][<<"log", x>>] = writes[t][<<"log", x>>]
                      \/ t = r /\ pc[r] = "audit" /\ x = r
                            /\ writes'[t][<<"log", x>>] = "recorded"
                      \/ t = r /\ pc[r] = "delete_logs" /\ x \in OldLogs
                            /\ writes'[t][<<"log", x>>] = Absent
    OBVIOUS
  <2>1. CASE t # r
    <3>1. \A k \in RowIds : writes'[t][k] = writes[t][k]
      BY <2>1, OtherFacts
    <3>2. <<"log", x>> \in RowIds
      BY RowsThereAre
    <3> QED BY <3>1, <3>2
  <2>2. CASE t = r
    BY <2>2, OtherFacts DEF Old
  <2> QED BY <2>1, <2>2
<1>c. pc[r] = "audit" => writes'[r][<<"log", r>>] # Untouched
  BY OtherFacts, WorkspaceContentsAssumption DEF Contents
<1>1. Values'
  BY <1>0, <1>a, SameSets DEF DecisionInv, Values, Holds, Late
<1>2. Complete'
  <2> SUFFICES ASSUME NEW t \in Requests, pc'[t] \in Late
               PROVE  SetsAll(t)'
    BY DEF Complete
  <2>1. call[t].item \in AllItems /\ t \in AllItems
    BY CallType, RowsThereAre
  <2>2. CASE pc[t] \in Late
    <3>1. SetsAll(t)
      BY <2>2 DEF DecisionInv, Complete
    <3> QED BY <1>0, <1>a, <2>1, <3>1 DEF SetsAll, Holds, Columns
  <2>3. CASE pc[t] \notin Late
    <3>1. call[t].job = "sweep"
      BY <1>0, <2>3 DEF Late
    <3> QED BY <1>0, <3>1 DEF SetsAll, Decisions
  <2> QED BY <2>2, <2>3
<1>3. Exclusive' /\ Alive' /\ Submission'
  BY <1>0, <1>a DEF DecisionInv, Exclusive, Alive, Submission, Holds, Exists, Status
<1>4. Known'
  BY <1>0 DEF DecisionInv, Known, TableOf, OrgOf, Exists, Late, Changing, Decisions
<1>5. Unborn'
  BY <1>0 DEF DecisionInv, Unborn
<1>6. Logs'
  BY <1>0, <1>b DEF DecisionInv, Logs, Holds
<1>7. Audited'
  BY <1>0, <1>b, <1>c, TransactionsAssumption DEF DecisionInv, Audited, Holds, Decisions
<1>8. DecisionsAreGenuine'
  BY <1>0, SameDecisions DEF DecisionInv
<1>9. History'
  <2>1. \A t \in Requests : pc'[t] \in {"write"} \cup Late => pc[t] \in {"write"} \cup Late
                                                        \/ call[t].job = "sweep"
    BY <1>0 DEF Late
  <2> QED BY <1>0, <2>1, HistoryStays DEF Decisions
<1> QED BY <1>1, <1>2, <1>3, <1>4, <1>5, <1>6, <1>7, <1>8, <1>9 DEF DecisionInv

LEMMA CommitFacts ==
    ASSUME TypeOK, NEW r \in Requests, Commit(r)
    PROVE  /\ pc[r] = "commit"
           /\ pc' = [pc EXCEPT ![r] = "done"]
           /\ UNCHANGED <<call, disk, stuck, shown, named, loaded>>
           /\ \A k \in RowIds : db'[k] = IF Holds(r, k) THEN writes[r][k] ELSE db[k]
           /\ \A t \in Requests, k \in RowIds :
                 writes'[t][k] = IF t = r THEN Untouched ELSE writes[t][k]
<1>1. /\ pc[r] = "commit"
      /\ pc' = [pc EXCEPT ![r] = "done"]
      /\ UNCHANGED <<call, disk, stuck, shown, named, loaded>>
  BY DEF Commit, GoTo, locals
<1> QED BY <1>1, CommitShows

LEMMA CommitColumns ==
    ASSUME TypeOK, Stages, DecisionInv, NEW r \in Requests, Commit(r)
    PROVE  /\ SetsAll(r)
           /\ \A c \in Columns, i \in AllItems :
                 \/ db'[<<c, i>>] = db[<<c, i>>] /\ ~Holds(r, <<c, i>>)
                 \/ /\ i = Subject(r) /\ Holds(r, <<c, i>>)
                    /\ db'[<<c, i>>] = writes[r][<<c, i>>] /\ Sets(r, c, db'[<<c, i>>])
           /\ \A i \in AllItems : Exists(i)' /\ ~Exists(i) => call[r].job = "create" /\ i = r
           /\ \A s \in Requests : db[<<"log", s>>] # Absent => db'[<<"log", s>>] # Absent
           /\ call[r].job \in {"create", "edit", "submit"} \cup Decisions =>
                 db'[<<"log", r>>] # Absent
<1>0. /\ pc \in [Requests -> Phases] /\ pc[r] = "commit" /\ pc[r] \in Late
      /\ pc' = [pc EXCEPT ![r] = "done"] /\ call' = call
  BY CommitFacts DEF TypeOK, TransactionsTypeOK, Late
<1>1. \A t \in Requests, k \in RowIds :
          /\ t # r => writes'[t][k] = writes[t][k]
          /\ ~Holds(r, k)'
  BY CommitFacts DEF Holds
<1>2. \A k \in RowIds : db'[k] = IF Holds(r, k) THEN writes[r][k] ELSE db[k]
  BY CommitFacts
<1>3. Subject(r) \in AllItems /\ call[r].item \in AllItems /\ r \in AllItems
  BY CallType, RowsThereAre DEF Subject
<1>4. SetsAll(r)
  BY <1>0 DEF DecisionInv, Complete
\* A column of another item, or one that has not been written, stays.
<1>5. \A c \in Columns, i \in AllItems :
          \/ db'[<<c, i>>] = db[<<c, i>>] /\ ~Holds(r, <<c, i>>)
          \/ /\ i = Subject(r) /\ Holds(r, <<c, i>>)
             /\ db'[<<c, i>>] = writes[r][<<c, i>>] /\ Sets(r, c, db'[<<c, i>>])
  BY <1>2, RowsThereAre DEF DecisionInv, Values
<1>6. Absent \notin Contents /\ Contents \subseteq Contents \cup {Absent}
      /\ Statuses \cup {"original", "edited", "recorded"} \cup Users \subseteq Contents
  BY WorkspaceContentsAssumption DEF Contents
<1>7. {"text", "status", "submitted_at", "approver"} = Columns
  BY DEF Columns
\* A text appears only where there was none to be looked up.
<1>12. \A i \in AllItems : Exists(i)' /\ ~Exists(i) => call[r].job = "create" /\ i = r
  <2> SUFFICES ASSUME NEW i \in AllItems, Exists(i)', ~Exists(i)
               PROVE  call[r].job = "create" /\ i = r
    OBVIOUS
  <2>1. i = Subject(r) /\ Holds(r, <<"text", i>>) /\ Sets(r, "text", db'[<<"text", i>>])
    BY <1>5, <1>7 DEF Exists
  <2>2. CASE call[r].job = "create"
    BY <2>1, <2>2 DEF Subject
  <2>3. CASE call[r].job = "delete"
    BY <2>1, <2>3 DEF Sets, Exists, Decisions
  <2>4. CASE call[r].job \notin {"create", "delete"}
    <3>1. call[r].job \in Changing \ {"delete"}
      BY <2>1, <2>4 DEF Sets, Changing
    <3> QED BY <1>7, <2>1, <3>1 DEF DecisionInv, Alive
  <2> QED BY <2>2, <2>3, <2>4
<1>19. \A s \in Requests : db[<<"log", s>>] # Absent => db'[<<"log", s>>] # Absent
  <2> SUFFICES ASSUME NEW s \in Requests, db[<<"log", s>>] # Absent
               PROVE  db'[<<"log", s>>] # Absent
    OBVIOUS
  <2>1. s \notin OldLogs
    BY WorkspaceAssumption
  <2>2. Holds(r, <<"log", s>>) => writes[r][<<"log", s>>] = "recorded"
    BY <2>1 DEF DecisionInv, Logs
  <2> QED BY <1>2, <1>6, <2>2, RowsThereAre
<1>20. call[r].job \in {"create", "edit", "submit"} \cup Decisions => db'[<<"log", r>>] # Absent
  <2> SUFFICES ASSUME call[r].job \in {"create", "edit", "submit"} \cup Decisions
               PROVE  db'[<<"log", r>>] # Absent
    OBVIOUS
  <2>1. Holds(r, <<"log", r>>)
    BY <1>0 DEF DecisionInv, Audited
  <2>2. r \notin OldLogs
    BY WorkspaceAssumption
  <2>3. writes[r][<<"log", r>>] = "recorded"
    BY <2>1, <2>2 DEF DecisionInv, Logs
  <2> QED BY <1>2, <1>6, <2>1, <2>3, RowsThereAre
<1> QED BY <1>4, <1>5, <1>12, <1>19, <1>20

LEMMA DecisionCommit ==
    ASSUME TypeOK, Stages, DecisionInv, NEW r \in Requests, Commit(r)
    PROVE  DecisionInv'
<1>0. /\ pc \in [Requests -> Phases] /\ pc[r] = "commit" /\ pc[r] \in Late
      /\ pc' = [pc EXCEPT ![r] = "done"] /\ call' = call /\ named' = named
  BY CommitFacts DEF TypeOK, TransactionsTypeOK, Late
<1>1. \A t \in Requests, k \in RowIds :
          /\ t # r => writes'[t][k] = writes[t][k]
          /\ ~Holds(r, k)'
  BY CommitFacts DEF Holds
<1>2. \A k \in RowIds : db'[k] = IF Holds(r, k) THEN writes[r][k] ELSE db[k]
  BY CommitFacts
<1>3. Subject(r) \in AllItems /\ call[r].item \in AllItems /\ r \in AllItems
  BY CallType, RowsThereAre DEF Subject
<1>4. SetsAll(r)
  BY CommitColumns
\* A column of another item, or one that has not been written, stays.
<1>5. \A c \in Columns, i \in AllItems :
          \/ db'[<<c, i>>] = db[<<c, i>>] /\ ~Holds(r, <<c, i>>)
          \/ /\ i = Subject(r) /\ Holds(r, <<c, i>>)
             /\ db'[<<c, i>>] = writes[r][<<c, i>>] /\ Sets(r, c, db'[<<c, i>>])
  BY CommitColumns
<1>6. Absent \notin Contents /\ Contents \subseteq Contents \cup {Absent}
      /\ Statuses \cup {"original", "edited", "recorded"} \cup Users \subseteq Contents
  BY WorkspaceContentsAssumption DEF Contents
<1>7. {"text", "status", "submitted_at", "approver"} = Columns
  BY DEF Columns
\* An item that is there no more has no columns left.
<1>8. \A c \in {"submitted_at", "approver"}, i \in AllItems :
          db[<<c, i>>] # Absent /\ Exists(i)' => db'[<<c, i>>] # Absent
  <2> SUFFICES ASSUME NEW c \in {"submitted_at", "approver"}, NEW i \in AllItems,
                      db[<<c, i>>] # Absent, db'[<<c, i>>] = Absent, Exists(i)'
               PROVE  FALSE
    OBVIOUS
  <2>1. i = Subject(r) /\ Sets(r, c, Absent)
    BY <1>5, <1>7
  <2>2. call[r].job = "delete"
    BY <1>6, <1>7, <2>1, CallType DEF Sets
  <2>3. Holds(r, <<"text", i>>)
    BY <1>4, <2>1, <2>2 DEF SetsAll, Subject
  <2>4. db'[<<"text", i>>] = Absent
    BY <1>5, <1>7, <2>2, <2>3 DEF Sets, Decisions
  <2> QED BY <2>4 DEF Exists
<1>9. Values'
  <2> SUFFICES ASSUME NEW t \in Requests, NEW c \in Columns, NEW i \in AllItems,
                      Holds(t, <<c, i>>)'
               PROVE  (pc[t] \in Late /\ i = Subject(t) /\ Sets(t, c, writes[t][<<c, i>>]))'
    BY DEF Values
  <2>1. t # r /\ writes'[t][<<c, i>>] = writes[t][<<c, i>>] /\ Holds(t, <<c, i>>)
    BY <1>1, RowsThereAre DEF Holds
  <2> QED BY <1>0, <2>1, SameSets DEF DecisionInv, Values
<1>10. Complete'
  <2> SUFFICES ASSUME NEW t \in Requests, pc'[t] \in Late
               PROVE  SetsAll(t)'
    BY DEF Complete
  <2>1. t # r /\ pc[t] \in Late
    BY <1>0 DEF Late
  <2>2. SetsAll(t)
    BY <2>1 DEF DecisionInv, Complete
  <2>3. \A c \in Columns : <<c, call[t].item>> \in RowIds /\ <<c, t>> \in RowIds
    BY CallType, RowsThereAre
  <2> QED BY <1>0, <1>1, <2>1, <2>2, <2>3 DEF SetsAll, Holds, Columns
<1>11. Exclusive'
  <2> SUFFICES ASSUME NEW t \in Requests, NEW u \in Requests, NEW c \in Columns,
                      NEW d \in Columns, NEW i \in AllItems,
                      Holds(t, <<c, i>>)', Holds(u, <<d, i>>)'
               PROVE  t = u
    BY DEF Exclusive
  <2>1. Holds(t, <<c, i>>) /\ Holds(u, <<d, i>>)
    BY <1>1, RowsThereAre DEF Holds
  <2> QED BY <2>1 DEF DecisionInv, Exclusive
<1>12. \A i \in AllItems : Exists(i)' /\ ~Exists(i) => call[r].job = "create" /\ i = r
  BY CommitColumns
<1>13. Known'
  <2> SUFFICES ASSUME NEW t \in Requests, pc'[t] \in {"write", "remove"} \cup Late,
                      call[t].job \in Changing
               PROVE  /\ TableOf(call[t].item) = call[t].table
                      /\ OrgOf(call[t].item) = UserOrg[call[t].user]
                      /\ call[t].item \in Requests => pc'[call[t].item] = "done"
                      /\ call[t].job \in Decisions =>
                            /\ call[t].valid
                            /\ Exists(call[t].item)' =>
                                  db'[<<"submitted_at", call[t].item>>] # Absent
    BY <1>0 DEF Known, TableOf, OrgOf
  <2>1. t # r /\ pc[t] \in {"write", "remove"} \cup Late /\ call[t].item \in AllItems
    BY <1>0, CallType DEF Late
  <2>2. /\ TableOf(call[t].item) = call[t].table
        /\ OrgOf(call[t].item) = UserOrg[call[t].user]
        /\ call[t].item \in Requests => pc[call[t].item] = "done"
        /\ call[t].job \in Decisions =>
              /\ call[t].valid
              /\ Exists(call[t].item) => db[<<"submitted_at", call[t].item>>] # Absent
    BY <2>1 DEF DecisionInv, Known
  <2>3. Exists(call[t].item)' => Exists(call[t].item)
    BY <1>0, <1>12, <2>1, <2>2
  <2> QED BY <1>0, <1>8, <2>1, <2>2, <2>3
<1>14. Alive'
  <2> SUFFICES ASSUME NEW t \in Requests, NEW c \in Columns, NEW i \in AllItems,
                      Holds(t, <<c, i>>)', call[t].job \in Changing \ {"delete"}
               PROVE  Exists(i)'
    BY <1>0 DEF Alive
  <2>1. t # r /\ Holds(t, <<c, i>>)
    BY <1>1, RowsThereAre DEF Holds
  <2>2. Exists(i) /\ ~Holds(r, <<"text", i>>)
    BY <1>7, <2>1 DEF DecisionInv, Alive, Exclusive
  <2> QED BY <1>5, <1>7, <2>2 DEF Exists
<1>15. Unborn'
  <2> SUFFICES ASSUME NEW i \in Requests, pc'[i] # "done", NEW c \in Columns
               PROVE  db'[<<c, i>>] = Absent
    BY DEF Unborn
  <2>1. i # r /\ pc[i] # "done" /\ i \in AllItems
    BY <1>0, RowsThereAre
  <2>2. i # Subject(r) \/ call[r].job \notin Changing
    BY <1>0, <2>1 DEF DecisionInv, Known, Subject, Changing, Decisions
  <2>3. ~Holds(r, <<c, i>>)
    BY <2>1, <2>2 DEF DecisionInv, Values, Sets, Subject, Changing
  <2> QED BY <1>5, <2>1, <2>3 DEF DecisionInv, Unborn
<1>16. Logs'
  <2> SUFFICES ASSUME NEW t \in Requests, NEW x \in OldLogs \cup Requests,
                      Holds(t, <<"log", x>>)'
               PROVE  /\ pc'[t] \in {"respond", "commit"}
                      /\ \/ x = t /\ writes'[t][<<"log", x>>] = "recorded"
                         \/ x \in OldLogs /\ call[t].job = "sweep"
                               /\ writes'[t][<<"log", x>>] = Absent
    BY <1>0 DEF Logs
  <2>1. t # r /\ writes'[t][<<"log", x>>] = writes[t][<<"log", x>>]
    BY <1>1, RowsThereAre
  <2> QED BY <1>0, <2>1 DEF DecisionInv, Logs, Holds
<1>17. Audited'
  BY <1>0, <1>1, RowsThereAre DEF DecisionInv, Audited, Holds
<1>18. Submission'
  <2> SUFFICES ASSUME NEW i \in AllItems, Status(i)' \notin {Absent, "draft"}
               PROVE  db'[<<"submitted_at", i>>] # Absent
    BY DEF Submission
  <2>1. CASE ~Holds(r, <<"status", i>>)
    <3>1. db[<<"submitted_at", i>>] # Absent
      BY <1>5, <1>7, <2>1 DEF Status, DecisionInv, Submission
    <3>2. SUFFICES ASSUME i = Subject(r), Sets(r, "submitted_at", Absent),
                          Holds(r, <<"submitted_at", i>>)
                   PROVE  FALSE
      BY <1>5, <1>7, <3>1
    <3>3. call[r].job = "delete" /\ call[r].table # "file"
      BY <1>6, <3>2 DEF Sets
    <3> QED BY <1>4, <1>7, <2>1, <3>2, <3>3 DEF SetsAll, Subject
  <2>2. CASE Holds(r, <<"status", i>>)
    <3>1. i = Subject(r) /\ Sets(r, "status", Status(i)')
      BY <1>5, <1>7, <2>2 DEF Status
    <3>2. CASE call[r].job = "submit"
      <4>1. Holds(r, <<"submitted_at", i>>)
        BY <1>4, <3>1, <3>2 DEF SetsAll, Subject
      <4>2. Sets(r, "submitted_at", db'[<<"submitted_at", i>>])
        BY <1>5, <1>7, <4>1
      <4> QED BY <1>6, <3>2, <4>2 DEF Sets, Decisions
    <3>3. CASE call[r].job \in Decisions
      <4>1. i = call[r].item
        BY <3>1, <3>3 DEF Subject, Decisions
      <4>2. Exists(i)
        BY <1>7, <2>2, <3>3 DEF DecisionInv, Alive, Changing, Decisions
      <4>3. db[<<"submitted_at", i>>] # Absent
        BY <1>0, <3>3, <4>1, <4>2 DEF DecisionInv, Known, Changing
      <4>4. ~Holds(r, <<"submitted_at", i>>)
        BY <1>7, <3>3 DEF DecisionInv, Values, Sets, Decisions
      <4> QED BY <1>5, <1>7, <4>3, <4>4
    <3> QED BY <3>1, <3>2, <3>3 DEF Sets
  <2> QED BY <2>1, <2>2
<1>19. /\ \A s \in Requests : db[<<"log", s>>] # Absent => db'[<<"log", s>>] # Absent
       /\ call[r].job \in Decisions => db'[<<"log", r>>] # Absent
  BY CommitColumns
\* The marks of a state are written with it.
<1>21. ASSUME NEW i \in AllItems, ~Holds(r, <<"status", i>>)
       PROVE  /\ db'[<<"status", i>>] = db[<<"status", i>>]
              /\ db'[<<"submitted_at", i>>] = db[<<"submitted_at", i>>]
              /\ db'[<<"approver", i>>] = db[<<"approver", i>>]
  <2>1. ASSUME NEW c \in {"submitted_at", "approver"}, Holds(r, <<c, i>>)
        PROVE  FALSE
    <3>1. i = Subject(r) /\ Sets(r, c, writes[r][<<c, i>>])
      BY <1>7, <2>1 DEF DecisionInv, Values
    <3>2. \/ call[r].job \in {"submit"} \cup Decisions
          \/ call[r].job = "delete" /\ call[r].table # "file"
      BY <2>1, <3>1 DEF Sets
    <3>3. Holds(r, <<"status", i>>)
      BY <1>4, <1>7, <3>1, <3>2 DEF SetsAll, Subject, Decisions
    <3> QED BY <1>21, <3>3
  <2> QED BY <1>5, <1>7, <1>21, <2>1
<1>22. \A s \in Requests, i \in AllItems : Target(s)' = Target(s) /\ OrgOf(i)' = OrgOf(i)
  BY <1>0 DEF Target, OrgOf
<1>23. \A i \in AllItems :
           /\ \A s \in Deciders(i) : s \in Deciders(i)'
           /\ \A s \in Submissions(i) : s \in Submissions(i)'
           /\ HasBeenSubmitted(i) => HasBeenSubmitted(i)'
           /\ SubmittedAgain(i) => SubmittedAgain(i)'
  BY <1>0, <1>19, TracesStay
\* What the request itself leaves in the log.
<1>26. ASSUME NEW i \in AllItems, call[r].item = i
       PROVE  /\ call[r].job \in Decisions => r \in Deciders(i)'
              /\ call[r].job = "submit" => r \in Submissions(i)'
  <2>1. call[r].job \in Decisions => call[r].valid /\ UserOrg[call[r].user] = OrgOf(i)
    BY <1>0, <1>26 DEF DecisionInv, Known, Changing
  <2>2. call[r].job \in {"submit"} \cup Decisions => db'[<<"log", r>>] # Absent
    BY CommitColumns
  <2>3. call[r].job \in Decisions => r \in Deciders(i)'
    BY <1>0, <1>22, <1>26, <2>1, <2>2 DEF Deciders
  <2>4. call[r].job = "submit" => r \in Submissions(i)'
    BY <1>0, <1>26, <2>2 DEF Submissions
  <2> QED BY <2>3, <2>4
\* Who writes the status, and who the approver.
<1>27. ASSUME NEW i \in AllItems, Holds(r, <<"status", i>>)
       PROVE  \/ call[r].job = "create" /\ i = r /\ Status(i)' = "draft"
              \/ call[r].job = "submit" /\ i = call[r].item /\ Status(i)' = "submitted"
              \/ /\ call[r].job \in Decisions /\ i = call[r].item /\ Status(i)' = Target(r)
                 /\ Target(r) \in {"approved", "rejected"} /\ Exists(i)
              \/ call[r].job = "delete" /\ Status(i)' = Absent
  <2>1. i = Subject(r) /\ Sets(r, "status", Status(i)')
    BY <1>5, <1>7, <1>27 DEF Status
  <2>2. ASSUME call[r].job \in Decisions
        PROVE  Exists(i) /\ Target(r) \in {"approved", "rejected"}
    BY <1>7, <1>27, <2>2 DEF DecisionInv, Alive, Changing, Target, Decisions
  <2> QED BY <2>1, <2>2 DEF Sets, Subject, Decisions
<1>28. ASSUME NEW i \in AllItems, Holds(r, <<"approver", i>>), db'[<<"approver", i>>] # Absent
       PROVE  /\ call[r].job \in Decisions /\ i = call[r].item
              /\ db'[<<"approver", i>>] = call[r].user
  <2>1. i = Subject(r) /\ Sets(r, "approver", db'[<<"approver", i>>])
    BY <1>5, <1>7, <1>28
  <2> QED BY <1>28, <2>1 DEF Sets, Subject, Decisions
<1>29. ASSUME NEW i \in AllItems, call[r].item = i
       PROVE  /\ call[r].job = "submit" => i \notin Submitted
              /\ call[r].job \in Decisions => HasBeenSubmitted(i)
              /\ call[r].job \in Decisions /\ named[r] # Absent =>
                    SubmittedAgain(i) /\ (Exists(i) => db[<<"approver", i>>] # Absent)
  BY <1>0, <1>29 DEF DecisionInv, History, Traced
<1>30. ASSUME NEW i \in AllItems, db'[<<"approver", i>>] # Absent
       PROVE  \E s \in Deciders(i)' : call[s].user = db'[<<"approver", i>>]
  <2>1. CASE Holds(r, <<"approver", i>>)
    BY <1>26, <1>28, <1>30, <2>1
  <2>2. CASE ~Holds(r, <<"approver", i>>)
    <3>1. db'[<<"approver", i>>] = db[<<"approver", i>>]
      BY <1>5, <1>7, <2>2
    <3>2. PICK s \in Deciders(i) : call[s].user = db[<<"approver", i>>]
      BY <1>30, <3>1 DEF DecisionInv, DecisionsAreGenuine
    <3> QED BY <1>23, <3>1, <3>2
  <2> QED BY <2>1, <2>2
<1>31. ASSUME NEW i \in AllItems, Status(i)' \in {"approved", "rejected"}
       PROVE  /\ db'[<<"submitted_at", i>>] # Absent
              /\ db'[<<"approver", i>>] # Absent
              /\ \E s \in Deciders(i)' :
                    /\ Target(s) = Status(i)'
                    /\ call[s].user = db'[<<"approver", i>>] \/ SubmittedAgain(i)'
  <2>1. db'[<<"submitted_at", i>>] # Absent
    BY <1>6, <1>18, <1>31 DEF Submission, Statuses
  <2>2. CASE ~Holds(r, <<"status", i>>)
    <3>1. Status(i) \in {"approved", "rejected"} /\ Status(i)' = Status(i)
          /\ db'[<<"approver", i>>] = db[<<"approver", i>>]
      BY <1>21, <1>31, <2>2 DEF Status
    <3>2. PICK s \in Deciders(i) :
              /\ Target(s) = Status(i)
              /\ call[s].user = db[<<"approver", i>>] \/ SubmittedAgain(i)
      BY <3>1 DEF DecisionInv, DecisionsAreGenuine
    <3>3. db[<<"approver", i>>] # Absent
      BY <3>1 DEF DecisionInv, DecisionsAreGenuine
    <3> QED BY <1>23, <2>1, <3>1, <3>2, <3>3
  <2>3. CASE Holds(r, <<"status", i>>)
    <3>1. /\ call[r].job \in Decisions /\ i = call[r].item
          /\ Status(i)' = Target(r) /\ Exists(i)
      BY <1>6, <1>27, <1>31, <2>3 DEF Statuses
    <3>2. r \in Deciders(i)'
      BY <1>26, <3>1
    <3>3. call[r].user # Absent
      BY <1>6, CallType
    <3>4. CASE Holds(r, <<"approver", i>>)
      <4>1. Sets(r, "approver", db'[<<"approver", i>>])
        BY <1>5, <1>7, <3>4
      <4>2. db'[<<"approver", i>>] = call[r].user
        BY <3>1, <4>1 DEF Sets, Decisions
      <4> QED BY <2>1, <3>1, <3>2, <3>3, <4>2
    <3>5. CASE ~Holds(r, <<"approver", i>>)
      <4>1. named[r] = call[r].user
        BY <1>4, <3>1, <3>5 DEF SetsAll
      <4>2. SubmittedAgain(i) /\ db[<<"approver", i>>] # Absent
        BY <1>29, <3>1, <3>3, <4>1
      <4>3. db'[<<"approver", i>>] = db[<<"approver", i>>]
        BY <1>5, <1>7, <3>5
      <4> QED BY <1>23, <2>1, <3>1, <3>2, <4>2, <4>3
    <3> QED BY <3>4, <3>5
  <2> QED BY <2>2, <2>3
<1>32. ASSUME NEW i \in AllItems, Status(i)' = "submitted", db'[<<"approver", i>>] # Absent
       PROVE  SubmittedAgain(i)'
  <2>1. CASE ~Holds(r, <<"status", i>>)
    <3>1. Status(i) = "submitted" /\ db[<<"approver", i>>] # Absent
      BY <1>21, <1>32, <2>1 DEF Status
    <3> QED BY <1>23, <3>1 DEF DecisionInv, DecisionsAreGenuine
  <2>2. CASE Holds(r, <<"status", i>>)
    <3>1. call[r].job = "submit" /\ i = call[r].item
      BY <1>6, <1>27, <1>32, <2>2 DEF Statuses
    <3>2. ~Holds(r, <<"approver", i>>)
      BY <1>28, <1>32, <3>1 DEF Decisions
    <3>3. db[<<"approver", i>>] # Absent
      BY <1>5, <1>7, <1>32, <3>2
    <3>4. PICK s \in Submissions(i) : TRUE
      BY <1>29, <3>1, <3>3 DEF DecisionInv, History, Opened, HasBeenSubmitted
    <3>5. s # r
      BY <1>0, <3>4 DEF DecisionInv, History, LoggedLast, Submissions
    <3>6. r \in Submissions(i)' /\ s \in Submissions(i)'
      BY <1>23, <1>26, <3>1, <3>4
    <3> QED BY <3>5, <3>6 DEF SubmittedAgain
  <2> QED BY <2>1, <2>2
<1>24. ASSUME NEW i \in AllItems, Status(i)' = "draft"
       PROVE  (db[<<"submitted_at", i>>] = Absent /\ db[<<"approver", i>>] = Absent)'
  <2>1. CASE ~Holds(r, <<"status", i>>)
    BY <1>21, <1>24, <2>1 DEF Status, DecisionInv, DecisionsAreGenuine
  <2>2. CASE Holds(r, <<"status", i>>)
    <3>1. i = Subject(r) /\ Sets(r, "status", "draft")
      BY <1>5, <1>7, <1>24, <2>2 DEF Status
    <3>2. call[r].job = "create" /\ i = r
      BY <1>6, <3>1 DEF Sets, Target, Decisions, Subject, Statuses
    <3>3. \A c \in {"submitted_at", "approver"} : ~Holds(r, <<c, r>>)
      BY <1>3, <1>7, <3>2 DEF DecisionInv, Values, Sets, Decisions
    <3>4. \A c \in Columns : db[<<c, r>>] = Absent
      BY <1>0 DEF DecisionInv, Unborn
    <3> QED BY <1>5, <1>7, <3>2, <3>3, <3>4
  <2> QED BY <2>1, <2>2
<1>25. DecisionsAreGenuine'
  <2>1. \A i \in AllItems : \A s \in Deciders(i)' : s \in Requests
    BY DEF Deciders
  <2> QED BY <1>0, <1>22, <1>24, <1>30, <1>31, <1>32, <2>1 DEF DecisionsAreGenuine
<1>33. LoggedLast'
  <2> SUFFICES ASSUME NEW s \in Requests, db'[<<"log", s>>] # Absent
               PROVE  pc'[s] = "done"
    BY DEF LoggedLast
  <2>1. CASE db[<<"log", s>>] # Absent
    BY <1>0, <2>1 DEF DecisionInv, History, LoggedLast
  <2>2. CASE db[<<"log", s>>] = Absent
    <3>0. <<"log", s>> \in RowIds /\ s \notin OldLogs
      BY RowsThereAre, WorkspaceAssumption
    <3>1. Holds(r, <<"log", s>>) /\ s \notin OldLogs
      BY <1>2, <2>2, <3>0
    <3>2. s = r
      BY <3>1 DEF DecisionInv, Logs
    <3> QED BY <1>0, <3>2
  <2> QED BY <2>1, <2>2
<1>34. Opened'
  <2>1. ASSUME NEW i \in AllItems, Status(i)' \notin {Absent, "draft"}
        PROVE  HasBeenSubmitted(i)'
    <3>1. CASE ~Holds(r, <<"status", i>>)
      <4>1. Status(i)' = Status(i)
        BY <1>5, <1>7, <3>1 DEF Status
      <4> QED BY <1>23, <2>1, <4>1 DEF DecisionInv, History, Opened
    <3>2. CASE Holds(r, <<"status", i>>)
      <4>1. call[r].job \in {"submit"} \cup Decisions /\ i = call[r].item
        BY <1>27, <2>1, <3>2
      <4> QED BY <1>23, <1>26, <1>29, <4>1 DEF HasBeenSubmitted
    <3> QED BY <3>1, <3>2
  <2>2. ASSUME NEW i \in AllItems, db'[<<"approver", i>>] # Absent
        PROVE  HasBeenSubmitted(i)'
    <3>1. CASE ~Holds(r, <<"approver", i>>)
      <4>1. db[<<"approver", i>>] # Absent
        BY <1>5, <1>7, <2>2, <3>1
      <4> QED BY <1>23, <4>1 DEF DecisionInv, History, Opened
    <3>2. CASE Holds(r, <<"approver", i>>)
      BY <1>23, <1>28, <1>29, <2>2, <3>2
    <3> QED BY <3>1, <3>2
  <2>3. ASSUME NEW i \in AllItems, Status(i)' = "draft"
        PROVE  i \notin Submitted
    <3>1. CASE ~Holds(r, <<"status", i>>)
      <4>1. Status(i) = "draft"
        BY <1>5, <1>7, <2>3, <3>1 DEF Status
      <4> QED BY <4>1 DEF DecisionInv, History, Opened
    <3>2. CASE Holds(r, <<"status", i>>)
      <4>1. i = r
        BY <1>6, <1>27, <2>3, <3>2 DEF Statuses
      <4> QED BY <4>1, WorkspaceAssumption
    <3> QED BY <3>1, <3>2
  <2> QED BY <2>1, <2>2, <2>3 DEF Opened
<1>35. Traced'
  <2> SUFFICES ASSUME NEW t \in Requests, NEW i \in AllItems, pc'[t] \in {"write"} \cup Late,
                      call[t].item = i
               PROVE  /\ call[t].job = "submit" => i \notin Submitted
                      /\ call[t].job \in Decisions => HasBeenSubmitted(i)'
                      /\ call[t].job \in Decisions /\ named'[t] # Absent =>
                            SubmittedAgain(i)' /\ (Exists(i)' => db'[<<"approver", i>>] # Absent)
    BY <1>0 DEF Traced
  <2>1. t # r /\ pc[t] \in {"write"} \cup Late
    BY <1>0 DEF Late
  <2>2. /\ call[t].job = "submit" => i \notin Submitted
        /\ call[t].job \in Decisions => HasBeenSubmitted(i)
        /\ call[t].job \in Decisions /\ named[t] # Absent =>
              SubmittedAgain(i) /\ (Exists(i) => db[<<"approver", i>>] # Absent)
    BY <2>1 DEF DecisionInv, History, Traced
  <2>3. call[t].job \in Decisions /\ Exists(i)' => Exists(i)
    BY <1>0, <1>12, <2>1 DEF DecisionInv, Known, Changing
  <2> QED BY <1>0, <1>8, <1>23, <2>2, <2>3
<1>36. History'
  BY <1>33, <1>34, <1>35 DEF History
<1> QED BY <1>9, <1>10, <1>11, <1>13, <1>14, <1>15, <1>16, <1>17, <1>18, <1>25, <1>36
        DEF DecisionInv

LEMMA DecisionInit ==
    ASSUME Init
    PROVE  DecisionInv
<1>1. /\ \A r \in Requests : pc[r] = "idle"
      /\ \A r \in Requests, k \in RowIds : ~Holds(r, k)
  BY DEF Init, InitTransactions, NoWrites, Rows, Holds
<1>2. \A i \in AllItems :
          /\ Status(i) = IF i \in Submitted THEN "submitted"
                         ELSE IF i \in Items /\ ItemTable[i] = "approval" THEN "draft"
                         ELSE Absent
          /\ db[<<"submitted_at", i>>] = IF i \in Submitted THEN "recorded" ELSE Absent
          /\ db[<<"approver", i>>] = Absent
          /\ db[<<"text", i>>] = IF i \in Items THEN "original" ELSE Absent
  <2> SUFFICES ASSUME NEW i \in AllItems
               PROVE  /\ db[<<"status", i>>] = IF i \in Submitted THEN "submitted"
                                               ELSE IF i \in Items /\ ItemTable[i] = "approval"
                                                    THEN "draft" ELSE Absent
                      /\ db[<<"submitted_at", i>>] = IF i \in Submitted THEN "recorded"
                                                     ELSE Absent
                      /\ db[<<"approver", i>>] = Absent
                      /\ db[<<"text", i>>] = IF i \in Items THEN "original" ELSE Absent
    BY DEF Status
  <2> DEFINE rows == [k \in RowIds |->
           CASE k[1] = "text" /\ k[2] \in Items -> "original"
             [] k[1] = "status" /\ k[2] \in Submitted -> "submitted"
             [] k[1] = "status" /\ k[2] \in Items \ Submitted
                  /\ ItemTable[k[2]] = "approval" -> "draft"
             [] k[1] = "submitted_at" /\ k[2] \in Submitted -> "recorded"
             [] k[1] = "log" /\ k[2] \in OldLogs -> "recorded"
             [] OTHER -> Absent]
  <2>1. db = rows
    BY DEF Init, InitTransactions
  <2>2. \A c \in Columns : <<c, i>> \in RowIds
    BY RowsThereAre
  <2>3. rows[<<"text", i>>] = IF i \in Items THEN "original" ELSE Absent
    BY <2>2 DEF Columns
  <2>4. rows[<<"status", i>>] = IF i \in Submitted THEN "submitted"
                                ELSE IF i \in Items /\ ItemTable[i] = "approval"
                                     THEN "draft" ELSE Absent
    BY <2>2 DEF Columns
  <2>5. rows[<<"submitted_at", i>>] = IF i \in Submitted THEN "recorded" ELSE Absent
    BY <2>2 DEF Columns
  <2>6. rows[<<"approver", i>>] = Absent
    BY <2>2 DEF Columns
  <2> QED BY <2>1, <2>3, <2>4, <2>5, <2>6
<1>3. \A i \in Requests : i \in AllItems /\ i \notin Items /\ i \notin Submitted
  BY WorkspaceAssumption DEF AllItems
<1>4. Absent \notin Contents /\ Statuses \cup {"recorded"} \subseteq Contents
  BY WorkspaceContentsAssumption DEF Contents, Statuses
<1>5. Values /\ Complete /\ Exclusive /\ Known /\ Alive /\ Logs /\ Audited
  BY <1>1, RowsThereAre DEF Values, Complete, Exclusive, Known, Alive, Logs, Audited, Late
<1>6. Unborn
  BY <1>2, <1>3 DEF Unborn, Columns, Status
<1>7. Submission /\ DecisionsAreGenuine
  BY <1>2, <1>4 DEF Submission, DecisionsAreGenuine, Statuses
<1>8. Opened /\ Traced
  BY <1>1, <1>2, <1>4 DEF Opened, Traced, HasBeenSubmitted, Late
<1>9. LoggedLast
  <2> SUFFICES ASSUME NEW s \in Requests
               PROVE  db[<<"log", s>>] = Absent
    BY DEF LoggedLast
  <2>1. <<"log", s>> \in RowIds /\ s \notin OldLogs
    BY RowsThereAre, WorkspaceAssumption
  <2> QED BY <2>1 DEF Init, InitTransactions
<1> QED BY <1>5, <1>6, <1>7, <1>8, <1>9 DEF DecisionInv, History

LEMMA DecisionStep ==
    ASSUME TypeOK, Stages, DecisionInv, [Next]_vars
    PROVE  DecisionInv'
<1>1. CASE UNCHANGED vars
  <2>1. UNCHANGED <<pc, db, writes, call, named>>
    BY <1>1 DEF vars, locals
  <2>2. Values' /\ Complete' /\ Exclusive' /\ Known' /\ Alive'
    BY <2>1, SameSets DEF DecisionInv, Values, Complete, SetsAll, Exclusive, Known, Alive, Holds,
           Exists, TableOf, OrgOf
  <2>3. Unborn' /\ Logs' /\ Audited' /\ Submission'
    BY <2>1 DEF DecisionInv, Unborn, Logs, Audited, Submission, Holds, Status
  <2>4. \A i \in AllItems : /\ HasBeenSubmitted(i)' <=> HasBeenSubmitted(i)
                            /\ SubmittedAgain(i)' <=> SubmittedAgain(i)
                            /\ Status(i)' = Status(i) /\ Exists(i)' = Exists(i)
    BY <2>1 DEF HasBeenSubmitted, SubmittedAgain, Submissions, Status, Exists
  <2>5. Opened' /\ LoggedLast'
    BY <2>1, <2>4 DEF DecisionInv, History, Opened, LoggedLast
  <2>6. Traced'
    <3> SUFFICES ASSUME NEW t \in Requests, NEW i \in AllItems, pc[t] \in {"write"} \cup Late,
                        call[t].item = i
                 PROVE  /\ call[t].job = "submit" => i \notin Submitted
                        /\ call[t].job \in Decisions => HasBeenSubmitted(i)'
                        /\ call[t].job \in Decisions /\ named[t] # Absent =>
                              SubmittedAgain(i)' /\ (Exists(i)' => db[<<"approver", i>>] # Absent)
      BY <2>1 DEF Traced
    <3> QED BY <2>4 DEF DecisionInv, History, Traced
  <2> QED BY <2>1, <2>2, <2>3, <2>5, <2>6, SameDecisions DEF DecisionInv, History
<1>2. ASSUME NEW r \in Requests, Step(r)
      PROVE  DecisionInv'
  <2>1. CASE WritesItem(r)
    <3>1. Writing(r)
      BY <2>1, ItemFacts DEF DecisionInv
    <3> QED BY <3>1, DecisionItem
  <2> QED BY <1>2, <2>1, StepIs, DecisionQuiet, DecisionEnds, DecisionOther, DecisionCommit
<1> QED BY <1>1, <1>2 DEF Next

\* Whoever decides, submits, edits and deletes at the same time: an approver that is
\* named has decided the item, as a member of its organisation and with a trace in the
\* audit log; what reads approved or rejected has been submitted and decided in just
\* that way, by the approver it names unless it was submitted twice; what reads draft
\* bears no mark of a later state.
THEOREM DecisionsHold == Spec => []DecisionsAreGenuine
<1>1. Init => TypeOK /\ Stages /\ DecisionInv
  BY InitTypes, DecisionInit
<1>2. TypeOK /\ Stages /\ DecisionInv /\ [Next]_vars => (TypeOK /\ Stages /\ DecisionInv)'
  <2> SUFFICES ASSUME TypeOK, Stages, DecisionInv, [Next]_vars
               PROVE  (TypeOK /\ Stages /\ DecisionInv)'
    OBVIOUS
  <2>1. DecisionInv'
    BY DecisionStep
  <2>2. CASE UNCHANGED vars
    BY <2>1, <2>2, StutterTypes
  <2>3. ASSUME NEW r \in Requests, Step(r)
        PROVE  (TypeOK /\ Stages /\ DecisionInv)'
    BY <2>1, <2>3, TypeStep, StagesStep
  <2> QED BY <2>2, <2>3 DEF Next
<1>3. DecisionInv => DecisionsAreGenuine
  BY DEF DecisionInv
<1> QED BY <1>1, <1>2, <1>3, PTL DEF Spec
------------------------------------------------------------------------------
(* Files, the archive, and what is shown *)

\* What the steps do beside the database.
LEMMA QuietLocals ==
    ASSUME TypeOK, Stages, NEW r \in Requests, Quiet(r)
    PROVE  /\ stuck' = stuck
           /\ \/ disk' = disk /\ pc'[r] # "insert"
              \/ /\ disk' = disk \cup {r} /\ pc[r] = "begin" /\ pc'[r] = "insert"
                 /\ call[r].job = "create" /\ call[r].table = "file"
           /\ pc'[r] = "begin" => pc[r] = "idle"
           /\ \A t \in Requests \ {r} : loaded'[t] = loaded[t]
           /\ pc'[r] = "archive" => loaded'[r] = Old
           /\ pc'[r] # "delete_logs"
           /\ \A t \in Requests : \A i \in shown'[t] :
                 i \in shown[t] \/ OrgOf(i) = UserOrg[call[t].user]
<1> USE DEF GoTo, Continue, locals
<1>0. /\ pc \in [Requests -> Phases] /\ loaded \in [Requests -> SUBSET OldLogs]
      /\ shown \in [Requests -> SUBSET AllItems]
  BY DEF TypeOK, TransactionsTypeOK
<1>1. CASE Enter(r)
  BY <1>0, <1>1 DEF Enter
<1>2. CASE List(r) \/ Download(r)
  BY <1>0, <1>2 DEF List, Download, Loads, Begins, Visible
<1>3. CASE LoadForEdit(r) \/ LoadForDelete(r) \/ LoadForTransition(r)
  BY <1>0, <1>3 DEF LoadForEdit, LoadForDelete, LoadForTransition, Loads, Begins
<1>4. CASE WriteBytes(r)
  BY <1>0, <1>4 DEF WriteBytes, Begins
<1>5. CASE CountOld(r)
  BY <1>0, <1>5 DEF CountOld, Begins
<1>6. CASE SelectOld(r)
  BY <1>0, <1>6 DEF SelectOld
<1>7. CASE Respond(r)
  BY <1>0, <1>7 DEF Respond, Answer
<1> QED BY <1>1, <1>2, <1>3, <1>4, <1>5, <1>6, <1>7 DEF Quiet

LEMMA ItemLocals ==
    ASSUME TypeOK, Stages, NEW r \in Requests, WritesItem(r)
    PROVE  /\ \/ /\ call[r].job = "delete" /\ call[r].table = "file"
                 /\ disk' = disk \ {call[r].item} /\ stuck' = stuck
              \/ /\ call[r].job = "delete" /\ call[r].table = "file"
                 /\ disk' = disk /\ stuck' = stuck \cup {call[r].item}
              \/ /\ ~(call[r].job = "delete" /\ call[r].table = "file")
                 /\ disk' = disk /\ stuck' = stuck
           /\ call[r].job = "create" /\ call[r].table = "file" => pc[r] = "insert"
           /\ UNCHANGED <<shown, loaded>>
<1> USE DEF FlushEach, Flush, locals
<1>1. CASE Create(r)
  BY <1>1 DEF Create, Begins
<1>2. CASE Update(r) /\ Exists(call[r].item)
  BY <1>2 DEF Update, Stages, Decisions
<1>3. CASE DeleteRow(r)
  BY <1>3 DEF DeleteRow, Stages
<1>4. CASE InsertFile(r)
  BY <1>4 DEF InsertFile, Stages
<1>5. CASE RemoveFile(r)
  BY <1>5 DEF RemoveFile, Stages
<1> QED BY <1>1, <1>2, <1>3, <1>4, <1>5 DEF WritesItem

LEMMA OtherLocals ==
    ASSUME NEW r \in Requests, Archives(r) \/ DeleteLogs(r) \/ Audit(r)
    PROVE  UNCHANGED <<disk, stuck, shown, loaded>>
BY DEF Archives, InsertArchive, DeleteLogs, Audit, Flush, FlushEach, locals

LEMMA FilesStep ==
    ASSUME TypeOK, Stages, DecisionInv, FilesKept, NEW r \in Requests, Step(r)
    PROVE  FilesKept'
<1>0. /\ pc \in [Requests -> Phases] /\ call' = call /\ disk \subseteq AllItems
      /\ pc' = [pc EXCEPT ![r] = pc'[r]]
  <2>1. pc' \in [Requests -> Phases]
    BY TypeStep DEF TypeOK, TransactionsTypeOK
  <2> QED BY <2>1, StepIsLocal DEF TypeOK, TransactionsTypeOK
<1>1. /\ \A i \in AllItems : TableOf(i)' = TableOf(i)
      /\ \A i \in AllItems : Removers(i)' = Removers(i)
  BY <1>0 DEF TableOf, Removers
<1>2. \A t \in Requests : pc[t] \in {"write", "remove"} \cup Late /\ call[t].job \in Changing =>
          /\ TableOf(call[t].item) = call[t].table
          /\ call[t].item \in Requests => pc[call[t].item] = "done"
  BY DEF DecisionInv, Known
<1>3. CASE Quiet(r)
  <2>1. /\ UNCHANGED db
        /\ pc[r] \in {"idle", "begin", "select_old", "respond"}
        /\ pc'[r] \notin {"idle", "done", "failed"}
        /\ pc[r] = "respond" => pc'[r] = "commit"
        /\ pc'[r] \in Late =>
              pc[r] \in Late \/ call[r].job \in {"list", "download", "sweep", "edit"}
    BY <1>3, QuietFacts DEF Late
  <2>2. /\ stuck' = stuck
        /\ \/ disk' = disk /\ pc'[r] # "insert"
           \/ /\ disk' = disk \cup {r} /\ pc[r] = "begin" /\ pc'[r] = "insert"
              /\ call[r].job = "create" /\ call[r].table = "file"
        /\ pc'[r] = "begin" => pc[r] = "idle"
    BY <1>3, QuietLocals
  <2>3. \A t \in Requests : pc'[t] \in Late /\ call[t].job = "delete" /\ call[t].table = "file" =>
            call[t].item \notin disk' \/ call[t].item \in stuck'
    BY <1>0, <1>2, <2>1, <2>2 DEF FilesKept, Late, Changing
  <2>4. \A t \in Requests : call[t].job = "create" /\ call[t].table = "file"
                              /\ pc'[t] \in {"insert"} \cup Late => t \in disk'
    BY <1>0, <2>1, <2>2 DEF FilesKept
  <2>5. \A i \in disk' \cap Requests : call[i].job = "create" /\ call[i].table = "file"
                                         /\ pc'[i] \notin {"idle", "begin"}
    BY <1>0, <2>1, <2>2 DEF FilesKept
  <2>6. ASSUME NEW i \in AllItems, TableOf(i) = "file", Exists(i), i \notin disk'
        PROVE  \E s \in Removers(i) : pc'[s] \in {"failed"} \cup Late
    <3>1. PICK s \in Removers(i) : pc[s] \in {"failed"} \cup Late
      BY <2>2, <2>6 DEF FilesKept
    <3> QED BY <1>0, <2>1, <3>1 DEF Late, Removers
  <2>7. ASSUME NEW i \in AllItems, TableOf(i) = "file", ~Exists(i), i \in disk'
        PROVE  i \in stuck' \/ (i \in Requests /\ pc'[i] # "done")
    BY <1>0, <2>1, <2>2, <2>7 DEF FilesKept
  <2> QED BY <1>0, <1>1, <2>1, <2>3, <2>4, <2>5, <2>6, <2>7 DEF FilesKept, Exists
<1>4. CASE Ends(r)
  <2>1. UNCHANGED <<db, disk, stuck>> /\ pc'[r] = "failed" /\ pc[r] # "done"
    BY <1>0, <1>4, EndsFacts DEF Ends, locals
  <2>2. ASSUME NEW i \in AllItems, TableOf(i) = "file", Exists(i), i \notin disk'
        PROVE  \E s \in Removers(i) : pc'[s] \in {"failed"} \cup Late
    <3>1. PICK s \in Removers(i) : pc[s] \in {"failed"} \cup Late
      BY <2>1, <2>2 DEF FilesKept
    <3> QED BY <1>0, <2>1, <3>1 DEF Removers
  <2>3. ASSUME NEW i \in AllItems, TableOf(i) = "file", ~Exists(i), i \in disk'
        PROVE  i \in stuck' \/ (i \in Requests /\ pc'[i] # "done")
    BY <1>0, <2>1, <2>3 DEF FilesKept
  <2>4. \A t \in Requests : pc'[t] \in {"insert"} \cup Late => pc'[t] = pc[t]
    BY <1>0, <2>1 DEF Late
  <2>5. \A t \in Requests : pc'[t] = pc[t] \/ pc'[t] = "failed"
    BY <1>0, <2>1
  <2> QED BY <1>0, <1>1, <2>1, <2>2, <2>3, <2>4, <2>5 DEF FilesKept, Exists
<1>5. CASE WritesItem(r)
  <2>1. Writing(r)
    BY <1>5, ItemFacts DEF DecisionInv
  <2>2. /\ UNCHANGED db /\ pc'[r] \in {"audit", "respond"}
        /\ \/ call[r].job = "create" /\ pc[r] \in {"begin", "insert"}
           \/ call[r].job \in Changing /\ pc[r] \in {"write", "remove"}
    BY <2>1 DEF Writing
  <2>3. /\ \/ /\ call[r].job = "delete" /\ call[r].table = "file"
              /\ disk' = disk \ {call[r].item} /\ stuck' = stuck
           \/ /\ call[r].job = "delete" /\ call[r].table = "file"
              /\ disk' = disk /\ stuck' = stuck \cup {call[r].item}
           \/ /\ ~(call[r].job = "delete" /\ call[r].table = "file")
              /\ disk' = disk /\ stuck' = stuck
        /\ call[r].job = "create" /\ call[r].table = "file" => pc[r] = "insert"
    BY <1>5, ItemLocals
  <2>4. \A t \in Requests : pc'[t] \in Late /\ call[t].job = "delete" /\ call[t].table = "file" =>
            call[t].item \notin disk' \/ call[t].item \in stuck'
    BY <1>0, <2>2, <2>3 DEF FilesKept
  <2>5. \A t \in Requests : call[t].job = "create" /\ call[t].table = "file"
                              /\ pc'[t] \in {"insert"} \cup Late => t \in disk'
    BY <1>0, <1>2, <2>2, <2>3 DEF FilesKept, Late, Changing, Decisions
  <2>6. \A i \in disk' \cap Requests : call[i].job = "create" /\ call[i].table = "file"
                                         /\ pc'[i] \notin {"idle", "begin"}
    BY <1>0, <2>2, <2>3 DEF FilesKept
  <2>7. ASSUME NEW i \in AllItems, TableOf(i) = "file", Exists(i), i \notin disk'
        PROVE  \E s \in Removers(i) : pc'[s] \in {"failed"} \cup Late
    <3>1. CASE i \in disk
      BY <2>2, <2>3, <2>7, <3>1 DEF Removers, Late
    <3>2. CASE i \notin disk
      <4>1. PICK s \in Removers(i) : pc[s] \in {"failed"} \cup Late
        BY <2>7, <3>2 DEF FilesKept
      <4> QED BY <1>0, <2>2, <4>1 DEF Late, Removers
    <3> QED BY <3>1, <3>2
  <2>8. ASSUME NEW i \in AllItems, TableOf(i) = "file", ~Exists(i), i \in disk'
        PROVE  i \in stuck' \/ (i \in Requests /\ pc'[i] # "done")
    BY <1>0, <2>2, <2>3, <2>8 DEF FilesKept
  <2> QED BY <1>0, <1>1, <2>2, <2>4, <2>5, <2>6, <2>7, <2>8 DEF FilesKept, Exists
<1>6. CASE Archives(r) \/ DeleteLogs(r) \/ Audit(r)
  <2>1. /\ UNCHANGED <<db, disk, stuck>>
        /\ \/ pc[r] = "archive" /\ pc'[r] = "delete_logs" /\ call[r].job = "sweep"
           \/ pc[r] = "delete_logs" /\ pc'[r] = "respond" /\ call[r].job = "sweep"
           \/ pc[r] = "audit" /\ pc'[r] = "respond"
    BY <1>6, OtherFacts, OtherLocals
  <2>2. \A t \in Requests : pc'[t] \in {"insert"} \cup Late =>
            pc[t] \in {"insert"} \cup Late \/ call[t].job = "sweep"
    BY <1>0, <2>1 DEF Late
  <2>3. ASSUME NEW i \in AllItems, TableOf(i) = "file", Exists(i), i \notin disk'
        PROVE  \E s \in Removers(i) : pc'[s] \in {"failed"} \cup Late
    <3>1. PICK s \in Removers(i) : pc[s] \in {"failed"} \cup Late
      BY <2>1, <2>3 DEF FilesKept
    <3> QED BY <1>0, <2>1, <3>1 DEF Late, Removers
  <2>4. ASSUME NEW i \in AllItems, TableOf(i) = "file", ~Exists(i), i \in disk'
        PROVE  i \in stuck' \/ (i \in Requests /\ pc'[i] # "done")
    BY <1>0, <2>1, <2>4 DEF FilesKept
  <2>5. \A t \in Requests : pc'[t] \in Late /\ call[t].job = "delete" => pc[t] \in Late
    BY <1>0, <2>1 DEF Late
  <2>6. \A t \in Requests : pc'[t] \in {"idle", "begin"} => pc'[t] = pc[t]
    BY <1>0, <2>1
  <2> QED BY <1>0, <1>1, <2>1, <2>2, <2>3, <2>4, <2>5, <2>6 DEF FilesKept, Exists
<1>7. CASE Commit(r)
  <2>1. /\ UNCHANGED <<disk, stuck>> /\ pc[r] = "commit" /\ pc[r] \in Late /\ pc'[r] = "done"
    BY <1>0, <1>7, CommitFacts DEF Late
  <2>2. SetsAll(r)
    BY <1>7, CommitColumns
  <2>3. \A i \in AllItems :
            \/ db'[<<"text", i>>] = db[<<"text", i>>] /\ ~Holds(r, <<"text", i>>)
            \/ /\ i = Subject(r) /\ Holds(r, <<"text", i>>)
               /\ Sets(r, "text", db'[<<"text", i>>])
    BY <1>7, CommitColumns DEF Columns
  <2>4. \A i \in AllItems : Exists(i)' /\ ~Exists(i) => call[r].job = "create" /\ i = r
    BY <1>7, CommitColumns
  <2>5. {"original", "edited"} \subseteq Contents /\ Absent \notin Contents
    BY WorkspaceContentsAssumption DEF Contents
  <2>6. r \notin Items /\ r \in AllItems
    BY WorkspaceAssumption DEF AllItems
  <2>7. ASSUME NEW i \in AllItems, TableOf(i) = "file", Exists(i)', i \notin disk'
        PROVE  \E s \in Removers(i) : pc'[s] \in {"failed"} \cup Late
    <3>1. Exists(i)
      BY <2>1, <2>4, <2>6, <2>7 DEF FilesKept, TableOf
    <3>2. PICK s \in Removers(i) : pc[s] \in {"failed"} \cup Late
      BY <2>1, <2>7, <3>1 DEF FilesKept
    <3>3. s # r
      <4> SUFFICES ASSUME s = r
                   PROVE  FALSE
        OBVIOUS
      <4>1. call[r].job = "delete" /\ Holds(r, <<"text", i>>)
        BY <2>2, <3>2 DEF Removers, SetsAll
      <4>2. db'[<<"text", i>>] = Absent
        BY <2>3, <4>1 DEF Sets, Decisions
      <4> QED BY <2>7, <4>2 DEF Exists
    <3> QED BY <1>0, <3>2, <3>3 DEF Removers
  <2>8. ASSUME NEW i \in AllItems, TableOf(i) = "file", ~Exists(i)', i \in disk'
        PROVE  i \in stuck' \/ (i \in Requests /\ pc'[i] # "done")
    <3>1. CASE Exists(i)
      <4>1. i = Subject(r) /\ Sets(r, "text", Absent)
        BY <2>3, <2>8, <3>1 DEF Exists
      <4>2. call[r].job = "delete" /\ call[r].item = i
        BY <2>5, <4>1 DEF Sets, Subject
      <4>3. call[r].table = "file"
        BY <1>2, <2>1, <2>8, <4>2 DEF Changing
      <4> QED BY <2>1, <2>8, <4>2, <4>3 DEF FilesKept
    <3>2. CASE ~Exists(i)
      <4>1. i \in stuck \/ (i \in Requests /\ pc[i] # "done")
        BY <2>1, <2>8, <3>2 DEF FilesKept
      <4>2. i # r
        <5> SUFFICES ASSUME i = r
                     PROVE  FALSE
          OBVIOUS
        <5>1. call[r].job = "create" /\ Holds(r, <<"text", r>>)
          BY <2>1, <2>2, <2>8 DEF FilesKept, SetsAll
        <5>2. db'[<<"text", r>>] = "original"
          BY <2>3, <2>6, <5>1 DEF Sets, Decisions
        <5> QED BY <2>5, <2>8, <5>2 DEF Exists
      <4> QED BY <1>0, <2>1, <4>1, <4>2
    <3> QED BY <3>1, <3>2
  <2>9. \A t \in Requests : pc'[t] = pc[t] \/ pc'[t] = "done"
    BY <1>0, <2>1
  <2>10. \A t \in Requests : pc'[t] \in {"insert"} \cup Late => pc'[t] = pc[t]
    BY <1>0, <2>1 DEF Late
  <2> QED BY <1>0, <1>1, <2>1, <2>7, <2>8, <2>9, <2>10 DEF FilesKept
<1> QED BY <1>3, <1>4, <1>5, <1>6, <1>7, StepIs
LEMMA SweptStep ==
    ASSUME TypeOK, Stages, DecisionInv, Swept, NEW r \in Requests, Step(r)
    PROVE  Swept'
<1> DEFINE Held(t, x) == Holds(t, <<"archive", x>>)
           Dropped(t, x) == Holds(t, <<"log", x>>)
<1>0. /\ pc \in [Requests -> Phases] /\ call' = call
      /\ pc' = [pc EXCEPT ![r] = pc'[r]]
      /\ \A t \in Requests \ {r} : loaded'[t] = loaded[t]
      /\ loaded \in [Requests -> SUBSET OldLogs]
  <2>1. pc' \in [Requests -> Phases]
    BY TypeStep DEF TypeOK, TransactionsTypeOK
  <2> QED BY <2>1, StepIsLocal DEF TypeOK, TransactionsTypeOK
<1>1. \A x \in OldLogs : <<"log", x>> \in RowIds /\ <<"archive", x>> \in RowIds
  BY RowsThereAre
<1>2. Absent \notin Contents /\ "recorded" \in Contents /\ Untouched \notin Contents
      /\ Absent # Untouched /\ OldLogs \cap Requests = {}
  BY TransactionsAssumption, WorkspaceContentsAssumption, WorkspaceAssumption DEF Contents
\* The log rows that are held, of the old ones.
<1>3. \A t \in Requests, x \in OldLogs : Dropped(t, x) =>
          pc[t] \in {"respond", "commit"} /\ writes[t][<<"log", x>>] = Absent
  BY <1>2 DEF DecisionInv, Logs
<1>4. \A t \in Requests, x \in OldLogs \cup Requests : Held(t, x) =>
          /\ pc[t] \in {"delete_logs", "respond", "commit"}
          /\ call[t].job = "sweep" /\ x \in OldLogs
          /\ writes[t][<<"archive", x>>] = "recorded"
  BY DEF Swept, ArchiveRows
\* Swept, of one request and row at a time.
<1>5. ASSUME \A t \in Requests, x \in OldLogs \cup Requests : Held(t, x)' =>
                 /\ pc'[t] \in {"delete_logs", "respond", "commit"}
                 /\ call[t].job = "sweep" /\ x \in OldLogs
                 /\ writes'[t][<<"archive", x>>] = "recorded",
             \A t \in Requests, u \in Requests, x \in OldLogs :
                 Held(t, x)' /\ Held(u, x)' => t = u,
             \A t \in Requests, x \in OldLogs :
                 /\ pc'[t] = "archive" /\ db'[<<"log", x>>] # Absent => x \in loaded'[t]
                 /\ pc'[t] = "delete_logs" => (db'[<<"log", x>>] # Absent <=> Held(t, x)')
                 /\ pc'[t] \in {"respond", "commit"} => (Held(t, x)' <=> Dropped(t, x)'),
             \A x \in OldLogs :
                 \/ db'[<<"log", x>>] = "recorded" /\ db'[<<"archive", x>>] = Absent
                 \/ db'[<<"log", x>>] = Absent /\ db'[<<"archive", x>>] = "recorded"
      PROVE  Swept'
  <2>1. ArchiveRows' /\ ArchivedOnce' /\ InOnePlace'
    BY <1>0, <1>5 DEF ArchiveRows, ArchivedOnce, InOnePlace
  <2>2. Chosen' /\ Moving' /\ Moved'
    BY <1>5 DEF Chosen, Moving, Moved, Old
  <2> QED BY <2>1, <2>2 DEF Swept
<1>6. /\ \A t \in Requests, u \in Requests, x \in OldLogs : Held(t, x) /\ Held(u, x) => t = u
      /\ \A t \in Requests, x \in OldLogs :
            /\ pc[t] = "archive" /\ db[<<"log", x>>] # Absent => x \in loaded[t]
            /\ pc[t] = "delete_logs" => (db[<<"log", x>>] # Absent <=> Held(t, x))
            /\ pc[t] \in {"respond", "commit"} => (Held(t, x) <=> Dropped(t, x))
      /\ \A x \in OldLogs :
            \/ db[<<"log", x>>] = "recorded" /\ db[<<"archive", x>>] = Absent
            \/ db[<<"log", x>>] = Absent /\ db[<<"archive", x>>] = "recorded"
  BY DEF Swept, ArchivedOnce, Chosen, Moving, Moved, InOnePlace, Old
\* Steps that leave these rows alone.
<1>7. ASSUME UNCHANGED db,
             \A t \in Requests, x \in OldLogs \cup Requests :
                 /\ writes'[t][<<"log", x>>] = writes[t][<<"log", x>>]
                 /\ writes'[t][<<"archive", x>>] = writes[t][<<"archive", x>>],
             pc[r] \in {"respond", "commit"} => pc'[r] \in {"respond", "commit"},
             pc[r] # "delete_logs", pc'[r] # "delete_logs",
             pc'[r] = "archive" => \A x \in OldLogs : db[<<"log", x>>] # Absent => x \in loaded'[r]
      PROVE  Swept'
  <2>1. \A t \in Requests, x \in OldLogs \cup Requests :
            (Held(t, x)' <=> Held(t, x)) /\ (Dropped(t, x)' <=> Dropped(t, x))
    BY <1>7 DEF Holds
  <2>2. ASSUME NEW t \in Requests, NEW x \in OldLogs \cup Requests, Held(t, x)'
        PROVE  /\ pc'[t] \in {"delete_logs", "respond", "commit"}
               /\ call[t].job = "sweep" /\ x \in OldLogs
               /\ writes'[t][<<"archive", x>>] = "recorded"
    <3>1. /\ pc[t] \in {"delete_logs", "respond", "commit"}
          /\ call[t].job = "sweep" /\ x \in OldLogs
          /\ writes[t][<<"archive", x>>] = "recorded"
      BY <1>4, <2>1, <2>2
    <3> QED BY <1>0, <1>7, <3>1
  <2>3. ASSUME NEW t \in Requests, NEW x \in OldLogs
        PROVE  /\ pc'[t] = "archive" /\ db'[<<"log", x>>] # Absent => x \in loaded'[t]
               /\ pc'[t] = "delete_logs" => (db'[<<"log", x>>] # Absent <=> Held(t, x)')
               /\ pc'[t] \in {"respond", "commit"} => (Held(t, x)' <=> Dropped(t, x)')
    <3>1. CASE t # r
      BY <1>0, <1>6, <1>7, <2>1, <3>1
    <3>2. CASE t = r
      <4>1. pc[r] \in {"respond", "commit"} => (Held(r, x) <=> Dropped(r, x))
        BY <1>6
      <4>2. pc[r] \notin {"respond", "commit"} => ~Held(r, x) /\ ~Dropped(r, x)
        BY <1>3, <1>4, <1>7
      <4> QED BY <1>7, <2>1, <3>2, <4>1, <4>2
    <3> QED BY <3>1, <3>2
  <2>4. \A t \in Requests, u \in Requests, x \in OldLogs : Held(t, x)' /\ Held(u, x)' => t = u
    BY <1>6, <2>1
  <2>5. \A x \in OldLogs :
            \/ db'[<<"log", x>>] = "recorded" /\ db'[<<"archive", x>>] = Absent
            \/ db'[<<"log", x>>] = Absent /\ db'[<<"archive", x>>] = "recorded"
    BY <1>6, <1>7
  <2> QED BY <1>5, <2>2, <2>3, <2>4, <2>5
<1>8. CASE Quiet(r)
  <2>1. /\ UNCHANGED <<db, writes>>
        /\ pc[r] \in {"idle", "begin", "select_old", "respond"}
        /\ pc[r] = "respond" => pc'[r] = "commit"
    BY <1>8, QuietFacts
  <2>2. pc'[r] # "delete_logs" /\ (pc'[r] = "archive" => loaded'[r] = Old)
    BY <1>8, QuietLocals
  <2> QED BY <1>7, <2>1, <2>2 DEF Old
<1>9. CASE WritesItem(r)
  <2>1. Writing(r)
    BY <1>9, ItemFacts DEF DecisionInv
  <2>2. /\ UNCHANGED db /\ pc'[r] \in {"audit", "respond"}
        /\ pc[r] \in {"begin", "insert", "write", "remove"}
    BY <2>1 DEF Writing
  <2>3. \A t \in Requests, x \in OldLogs \cup Requests :
            /\ writes'[t][<<"log", x>>] = writes[t][<<"log", x>>]
            /\ writes'[t][<<"archive", x>>] = writes[t][<<"archive", x>>]
    BY <2>1, RowsThereAre DEF Writing
  <2> QED BY <1>7, <2>2, <2>3
\* The other steps: what r holds before and after, what another one holds.
<1>10. ASSUME \A t \in Requests \ {r}, k \in RowIds : writes'[t][k] = writes[t][k],
              \A x \in OldLogs : ~(Held(r, x)' /\ \E t \in Requests \ {r} : Held(t, x)),
              \A x \in OldLogs \cup Requests : Held(r, x)' =>
                 /\ pc'[r] \in {"delete_logs", "respond", "commit"}
                 /\ call[r].job = "sweep" /\ x \in OldLogs
                 /\ writes'[r][<<"archive", x>>] = "recorded",
              \A x \in OldLogs :
                 /\ pc'[r] # "archive"
                 /\ pc'[r] = "delete_logs" => (db'[<<"log", x>>] # Absent <=> Held(r, x)')
                 /\ pc'[r] \in {"respond", "commit"} => (Held(r, x)' <=> Dropped(r, x)'),
              \A x \in OldLogs :
                 \/ db'[<<"log", x>>] = db[<<"log", x>>]
                       /\ db'[<<"archive", x>>] = db[<<"archive", x>>]
                 \/ /\ db'[<<"log", x>>] = Absent /\ db'[<<"archive", x>>] = "recorded"
                    /\ Held(r, x) /\ Dropped(r, x)
       PROVE  Swept'
  <2>1. \A t \in Requests \ {r}, x \in OldLogs \cup Requests :
            /\ Held(t, x)' <=> Held(t, x)
            /\ Dropped(t, x)' <=> Dropped(t, x)
            /\ writes'[t][<<"archive", x>>] = writes[t][<<"archive", x>>]
    BY <1>10, RowsThereAre DEF Holds
  <2>2. ASSUME NEW t \in Requests, NEW x \in OldLogs \cup Requests, Held(t, x)'
        PROVE  /\ pc'[t] \in {"delete_logs", "respond", "commit"}
               /\ call[t].job = "sweep" /\ x \in OldLogs
               /\ writes'[t][<<"archive", x>>] = "recorded"
    <3>1. CASE t = r
      BY <1>10, <2>2, <3>1
    <3>2. CASE t # r
      <4>1. /\ pc[t] \in {"delete_logs", "respond", "commit"}
            /\ call[t].job = "sweep" /\ x \in OldLogs
            /\ writes[t][<<"archive", x>>] = "recorded"
        BY <1>4, <2>1, <2>2, <3>2
      <4> QED BY <1>0, <2>1, <3>2, <4>1
    <3> QED BY <3>1, <3>2
  <2>3. ASSUME NEW t \in Requests, NEW u \in Requests, NEW x \in OldLogs, Held(t, x)', Held(u, x)'
        PROVE  t = u
    <3>1. ~(Held(r, x)' /\ \E v \in Requests \ {r} : Held(v, x))
      BY <1>10
    <3> QED BY <1>6, <2>1, <2>3, <3>1
  <2>4. ASSUME NEW t \in Requests, NEW x \in OldLogs
        PROVE  /\ pc'[t] = "archive" /\ db'[<<"log", x>>] # Absent => x \in loaded'[t]
               /\ pc'[t] = "delete_logs" => (db'[<<"log", x>>] # Absent <=> Held(t, x)')
               /\ pc'[t] \in {"respond", "commit"} => (Held(t, x)' <=> Dropped(t, x)')
    <3>1. CASE t = r
      BY <1>10, <3>1
    <3>2. CASE t # r
      <4>1. /\ pc[t] = "archive" /\ db[<<"log", x>>] # Absent => x \in loaded[t]
            /\ pc[t] = "delete_logs" => (db[<<"log", x>>] # Absent <=> Held(t, x))
            /\ pc[t] \in {"respond", "commit"} => (Held(t, x) <=> Dropped(t, x))
        BY <1>6
      <4>2. pc'[t] = pc[t] /\ loaded'[t] = loaded[t]
            /\ (Held(t, x)' <=> Held(t, x)) /\ (Dropped(t, x)' <=> Dropped(t, x))
        BY <1>0, <2>1, <3>2
      <4>3. CASE db'[<<"log", x>>] = db[<<"log", x>>]
        BY <4>1, <4>2, <4>3
      <4>4. CASE db'[<<"log", x>>] = Absent /\ Held(r, x)
        <5>1. ~Held(t, x)
          BY <1>6, <3>2, <4>4
        <5> QED BY <4>1, <4>2, <4>4, <5>1
      <4> QED BY <1>10, <4>3, <4>4
    <3> QED BY <3>1, <3>2
  <2>5. \A x \in OldLogs :
            \/ db'[<<"log", x>>] = "recorded" /\ db'[<<"archive", x>>] = Absent
            \/ db'[<<"log", x>>] = Absent /\ db'[<<"archive", x>>] = "recorded"
    BY <1>6, <1>10
  <2> QED BY <1>5, <2>2, <2>3, <2>4, <2>5
<1>11. CASE Ends(r)
  <2>1. UNCHANGED db /\ pc'[r] = "failed"
        /\ \A t \in Requests, k \in RowIds :
              writes'[t][k] = IF t = r THEN Untouched ELSE writes[t][k]
    BY <1>0, <1>11, EndsFacts
  <2>2. \A x \in OldLogs \cup Requests : ~Held(r, x)'
    BY <2>1, RowsThereAre DEF Holds
  <2> QED BY <1>10, <2>1, <2>2
<1>12. CASE Audit(r)
  <2>1. /\ UNCHANGED db /\ pc[r] = "audit" /\ pc'[r] = "respond"
        /\ \A t \in Requests, k \in RowIds :
              writes'[t][k] = IF t = r /\ k = <<"log", r>> THEN "recorded" ELSE writes[t][k]
    BY <1>12, AuditWrites, OtherFacts DEF Audit
  <2>2. ASSUME NEW x \in OldLogs \cup Requests
        PROVE  ~Held(r, x) /\ ~Held(r, x)'
    <3>1. ~Held(r, x)
      BY <1>4, <2>1
    <3>2. writes'[r][<<"archive", x>>] = writes[r][<<"archive", x>>]
      BY <1>12, OtherFacts, <2>1
    <3> QED BY <3>1, <3>2 DEF Holds
  <2>3. \A x \in OldLogs : ~Dropped(r, x) /\ ~Dropped(r, x)'
    BY <1>2, <1>3, <2>1, RowsThereAre DEF Holds
  <2> QED BY <1>10, <2>1, <2>2, <2>3
<1>13. CASE Archives(r)
  <2>1. /\ UNCHANGED db /\ pc[r] = "archive" /\ pc'[r] = "delete_logs" /\ call[r].job = "sweep"
    BY <1>13, OtherFacts DEF Archives, InsertArchive
  <2>2. \A t \in Requests, k \in RowIds :
              writes'[t][k] = IF t = r /\ k \in {<<"archive", x>> : x \in loaded[r]}
                              THEN "recorded" ELSE writes[t][k]
    BY <1>13, InsertArchiveWrites DEF Archives
  <2>3. loaded[r] \subseteq OldLogs
    BY <1>0
  <2>4. \A x \in OldLogs \cup Requests : ~Held(r, x)
    BY <1>4, <2>1
  <2>5. \A x \in OldLogs \cup Requests :
            /\ Held(r, x)' <=> x \in loaded[r]
            /\ x \in loaded[r] => writes'[r][<<"archive", x>>] = "recorded"
    BY <1>2, <2>2, <2>4, RowsThereAre DEF Holds
  <2>6. \A t \in Requests \ {r}, x \in loaded[r] : ~Held(t, x)
    BY <1>13, <2>1 DEF Archives, InsertArchive, Free
  <2>7. \A x \in loaded[r] : db[<<"archive", x>>] = Absent
    BY <1>13 DEF Archives
  <2>8. \A x \in OldLogs : db[<<"log", x>>] # Absent <=> x \in loaded[r]
    BY <1>2, <1>6, <2>1, <2>3, <2>7
  <2> QED BY <1>10, <2>1, <2>2, <2>3, <2>5, <2>6, <2>8
<1>14. CASE DeleteLogs(r)
  <2>1. /\ UNCHANGED db /\ pc[r] = "delete_logs" /\ pc'[r] = "respond" /\ call[r].job = "sweep"
    BY <1>14, OtherFacts DEF DeleteLogs
  <2>2. \A t \in Requests, k \in RowIds :
              writes'[t][k] = IF t = r /\ k \in {<<"log", x>> : x \in Old} THEN Absent
                              ELSE writes[t][k]
    BY <1>14, DeleteLogsWrites
  <2>3. \A x \in OldLogs : ~Dropped(r, x)
    BY <1>3, <2>1
  <2>4. \A x \in OldLogs \cup Requests :
            /\ Held(r, x)' <=> Held(r, x)
            /\ writes'[r][<<"archive", x>>] = writes[r][<<"archive", x>>]
    BY <2>2, RowsThereAre DEF Holds
  <2>5. \A x \in OldLogs : Dropped(r, x)' <=> x \in Old
    BY <1>2, <2>2, <2>3, RowsThereAre DEF Holds
  <2>6. \A x \in OldLogs : x \in Old <=> Held(r, x)
    BY <1>6, <2>1 DEF Old
  <2>7. \A x \in OldLogs : ~(Held(r, x)' /\ \E t \in Requests \ {r} : Held(t, x))
    BY <1>6, <2>4
  <2> QED BY <1>4, <1>10, <2>1, <2>2, <2>4, <2>5, <2>6, <2>7
<1>15. CASE Commit(r)
  <2>1. /\ pc[r] = "commit" /\ pc'[r] = "done"
        /\ \A k \in RowIds : db'[k] = IF Holds(r, k) THEN writes[r][k] ELSE db[k]
        /\ \A t \in Requests, k \in RowIds :
              writes'[t][k] = IF t = r THEN Untouched ELSE writes[t][k]
    BY <1>0, <1>15, CommitFacts
  <2>2. \A x \in OldLogs \cup Requests : ~Held(r, x)'
    BY <2>1, RowsThereAre DEF Holds
  <2>3. ASSUME NEW x \in OldLogs
        PROVE  \/ db'[<<"log", x>>] = db[<<"log", x>>]
                     /\ db'[<<"archive", x>>] = db[<<"archive", x>>]
               \/ /\ db'[<<"log", x>>] = Absent /\ db'[<<"archive", x>>] = "recorded"
                  /\ Held(r, x) /\ Dropped(r, x)
    <3>1. Held(r, x) <=> Dropped(r, x)
      BY <1>6, <2>1
    <3>2. Held(r, x) => writes[r][<<"archive", x>>] = "recorded"
      BY <1>4
    <3>3. Dropped(r, x) => writes[r][<<"log", x>>] = Absent
      BY <1>3
    <3> QED BY <1>1, <2>1, <3>1, <3>2, <3>3
  <2> QED BY <1>10, <2>1, <2>2, <2>3
<1> QED BY <1>8, <1>9, <1>11, <1>12, <1>13, <1>14, <1>15, StepIs

LEMMA CreatedStep ==
    ASSUME TypeOK, Stages, DecisionInv, Created, NEW r \in Requests, Step(r)
    PROVE  Created'
<1>1. CASE UNCHANGED db
  BY <1>1 DEF Created, Exists
<1>2. CASE Commit(r)
  <2> SUFFICES ASSUME NEW t \in Requests, Exists(t)'
               PROVE  db'[<<"log", t>>] # Absent
    BY DEF Created
  <2>1. CASE Exists(t)
    BY <1>2, <2>1, CommitColumns DEF Created
  <2>2. CASE ~Exists(t)
    BY <1>2, <2>2, CommitColumns, RowsThereAre
  <2> QED BY <2>1, <2>2
<1>3. CASE WritesItem(r)
  <2>1. Writing(r)
    BY <1>3, ItemFacts DEF DecisionInv
  <2> QED BY <1>1, <2>1 DEF Writing
<1> QED BY <1>1, <1>2, <1>3, StepIs, QuietFacts, EndsFacts, OtherFacts

LEMMA ShownStep ==
    ASSUME TypeOK, Stages, Shown, NEW r \in Requests, Step(r)
    PROVE  Shown'
<1>1. UNCHANGED call /\ shown \in [Requests -> SUBSET AllItems]
  BY StepIsLocal DEF TypeOK
<1>2. ASSUME NEW t \in Requests, NEW i \in shown'[t]
      PROVE  OrgOf(i) = UserOrg[call[t].user]
  <2>1. CASE Quiet(r)
    <3>1. i \in shown[t] \/ OrgOf(i) = UserOrg[call[t].user]
      BY <1>2, <2>1, QuietLocals
    <3> QED BY <3>1 DEF Shown
  <2>2. CASE UNCHANGED shown
    BY <1>2, <2>2 DEF Shown
  <2>3. CASE WritesItem(r)
    BY <2>2, <2>3, ItemLocals
  <2>4. CASE Ends(r)
    BY <2>2, <2>4 DEF Ends, locals
  <2>5. CASE Commit(r)
    BY <2>2, <2>5, CommitFacts
  <2>6. CASE Archives(r) \/ DeleteLogs(r) \/ Audit(r)
    BY <2>2, <2>6, OtherLocals
  <2> QED BY <2>1, <2>3, <2>4, <2>5, <2>6, StepIs
<1>3. \A t \in Requests, i \in AllItems :
          OrgOf(i)' = OrgOf(i) /\ UserOrg[call'[t].user] = UserOrg[call[t].user]
  BY <1>1 DEF OrgOf
<1>4. shown' \in [Requests -> SUBSET AllItems]
  BY TypeStep DEF TypeOK
<1> QED BY <1>2, <1>3, <1>4 DEF Shown

LEMMA KeepingInit ==
    ASSUME Init
    PROVE  KeepingInv
<1>1. /\ \A r \in Requests : pc[r] = "idle" /\ shown[r] = {}
      /\ \A r \in Requests, k \in RowIds : ~Holds(r, k)
      /\ disk = {i \in Items : ItemTable[i] = "file"}
  BY DEF Init, InitTransactions, NoWrites, Rows, Holds
<1> DEFINE rows == [k \in RowIds |->
           CASE k[1] = "text" /\ k[2] \in Items -> "original"
             [] k[1] = "status" /\ k[2] \in Submitted -> "submitted"
             [] k[1] = "status" /\ k[2] \in Items \ Submitted
                  /\ ItemTable[k[2]] = "approval" -> "draft"
             [] k[1] = "submitted_at" /\ k[2] \in Submitted -> "recorded"
             [] k[1] = "log" /\ k[2] \in OldLogs -> "recorded"
             [] OTHER -> Absent]
<1>2. db = rows
  BY DEF Init, InitTransactions
<1>3. \A i \in AllItems : Exists(i) <=> i \in Items
  <2> SUFFICES ASSUME NEW i \in AllItems
               PROVE  Exists(i) <=> i \in Items
    OBVIOUS
  <2>1. <<"text", i>> \in RowIds
    BY RowsThereAre DEF Columns
  <2>2. rows[<<"text", i>>] = IF i \in Items THEN "original" ELSE Absent
    BY <2>1
  <2> QED BY <1>2, <2>2, WorkspaceContentsAssumption DEF Exists, Contents
<1>4. \A x \in OldLogs : db[<<"log", x>>] = "recorded" /\ db[<<"archive", x>>] = Absent
  <2> SUFFICES ASSUME NEW x \in OldLogs
               PROVE  rows[<<"log", x>>] = "recorded" /\ rows[<<"archive", x>>] = Absent
    BY <1>2
  <2>1. <<"log", x>> \in RowIds /\ <<"archive", x>> \in RowIds
    BY RowsThereAre
  <2>2. rows[<<"log", x>>] = "recorded"
    BY <2>1
  <2>3. rows[<<"archive", x>>] = Absent
    BY <2>1
  <2> QED BY <2>2, <2>3
<1>5. Items \cap Requests = {} /\ \A r \in Requests : r \in AllItems
  BY WorkspaceAssumption, RowsThereAre
<1>6. FilesKept
  <2>1. \A i \in Items : TableOf(i) = ItemTable[i]
    BY DEF TableOf
  <2> QED BY <1>1, <1>3, <1>5, <2>1 DEF FilesKept, Late
<1>7. Swept
  BY <1>1, <1>4, RowsThereAre
     DEF Swept, ArchiveRows, ArchivedOnce, Chosen, Moving, Moved, InOnePlace
<1>8. Created /\ Shown
  BY <1>1, <1>3, <1>5 DEF Created, Shown
<1> QED BY <1>6, <1>7, <1>8 DEF KeepingInv

LEMMA KeepingStutters ==
    ASSUME KeepingInv, UNCHANGED vars
    PROVE  KeepingInv'
<1>1. UNCHANGED <<pc, db, writes, call, disk, stuck, shown, loaded>>
  BY DEF vars, locals
<1>2. FilesKept'
  BY <1>1 DEF KeepingInv, FilesKept, TableOf, Exists, Removers
<1>3. Swept'
  BY <1>1 DEF KeepingInv, Swept, ArchiveRows, ArchivedOnce, Chosen, Moving, Moved,
              InOnePlace, Holds, Old
<1>4. Created' /\ Shown'
  BY <1>1 DEF KeepingInv, Created, Shown, Exists, OrgOf
<1> QED BY <1>2, <1>3, <1>4 DEF KeepingInv

WorkspaceInv == TypeOK /\ Stages /\ DecisionInv /\ KeepingInv

LEMMA WorkspaceInvHolds == Spec => []WorkspaceInv
<1>1. Init => WorkspaceInv
  BY InitTypes, DecisionInit, KeepingInit DEF WorkspaceInv
<1>2. WorkspaceInv /\ [Next]_vars => WorkspaceInv'
  <2> SUFFICES ASSUME WorkspaceInv, [Next]_vars
               PROVE  WorkspaceInv'
    OBVIOUS
  <2>1. DecisionInv'
    BY DecisionStep DEF WorkspaceInv
  <2>2. CASE UNCHANGED vars
    BY <2>1, <2>2, StutterTypes, KeepingStutters DEF WorkspaceInv
  <2>3. ASSUME NEW r \in Requests, Step(r)
        PROVE  WorkspaceInv'
    <3>1. TypeOK' /\ Stages'
      BY <2>3, TypeStep, StagesStep DEF WorkspaceInv
    <3>2. FilesKept' /\ Swept' /\ Created' /\ Shown'
      BY <2>3, FilesStep, SweptStep, CreatedStep, ShownStep DEF WorkspaceInv, KeepingInv
    <3> QED BY <2>1, <3>1, <3>2 DEF WorkspaceInv, KeepingInv
  <2> QED BY <2>2, <2>3 DEF Next
<1> QED BY <1>1, <1>2, PTL DEF Spec

\* A file that is listed has its bytes until a request removes it, bytes without a
\* row could not be removed or are an upload's that has not come to its end, an old
\* audit row is in the log or in the archive, what is created is audited, and nobody
\* reads the items of another organisation.
THEOREM NothingIsLost == Spec => []NothingLost
<1>1. WorkspaceInv => NothingLost
  <2> SUFFICES ASSUME WorkspaceInv
               PROVE  NothingLost
    OBVIOUS
  <2>1. ASSUME NEW i \in AllItems, TableOf(i) = "file"
        PROVE  /\ (Exists(i) /\ i \notin disk) => \E s \in Removers(i) : pc[s] # "done"
               /\ (~Exists(i) /\ i \in disk) => i \in stuck \/ (i \in Requests /\ pc[i] # "done")
    BY <2>1 DEF WorkspaceInv, KeepingInv, FilesKept, Late
  <2>2. \A x \in OldLogs : db[<<"log", x>>] = "recorded" <=> db[<<"archive", x>>] = Absent
    BY WorkspaceContentsAssumption DEF WorkspaceInv, KeepingInv, Swept, InOnePlace, Contents
  <2> QED BY <2>1, <2>2 DEF NothingLost, WorkspaceInv, KeepingInv, Created, Shown
<1> QED BY <1>1, WorkspaceInvHolds, PTL

------------------------------------------------------------------------------
(* Nobody waits in a circle *)

\* The rows that the next step of a request waits for, if others hold them.
Awaits(r) ==
    CASE pc[r] \in {"begin", "insert"} -> Columns \X {r}
      [] pc[r] \in {"write", "remove"} -> Columns \X {call[r].item}
      [] pc[r] = "archive"             -> {<<"archive", x>> : x \in loaded[r]}
      [] pc[r] = "delete_logs"         -> {<<"log", x>> : x \in Old}
      [] pc[r] = "audit"               -> {<<"log", r>>}
      [] OTHER                         -> {}

\* They are all the rows that it may write.
WritesAreAwaited ==
    \A r \in Requests, k \in RowIds :
        writes'[r][k] \in {Untouched, writes[r][k]} \/ k \in Awaits(r)

\* Whoever others wait for waits for nobody.
HoldersNeverWait ==
    \A r, t \in Requests : \A k \in Awaits(t), l \in Awaits(r) :
        Holds(r, k) => Free(r, l)

LEMMA WritesAwaitedStep ==
    ASSUME TypeOK, Stages, Values, Known, NEW r \in Requests, Step(r)
    PROVE  WritesAreAwaited
<1> SUFFICES ASSUME NEW t \in Requests, NEW k \in RowIds
             PROVE  writes'[t][k] \in {Untouched, writes[t][k]} \/ k \in Awaits(t)
  BY DEF WritesAreAwaited
<1>1. CASE Quiet(r)
  BY <1>1, QuietFacts
<1>2. CASE Ends(r)
  BY <1>2, EndsFacts
<1>3. CASE WritesItem(r)
  <2>1. Writing(r)
    BY <1>3, ItemFacts
  <2>2. CASE t # r \/ ~(\E c \in Columns : k = <<c, Subject(r)>>)
    BY <2>1, <2>2 DEF Writing
  <2>3. CASE t = r /\ \E c \in Columns : k = <<c, Subject(r)>>
    <3>1. Subject(r) = IF pc[r] \in {"begin", "insert"} THEN r ELSE call[r].item
      BY <2>1 DEF Writing, Subject, Changing, Decisions
    <3>2. pc[r] \in {"begin", "insert", "write", "remove"}
      BY <2>1 DEF Writing
    <3> QED BY <2>3, <3>1, <3>2 DEF Awaits
  <2> QED BY <2>2, <2>3
<1>4. CASE Archives(r) \/ DeleteLogs(r) \/ Audit(r)
  <2>1. CASE k \in Columns \X AllItems
    BY <1>4, <2>1, OtherFacts
  <2>2. CASE \E x \in OldLogs \cup Requests : k = <<"log", x>>
    <3>1. PICK x \in OldLogs \cup Requests : k = <<"log", x>>
      BY <2>2
    <3>2. \/ writes'[t][k] = writes[t][k]
          \/ t = r /\ pc[r] = "audit" /\ x = r
          \/ t = r /\ pc[r] = "delete_logs" /\ x \in Old
      BY <1>4, <3>1, OtherFacts
    <3> QED BY <3>1, <3>2 DEF Awaits
  <2>3. CASE \E x \in OldLogs \cup Requests : k = <<"archive", x>>
    <3>1. PICK x \in OldLogs \cup Requests : k = <<"archive", x>>
      BY <2>3
    <3>2. writes'[t][k] = writes[t][k] \/ (t = r /\ pc[r] = "archive" /\ x \in loaded[r])
      BY <1>4, <3>1, OtherFacts
    <3> QED BY <3>1, <3>2 DEF Awaits
  <2> QED BY <2>1, <2>2, <2>3 DEF RowIds
<1>5. CASE Commit(r)
  BY <1>5, CommitFacts
<1> QED BY <1>1, <1>2, <1>3, <1>4, <1>5, StepIs

\* An item is waited for before anything is held, and a sweep that deletes rows has
\* archived them alone.
LEMMA HoldersAreFree ==
    ASSUME TypeOK, Values, Logs, Swept
    PROVE  HoldersNeverWait
<1> SUFFICES ASSUME NEW r \in Requests, NEW t \in Requests, NEW k \in Awaits(t),
                    NEW l \in Awaits(r), Holds(r, k), NEW s \in Requests \ {r}, Holds(s, l)
             PROVE  FALSE
  BY DEF HoldersNeverWait, Free
<1>1. \/ k \in Columns \X AllItems
      \/ \E x \in OldLogs \cup Requests : k \in {<<"log", x>>, <<"archive", x>>}
  <2>1. loaded[t] \subseteq OldLogs /\ Old \subseteq OldLogs
    BY DEF TypeOK, Old
  <2> QED BY <2>1, CallType, RowsThereAre DEF Awaits
<1>2. pc[r] \in Late \cup {"delete_logs"}
  BY <1>1 DEF Values, Logs, Swept, ArchiveRows, Late
<1>3. CASE pc[r] = "audit"
  <2>1. l = <<"log", r>>
    BY <1>3 DEF Awaits
  <2> QED BY <2>1, WorkspaceAssumption DEF Logs
<1>4. CASE pc[r] = "delete_logs"
  <2>1. PICK x \in Old : l = <<"log", x>>
    BY <1>4 DEF Awaits
  <2>2. x \in OldLogs /\ x \notin Requests
    BY <2>1, WorkspaceAssumption DEF Old
  <2>3. pc[s] \in {"respond", "commit"}
    BY <2>1, <2>2 DEF Logs
  <2>4. Holds(s, <<"archive", x>>) /\ Holds(r, <<"archive", x>>)
    BY <1>4, <2>1, <2>2, <2>3 DEF Swept, Moving, Moved
  <2> QED BY <2>2, <2>4 DEF Swept, ArchivedOnce
<1>5. pc[r] \notin {"respond", "commit"}
  BY DEF Awaits
<1> QED BY <1>2, <1>3, <1>4, <1>5 DEF Late

LEMMA NoCircle ==
    ASSUME HoldersNeverWait, NEW r \in Requests
    PROVE  ~InCircle(r, Awaits)
<1> SUFFICES ASSUME NEW S \in SUBSET Requests, r \in S,
                    \A s \in S : \E t \in S \ {s} : \E k \in Awaits(s) : Holds(t, k)
             PROVE  FALSE
  BY DEF InCircle
<1>1. PICK t \in S : \E k \in Awaits(r) : Holds(t, k)
  OBVIOUS
<1>2. PICK s \in S \ {t} : \E l \in Awaits(t) : Holds(s, l)
  OBVIOUS
<1> QED BY <1>1, <1>2 DEF HoldersNeverWait, Free

\* Whoever edits, decides, deletes and uploads at the same time, and however many
\* sweeps overlap, no requests wait for each other's rows in a circle.
THEOREM NobodyWaitsInACircle ==
    Spec => /\ [](\A r \in Requests : ~InCircle(r, Awaits))
            /\ [][WritesAreAwaited]_vars
<1>1. WorkspaceInv => \A r \in Requests : ~InCircle(r, Awaits)
  BY HoldersAreFree, NoCircle DEF WorkspaceInv, DecisionInv, KeepingInv
<1>2. WorkspaceInv /\ [Next]_vars => [WritesAreAwaited]_vars
  <2> SUFFICES ASSUME WorkspaceInv, Next
               PROVE  WritesAreAwaited \/ UNCHANGED vars
    OBVIOUS
  <2> QED BY WritesAwaitedStep DEF Next, WorkspaceInv, DecisionInv
<1> QED BY <1>1, <1>2, WorkspaceInvHolds, PTL DEF Spec
==============================================================================
