------------------------ MODULE AssistantRecordsProofs ------------------------
(***************************************************************************)
(* Proofs about AssistantRecords, for every set of requests, users,        *)
(* organisations, logs, names and permissions, and any number of faults.   *)
(***************************************************************************)
EXTENDS AssistantRecords, TLAPS

\* What the assumption on Calls says of a request.
LEMMA CallType ==
    ASSUME TypeOK, NEW r \in Requests
    PROVE  /\ call[r].job \in Jobs /\ call[r].user \in Users
           /\ call[r].job \in LogJobs => call[r].item \in Logs
           /\ call[r].job = "acknowledge" => call[r].item \in Alerts
           /\ call[r].job \in {"category", "faq", "browse", "upsert", "delete"} =>
                 call[r].item \in Names
           /\ call[r].job = "assign" => call[r].item \in Users
           /\ call[r].job = "rate" => call[r].value \in {"up", "down", Absent}
           /\ call[r].job = "helpfulness" => call[r].value \in {"helpful", "unhelpful"}
           /\ call[r].job = "upsert" => call[r].value \in Modes
           /\ call[r].job = "faq" => call[r].item \in call[r].names
           /\ call[r].names \subseteq Names
           /\ Org[call[r].user] \in Orgs
<1>1. call[r] \in Calls
  BY DEF TypeOK
<1>2. call[r].user \in Users
  BY <1>1, RecordsAssumption
<1>3. Org[call[r].user] \in Orgs
  BY <1>2, RecordsAssumption
<1> QED BY <1>1, <1>3, RecordsAssumption

GrantRow(p)      == <<"grant", p>>
MembershipRow(u) == <<"membership", u>>

\* The role and its grants.
Provision == {RoleRow} \cup {GrantRow(p) : p \in Permissions}

\* The rows there are.
LEMMA RowsThereAre ==
    /\ \A l \in Logs : <<"rating", l>> \in RowIds /\ <<"helpfulness", l>> \in RowIds
    /\ \A a \in Alerts : <<"alert", a>> \in RowIds
    /\ \A o \in Orgs, n \in Names : <<"category", o, n>> \in RowIds /\ <<"mode", o, n>> \in RowIds
    /\ \A r \in Requests : /\ <<"faq", r>> \in RowIds /\ <<"notice", r>> \in RowIds
                           /\ <<"audit", r>> \in RowIds
                           /\ \A n \in Names : <<"faq_category", r, n>> \in RowIds
    /\ RoleRow \in RowIds
    /\ \A p \in Permissions : GrantRow(p) \in RowIds
    /\ \A u \in Users : MembershipRow(u) \in RowIds
    /\ Provision \subseteq RowIds
<1>1. /\ RoleRow \in RoleRows
      /\ \A p \in Permissions : GrantRow(p) \in RoleRows
      /\ \A u \in Users : MembershipRow(u) \in RoleRows
  BY DEF RoleRows, GrantRow, MembershipRow
<1>2. /\ \A l \in Logs : <<"rating", l>> \in LogRows /\ <<"helpfulness", l>> \in LogRows
      /\ \A a \in Alerts : <<"alert", a>> \in AlertRows
  BY DEF LogRows, AlertRows
<1>3. \A o \in Orgs, n \in Names : <<"category", o, n>> \in CategoryRows
                                   /\ <<"mode", o, n>> \in ModeRows
  BY DEF CategoryRows, ModeRows
<1>4. \A r \in Requests : /\ <<"faq", r>> \in FaqRows /\ <<"notice", r>> \in TraceRows
                          /\ <<"audit", r>> \in TraceRows
                          /\ \A n \in Names : <<"faq_category", r, n>> \in FaqRows
  BY DEF FaqRows, TraceRows
<1>5. Provision \subseteq RoleRows
  BY <1>1 DEF Provision
<1> QED BY <1>1, <1>2, <1>3, <1>4, <1>5 DEF RowIds

\* The phases and the answers that the actions name.
LEMMA Naming ==
    /\ {"idle", "update_log", "notify", "raise", "update_alert", "insert_category",
        "insert_faq", "associate", "write_mode", "look_for_role", "insert_role",
        "look_for_grant", "insert_grant", "update_membership", "audit", "respond", "commit",
        "done", "failed"} \subseteq Phases
    /\ {"none", "not_found", "forbidden", "conflict", "unprocessable", "error", "success"}
           \subseteq Responses
BY DEF Phases, Responses

SessionTypes == writes \in [Requests -> [RowIds -> Contents \cup {Absent, Untouched}]]

\* The domains that the steps rely on.
LEMMA Domains ==
    ASSUME TypeOK
    PROVE  /\ pc \in [Requests -> Phases] /\ response \in [Requests -> Responses]
           /\ db \in [RowIds -> Contents \cup {Absent}] /\ DOMAIN db = RowIds
           /\ SessionTypes
BY DEF TypeOK, TransactionsTypeOK, SessionTypes

LEMMA Marks ==
    /\ {"up", "down", "helpful", "unhelpful", "content_manager"} \subseteq Contents
    /\ Modes \cup Users \cup Names \subseteq Contents
    /\ Untouched \notin Contents /\ Absent \notin Contents /\ Absent # Untouched
BY TransactionsAssumption, RecordsAssumption DEF Contents, Ratings

\* A session that has been rolled back has written nothing.
LEMMA NothingWritten ==
    ASSUME TypeOK, NEW r \in Requests, writes' = [writes EXCEPT ![r] = NoWrites]
    PROVE  /\ SessionTypes'
           /\ \A t \in Requests, k \in RowIds :
                 writes'[t][k] = IF t = r THEN Untouched ELSE writes[t][k]
<1>1. DOMAIN db = RowIds /\ SessionTypes
  BY Domains
<1>2. [k \in RowIds |-> Untouched] \in [RowIds -> Contents \cup {Absent, Untouched}]
  OBVIOUS
<1> QED BY <1>1, <1>2 DEF NoWrites, Rows, SessionTypes

\* A commit makes of each row what the session has made of it.
LEMMA CommitShows ==
    ASSUME TypeOK, NEW r \in Requests, CommitRows(r)
    PROVE  /\ db' \in [RowIds -> Contents \cup {Absent}]
           /\ SessionTypes'
           /\ \A k \in RowIds : db'[k] = IF Holds(r, k) THEN writes[r][k] ELSE db[k]
           /\ \A t \in Requests, k \in RowIds :
                 writes'[t][k] = IF t = r THEN Untouched ELSE writes[t][k]
<1>1. DOMAIN db = RowIds /\ SessionTypes /\ db \in [RowIds -> Contents \cup {Absent}]
  BY Domains
<1>2. \A k \in RowIds : Read(r, k) \in Contents \cup {Absent}
  BY <1>1, Marks DEF Read, Holds, SessionTypes
<1>3. db' = [k \in RowIds |-> Read(r, k)]
  BY <1>1 DEF CommitRows, Rows
<1>4. \A k \in RowIds : db'[k] = IF Holds(r, k) THEN writes[r][k] ELSE db[k]
  BY <1>3 DEF Read
<1>5. writes' = [writes EXCEPT ![r] = NoWrites]
  BY DEF CommitRows
<1> QED BY <1>2, <1>3, <1>4, <1>5, NothingWritten

------------------------------------------------------------------------------
(* Types *)

Designating == {"look_for_role", "insert_role", "look_for_grant", "insert_grant",
                "update_membership"}

\* Where a request can be, by what it has been asked for.
Stages ==
    \A r \in Requests :
        /\ pc[r] = "update_log" => call[r].job \in {"rate", "helpfulness"}
        /\ pc[r] = "update_alert" => call[r].job = "acknowledge"
        /\ pc[r] = "insert_category" => call[r].job = "category"
        /\ pc[r] \in {"insert_faq", "associate"} => call[r].job = "faq"
        /\ pc[r] = "write_mode" => call[r].job \in {"upsert", "delete"}
        /\ pc[r] \in {"notify", "raise"} => call[r].job = "get_log"
        /\ pc[r] \in Designating => call[r].job = "assign"
        /\ pc[r] = "insert_grant" => grant[r] \in Permissions

LEMMA InitTypes ==
    ASSUME Init
    PROVE  TypeOK /\ Stages
<1>1. db \in [RowIds -> Contents \cup {Absent}]
  BY Marks DEF Init, InitTransactions
<1>2. NoWrites \in [RowIds -> Contents \cup {Absent, Untouched}]
  BY <1>1 DEF NoWrites, Rows
<1>3. TransactionsTypeOK(RowIds, Contents, Phases, Responses)
  BY <1>1, <1>2, TransactionsAssumption, Naming
     DEF Init, InitTransactions, TransactionsTypeOK
<1>4. TypeOK
  BY <1>3 DEF Init, TypeOK
<1>5. Stages
  BY DEF Init, InitTransactions, Stages, Designating
<1> QED BY <1>4, <1>5

------------------------------------------------------------------------------
(* The steps, by what they do *)

\* Steps that write nothing.
Quiet(r) == \/ ReadDenied(r) \/ NotifyFails(r) \/ LoadRating(r)
            \/ (UpdateLog(r) /\ seen[r] = call[r].value) \/ GetLog(r) \/ ListLogs(r)
            \/ LoadAlert(r) \/ NameNotTaken(r) \/ ResolveIds(r) \/ Browse(r) \/ LoadMode(r)
            \/ (WriteMode(r) /\ seen[r] # Absent /\ seen[r] = call[r].value)
            \/ FindMembership(r) \/ LookForRole(r) \/ LookForGrant(r) \/ Granted(r)
            \/ (UpdateMembership(r) /\ seen[r] = "content_manager") \/ Respond(r)

\* Steps that end a request with an error.
Ends(r) == /\ pc[r] \notin {"done", "failed"}
           /\ \E answer \in Responses : Fail(r, answer)
           /\ UNCHANGED <<db, call, locals>>
           /\ faults' \in 0..MaxFaults

\* Steps that write rows which are not the role's.
Records(r) ==
    /\ pc[r] \notin Designating
    /\ \E K \in SUBSET RowIds, content \in Contents \cup {Absent},
          phase \in {"raise", "audit", "associate", "respond"} :
          /\ Flush(r, K, content, phase)
          /\ K \cap Provision = {}
          /\ \A u \in Users : MembershipRow(u) \notin K
          /\ \/ pc[r] = "audit" /\ phase = "respond"
             \/ pc[r] # "audit" /\ call[r].job # "assign"
          /\ phase = "raise" => pc[r] = "notify"
          /\ phase = "associate" => pc[r] = "insert_faq"

\* The ways there are to do so.
WritesMode(r) ==
    /\ pc[r] = "write_mode"
    /\ call[r].job = "upsert"
    /\ Flush(r, {ModeRow(r)}, call[r].value, "audit")

RecordsRow(r) == \/ NotifyAsker(r) \/ (UpdateLog(r) /\ seen[r] # call[r].value)
                 \/ UpdateAlert(r) \/ (InsertCategory(r) /\ db[CategoryRow(r)] = Absent)
                 \/ InsertFaq(r) \/ Associate(r) \/ WritesMode(r) \/ DeleteMode(r)
                 \/ Audit(r)

AddsRole(r) ==
    /\ pc[r] = "insert_role"
    /\ db[RoleRow] = Absent
    /\ Flush(r, {RoleRow}, "content_manager", "look_for_grant")

AddsGrant(r) ==
    /\ pc[r] = "insert_grant"
    /\ Flush(r, {GrantRow(grant[r])}, "content_manager", "look_for_grant")

AddsManager(r) ==
    /\ pc[r] = "update_membership"
    /\ Flush(r, {MembershipRow(call[r].item)}, "content_manager", "audit")

Writes(r) == Records(r) \/ AddsRole(r) \/ AddsGrant(r) \/ AddsManager(r)
Commits(r) == Commit(r)

\* None of the other rows is one of the role's.
LEMMA OtherRows ==
    \A x, y, z :
        /\ \A c \in {"rating", "helpfulness", "alert", "faq", "notice", "audit"} :
              <<c, x>> \notin Provision /\ \A u \in Users : <<c, x>> # MembershipRow(u)
        /\ \A c \in {"category", "mode", "faq_category"} :
              <<c, y, z>> \notin Provision /\ \A u \in Users : <<c, y, z>> # MembershipRow(u)
BY DEF Provision, RoleRow, GrantRow, MembershipRow

LEMMA RecordsIs ==
    ASSUME TypeOK, Stages, NEW r \in Requests, RecordsRow(r)
    PROVE  Records(r)
<1>0. call[r].user \in Contents
  BY CallType, Marks
<1>1. CASE NotifyAsker(r)
  <2>1. /\ pc[r] = "notify" /\ pc[r] \notin Designating /\ call[r].job # "assign"
        /\ Flush(r, {<<"notice", r>>}, call[r].user, "raise")
    BY <1>1 DEF NotifyAsker, Stages, Designating
  <2>2. {<<"notice", r>>} \in SUBSET RowIds /\ {<<"notice", r>>} \cap Provision = {}
        /\ \A u \in Users : MembershipRow(u) \notin {<<"notice", r>>}
    BY RowsThereAre, OtherRows
  <2> QED BY <1>0, <2>1, <2>2 DEF Records
<1>2. CASE UpdateLog(r) /\ seen[r] # call[r].value
  <2>1. /\ pc[r] = "update_log" /\ pc[r] \notin Designating
        /\ call[r].job \in {"rate", "helpfulness"}
        /\ Flush(r, {LogColumn(r)}, call[r].value, "audit")
    BY <1>2 DEF UpdateLog, Stages, Designating
  <2>2. {LogColumn(r)} \in SUBSET RowIds /\ {LogColumn(r)} \cap Provision = {}
        /\ \A u \in Users : MembershipRow(u) \notin {LogColumn(r)}
    BY <2>1, RowsThereAre, OtherRows, CallType DEF LogColumn, LogJobs
  <2>3. call[r].value \in Contents \cup {Absent}
    BY <2>1, CallType, Marks
  <2> QED BY <2>1, <2>2, <2>3 DEF Records
<1>3. CASE UpdateAlert(r)
  <2>1. /\ pc[r] = "update_alert" /\ pc[r] \notin Designating /\ call[r].job = "acknowledge"
        /\ Flush(r, {<<"alert", call[r].item>>}, call[r].user, "audit")
    BY <1>3 DEF UpdateAlert, Stages, Designating
  <2>2. {<<"alert", call[r].item>>} \in SUBSET RowIds
        /\ {<<"alert", call[r].item>>} \cap Provision = {}
        /\ \A u \in Users : MembershipRow(u) \notin {<<"alert", call[r].item>>}
    BY <2>1, RowsThereAre, OtherRows, CallType
  <2> QED BY <1>0, <2>1, <2>2 DEF Records
<1>4. CASE InsertCategory(r) /\ db[CategoryRow(r)] = Absent
  <2>1. /\ pc[r] = "insert_category" /\ pc[r] \notin Designating /\ call[r].job = "category"
        /\ Flush(r, {CategoryRow(r)}, call[r].user, "audit")
    BY <1>4 DEF InsertCategory, InsertOnce, Stages, Designating
  <2>2. {CategoryRow(r)} \in SUBSET RowIds /\ {CategoryRow(r)} \cap Provision = {}
        /\ \A u \in Users : MembershipRow(u) \notin {CategoryRow(r)}
    BY <2>1, RowsThereAre, OtherRows, CallType DEF CategoryRow
  <2> QED BY <1>0, <2>1, <2>2 DEF Records
<1>5. CASE InsertFaq(r)
  <2>1. /\ pc[r] = "insert_faq" /\ pc[r] \notin Designating /\ call[r].job = "faq"
        /\ Flush(r, {<<"faq", r>>}, call[r].item, "associate")
    BY <1>5 DEF InsertFaq, Stages, Designating
  <2>2. {<<"faq", r>>} \in SUBSET RowIds /\ {<<"faq", r>>} \cap Provision = {}
        /\ \A u \in Users : MembershipRow(u) \notin {<<"faq", r>>}
    BY RowsThereAre, OtherRows
  <2>3. call[r].item \in Contents
    BY <2>1, CallType, Marks
  <2> QED BY <2>1, <2>2, <2>3 DEF Records
<1>6. CASE Associate(r)
  <2> DEFINE K == {<<"faq_category", r, n>> : n \in call[r].names}
  <2>1. /\ pc[r] = "associate" /\ pc[r] \notin Designating /\ call[r].job = "faq"
        /\ Flush(r, K, call[r].item, "audit")
    BY <1>6 DEF Associate, Stages, Designating
  <2>2. K \in SUBSET RowIds /\ K \cap Provision = {} /\ \A u \in Users : MembershipRow(u) \notin K
    BY RowsThereAre, OtherRows, CallType
  <2>3. call[r].item \in Contents
    BY <2>1, CallType, Marks
  <2> QED BY <2>1, <2>2, <2>3 DEF Records
<1>7. CASE DeleteMode(r)
  <2>1. /\ pc[r] = "write_mode" /\ pc[r] \notin Designating /\ call[r].job = "delete"
        /\ Flush(r, {ModeRow(r)}, Absent, "respond")
    BY <1>7 DEF DeleteMode, Designating
  <2>2. {ModeRow(r)} \in SUBSET RowIds /\ {ModeRow(r)} \cap Provision = {}
        /\ \A u \in Users : MembershipRow(u) \notin {ModeRow(r)}
    BY <2>1, RowsThereAre, OtherRows, CallType DEF ModeRow
  <2> QED BY <2>1, <2>2 DEF Records
<1>8. CASE Audit(r)
  <2>1. /\ pc[r] = "audit" /\ pc[r] \notin Designating
        /\ Flush(r, {<<"audit", r>>}, call[r].user, "respond")
    BY <1>8 DEF Audit, Designating
  <2>2. {<<"audit", r>>} \in SUBSET RowIds /\ {<<"audit", r>>} \cap Provision = {}
        /\ \A u \in Users : MembershipRow(u) \notin {<<"audit", r>>}
    BY RowsThereAre, OtherRows
  <2> QED BY <1>0, <2>1, <2>2 DEF Records
<1>9. CASE WritesMode(r)
  <2>1. /\ pc[r] = "write_mode" /\ pc[r] \notin Designating /\ call[r].job = "upsert"
        /\ Flush(r, {ModeRow(r)}, call[r].value, "audit")
    BY <1>9 DEF WritesMode, Designating
  <2>2. {ModeRow(r)} \in SUBSET RowIds /\ {ModeRow(r)} \cap Provision = {}
        /\ \A u \in Users : MembershipRow(u) \notin {ModeRow(r)}
    BY <2>1, RowsThereAre, OtherRows, CallType DEF ModeRow
  <2>3. call[r].value \in Contents
    BY <2>1, CallType, Marks
  <2> QED BY <2>1, <2>2, <2>3 DEF Records
<1> QED BY <1>1, <1>2, <1>3, <1>4, <1>5, <1>6, <1>7, <1>8, <1>9 DEF RecordsRow

\* Every step is one of these.
LEMMA StepDoes ==
    ASSUME TypeOK, Stages, NEW r \in Requests, Step(r)
    PROVE  \/ Quiet(r) \/ Ends(r) \/ Commits(r)
           \/ RecordsRow(r) \/ AddsRole(r) \/ AddsGrant(r) \/ AddsManager(r)
<1>0. faults \in 0..MaxFaults
  BY DEF TypeOK, TransactionsTypeOK
<1>1. ASSUME NEW answer \in Responses, Refuse(r, answer), pc[r] \notin {"done", "failed"}
      PROVE  Ends(r)
  BY <1>0, <1>1 DEF Refuse, Ends
<1>2. CASE \/ ItemNotFound(r) \/ RatingDenied(r) \/ RaiseDenied(r) \/ RatingAlreadySubmitted(r)
           \/ UnresolvedIds(r) \/ BrowseNothing(r) \/ ModeNotFound(r) \/ NotAnOrgMember(r)
           \/ DeadlockVictim(r)
  BY <1>1, <1>2, Naming DEF ItemNotFound, RatingDenied, RaiseDenied, RatingAlreadySubmitted,
     UnresolvedIds, BrowseNothing, ModeNotFound, NotAnOrgMember, DeadlockVictim, Begins
<1>3. CASE NameTaken(r)
  BY <1>1, <1>3, Naming DEF NameTaken, Begins
<1>4. CASE CutOff(r)
  <2>1. faults' \in 0..MaxFaults
    BY <1>0, <1>4, TransactionsAssumption DEF CutOff, Interrupted
  <2> QED BY <1>4, <2>1, Naming DEF CutOff, Interrupted, InFlight, Ends
<1>5. CASE InsertCategory(r)
  <2>1. CASE db[CategoryRow(r)] = Absent
    BY <1>5, <2>1 DEF RecordsRow
  <2>2. CASE db[CategoryRow(r)] # Absent
    BY <1>1, <1>5, <2>2, Naming DEF InsertCategory, InsertOnce
  <2> QED BY <2>1, <2>2
<1>6. CASE InsertRole(r)
  BY <1>1, <1>6, Naming DEF InsertRole, InsertOnce, AddsRole
<1>7. CASE InsertGrant(r)
  BY <1>1, <1>7, Naming DEF InsertGrant, InsertOnce, GrantRow, AddsGrant
<1>8. CASE WriteMode(r)
  BY <1>1, <1>8, Naming DEF WriteMode, InsertOnce, WritesMode, Quiet, RecordsRow
<1>9. CASE UpdateMembership(r)
  BY <1>9 DEF UpdateMembership, MembershipRow, AddsManager, Quiet
<1>10. CASE UpdateLog(r)
  BY <1>10 DEF Quiet, RecordsRow
<1>11. CASE \/ NotifyAsker(r) \/ UpdateAlert(r) \/ InsertFaq(r) \/ Associate(r) \/ DeleteMode(r)
            \/ Audit(r)
  BY <1>11 DEF RecordsRow
<1>12. CASE Commit(r)
  BY <1>12 DEF Commits
<1> QED BY <1>2, <1>3, <1>4, <1>5, <1>6, <1>7, <1>8, <1>9, <1>10, <1>11, <1>12
        DEF Step, LogStep, Curate, Designate, Finish, Quiet

LEMMA StepIs ==
    ASSUME TypeOK, Stages, NEW r \in Requests, Step(r)
    PROVE  Quiet(r) \/ Ends(r) \/ Writes(r) \/ Commits(r)
BY StepDoes, RecordsIs DEF Writes

------------------------------------------------------------------------------
(* What the steps change *)

LEMMA QuietFacts ==
    ASSUME TypeOK, Stages, NEW r \in Requests, Quiet(r)
    PROVE  /\ UNCHANGED <<db, writes, call>>
           /\ pc' = [pc EXCEPT ![r] = pc'[r]]
           /\ \/ response' = response
              \/ response' = [response EXCEPT ![r] = "success"]
           /\ \/ /\ call[r].job # "assign"
                 /\ pc'[r] \in {"notify", "raise", "update_log", "audit", "respond", "commit",
                                "update_alert", "insert_category", "insert_faq", "write_mode"}
              \/ pc'[r] = "look_for_role"
              \/ LookForRole(r) \/ LookForGrant(r) \/ Granted(r)
              \/ pc[r] = "update_membership" /\ pc'[r] = "audit" /\ UNCHANGED locals
              \/ pc[r] = "respond" /\ pc'[r] = "commit" /\ UNCHANGED locals
<1>0. pc \in [Requests -> Phases]
  BY Domains
<1> USE DEF Continue, GoTo
<1>1. CASE ReadDenied(r) \/ LoadRating(r) \/ GetLog(r) \/ ListLogs(r) \/ LoadAlert(r)
  BY <1>0, <1>1 DEF ReadDenied, LoadRating, GetLog, ListLogs, LoadAlert, Begins, LogJobs,
                    ListJobs
<1>2. CASE NotifyFails(r) \/ (UpdateLog(r) /\ seen[r] = call[r].value)
           \/ (WriteMode(r) /\ seen[r] # Absent /\ seen[r] = call[r].value)
  BY <1>0, <1>2 DEF NotifyFails, UpdateLog, WriteMode, Stages
<1>3. CASE NameNotTaken(r) \/ ResolveIds(r) \/ Browse(r) \/ LoadMode(r)
  BY <1>0, <1>3 DEF NameNotTaken, ResolveIds, Browse, LoadMode, Begins
<1>4. CASE FindMembership(r) \/ LookForRole(r) \/ Granted(r)
           \/ (UpdateMembership(r) /\ seen[r] = "content_manager")
  BY <1>0, <1>4 DEF FindMembership, LookForRole, Granted, UpdateMembership, locals
<1>5. CASE LookForGrant(r)
  BY <1>0, <1>5 DEF LookForGrant
<1>6. CASE Respond(r)
  BY <1>0, <1>6 DEF Respond, Answer
<1> QED BY <1>1, <1>2, <1>3, <1>4, <1>5, <1>6 DEF Quiet

LEMMA EndsFacts ==
    ASSUME TypeOK, NEW r \in Requests, Ends(r)
    PROVE  /\ UNCHANGED <<db, call, locals>> /\ faults' \in 0..MaxFaults
           /\ pc' = [pc EXCEPT ![r] = "failed"]
           /\ response' \in [Requests -> Responses]
           /\ SessionTypes'
           /\ \A t \in Requests, k \in RowIds :
                 writes'[t][k] = IF t = r THEN Untouched ELSE writes[t][k]
<1>1. PICK answer \in Responses : Fail(r, answer)
  BY DEF Ends
<1>2. /\ pc' = [pc EXCEPT ![r] = "failed"] /\ response' = [response EXCEPT ![r] = answer]
      /\ writes' = [writes EXCEPT ![r] = NoWrites]
  BY <1>1 DEF Fail, GoTo
<1>3. response' \in [Requests -> Responses]
  BY <1>2, Domains
<1> QED BY <1>2, <1>3, NothingWritten DEF Ends

LEMMA WritesFacts ==
    ASSUME TypeOK, Stages, NEW r \in Requests, Writes(r)
    PROVE  /\ UNCHANGED <<db, response, faults, call, locals>>
           /\ pc' = [pc EXCEPT ![r] = pc'[r]]
           /\ SessionTypes'
           /\ \A t \in Requests \ {r}, k \in RowIds : writes'[t][k] = writes[t][k]
           /\ \A k \in Provision : \/ writes'[r][k] = writes[r][k]
                                   \/ writes'[r][k] = "content_manager"
           /\ \/ /\ \A k \in Provision \cup {MembershipRow(u) : u \in Users} :
                       writes'[r][k] = writes[r][k]
                 /\ pc'[r] \in {"raise", "audit", "associate", "respond"}
                 /\ pc'[r] = "raise" => pc[r] = "notify"
                 /\ pc'[r] = "associate" => pc[r] = "insert_faq"
                 /\ \/ pc[r] = "audit" /\ pc'[r] = "respond"
                    \/ pc[r] # "audit" /\ call[r].job # "assign"
              \/ /\ pc[r] = "insert_role" /\ pc'[r] = "look_for_grant"
                 /\ writes'[r][RoleRow] = "content_manager"
                 /\ \A u \in Users :
                       writes'[r][MembershipRow(u)] = writes[r][MembershipRow(u)]
              \/ /\ pc[r] = "insert_grant" /\ pc'[r] = "look_for_grant"
                 /\ writes'[r][GrantRow(grant[r])] = "content_manager"
                 /\ \A u \in Users :
                       writes'[r][MembershipRow(u)] = writes[r][MembershipRow(u)]
              \/ /\ pc[r] = "update_membership" /\ pc'[r] = "audit"
                 /\ \A k \in Provision : writes'[r][k] = writes[r][k]
<1>0. pc \in [Requests -> Phases]
  BY Domains
<1>r. \A k \in Provision : k \in RowIds
  BY RowsThereAre
<1>p. /\ "look_for_grant" \in Phases /\ "audit" \in Phases
      /\ "content_manager" \in Contents \cup {Absent}
  BY Naming, Marks
<1>m. \A u \in Users : MembershipRow(u) \in RowIds /\ MembershipRow(u) \notin Provision
  BY RowsThereAre DEF MembershipRow, Provision, RoleRow, GrantRow
<1>1. CASE Records(r)
  <2>1. PICK K \in SUBSET RowIds, content \in Contents \cup {Absent},
             phase \in {"raise", "audit", "associate", "respond"} :
             /\ Flush(r, K, content, phase)
             /\ K \cap Provision = {}
             /\ \A u \in Users : MembershipRow(u) \notin K
             /\ \/ pc[r] = "audit" /\ phase = "respond"
                \/ pc[r] # "audit" /\ call[r].job # "assign"
             /\ phase = "raise" => pc[r] = "notify"
             /\ phase = "associate" => pc[r] = "insert_faq"
    BY <1>1 DEF Records
  <2>2. /\ UNCHANGED <<db, response, faults, call, locals>>
        /\ pc' = [pc EXCEPT ![r] = phase]
        /\ SessionTypes'
        /\ \A t \in Requests, k \in RowIds :
              writes'[t][k] = IF t = r /\ k \in K THEN content ELSE writes[t][k]
    <3>1. phase \in Phases
      BY Naming
    <3> QED BY <2>1, <3>1, Domains
            DEF Flush, Put, PutEach, GoTo, Rows, SessionTypes
  <2>3. pc'[r] = phase
    BY <1>0, <2>2
  <2>4. \A k \in Provision \cup {MembershipRow(u) : u \in Users} :
           writes'[r][k] = writes[r][k]
    BY <1>r, <1>m, <2>1, <2>2
  <2> QED BY <2>1, <2>2, <2>3, <2>4
<1>2. CASE AddsRole(r)
  <2>1. /\ UNCHANGED <<db, response, faults, call, locals>>
        /\ pc' = [pc EXCEPT ![r] = "look_for_grant"]
        /\ SessionTypes'
        /\ \A t \in Requests, k \in RowIds :
              writes'[t][k] = IF t = r /\ k \in {RoleRow} THEN "content_manager"
                              ELSE writes[t][k]
    <3>1. {RoleRow} \in SUBSET RowIds
      BY RowsThereAre
    <3> QED BY <1>2, <1>p, <3>1, Domains
            DEF AddsRole, Flush, Put, PutEach, GoTo, Rows, SessionTypes
  <2>2. pc'[r] = "look_for_grant" /\ pc[r] = "insert_role"
    BY <1>0, <1>2, <2>1 DEF AddsRole
  <2>3. RoleRow \in Provision
    BY DEF Provision
  <2> QED BY <1>r, <1>m, <2>1, <2>2, <2>3
<1>3. CASE AddsGrant(r)
  <2>0. GrantRow(grant[r]) \in Provision /\ pc[r] = "insert_grant"
    BY <1>3 DEF AddsGrant, Stages, Provision
  <2>1. PICK k0 \in Provision : k0 = GrantRow(grant[r])
    BY <2>0
  <2>2. /\ UNCHANGED <<db, response, faults, call, locals>>
        /\ pc' = [pc EXCEPT ![r] = "look_for_grant"]
        /\ SessionTypes'
        /\ \A t \in Requests, k \in RowIds :
              writes'[t][k] = IF t = r /\ k \in {k0} THEN "content_manager" ELSE writes[t][k]
    <3>1. {k0} \in SUBSET RowIds /\ Flush(r, {k0}, "content_manager", "look_for_grant")
      BY <1>3, <1>r, <2>1 DEF AddsGrant
    <3> QED BY <1>p, <3>1, Domains
            DEF Flush, Put, PutEach, GoTo, Rows, SessionTypes
  <2>3. pc'[r] = "look_for_grant"
    BY <1>0, <2>2
  <2>4. writes'[r][GrantRow(grant[r])] = "content_manager"
    BY <1>r, <2>1, <2>2
  <2> QED BY <1>r, <1>m, <2>0, <2>1, <2>2, <2>3, <2>4
<1>4. CASE AddsManager(r)
  <2>0. pc[r] = "update_membership" /\ call[r].item \in Users
    BY <1>4, CallType DEF AddsManager, Stages, Designating
  <2>1. PICK u \in Users : u = call[r].item
    BY <2>0
  <2>2. /\ UNCHANGED <<db, response, faults, call, locals>>
        /\ pc' = [pc EXCEPT ![r] = "audit"]
        /\ SessionTypes'
        /\ \A t \in Requests, k \in RowIds :
              writes'[t][k] = IF t = r /\ k \in {MembershipRow(u)} THEN "content_manager"
                              ELSE writes[t][k]
    <3>1. /\ {MembershipRow(u)} \in SUBSET RowIds
          /\ Flush(r, {MembershipRow(u)}, "content_manager", "audit")
      BY <1>4, <1>m, <2>1 DEF AddsManager
    <3> QED BY <1>p, <3>1, Domains
            DEF Flush, Put, PutEach, GoTo, Rows, SessionTypes
  <2>3. pc'[r] = "audit"
    BY <1>0, <2>2
  <2>4. \A k \in Provision : writes'[r][k] = writes[r][k]
    BY <1>r, <1>m, <2>2
  <2> QED BY <2>0, <2>2, <2>3, <2>4
<1> QED BY <1>1, <1>2, <1>3, <1>4 DEF Writes

LEMMA CommitsFacts ==
    ASSUME TypeOK, NEW r \in Requests, Commits(r)
    PROVE  /\ UNCHANGED <<response, faults, call, locals>>
           /\ pc[r] = "commit" /\ pc' = [pc EXCEPT ![r] = "done"]
           /\ db' \in [RowIds -> Contents \cup {Absent}]
           /\ SessionTypes'
           /\ \A k \in RowIds : db'[k] = IF Holds(r, k) THEN writes[r][k] ELSE db[k]
           /\ \A t \in Requests, k \in RowIds :
                 writes'[t][k] = IF t = r THEN Untouched ELSE writes[t][k]
BY CommitShows DEF Commits, Commit, GoTo
\* What stays of the other requests.
LEMMA OthersStay ==
    ASSUME TypeOK, Stages, NEW r \in Requests, Step(r), NEW t \in Requests \ {r}
    PROVE  /\ pc'[t] = pc[t] /\ call' = call
           /\ todo'[t] = todo[t] /\ grant'[t] = grant[t] /\ shown'[t] = shown[t]
<1>0. /\ pc \in [Requests -> Phases]
      /\ seen \in [Requests -> Contents \cup {Absent}]
      /\ todo \in [Requests -> SUBSET Permissions]
      /\ grant \in [Requests -> Permissions \cup {Absent}]
      /\ shown \in [Requests -> SUBSET Logs]
  BY DEF TypeOK, TransactionsTypeOK
<1>1. CASE Quiet(r)
  <2>1. pc'[t] = pc[t] /\ call' = call
    BY <1>0, <1>1, QuietFacts
  <2>2. todo'[t] = todo[t] /\ grant'[t] = grant[t] /\ shown'[t] = shown[t]
    <3>1. CASE \/ ReadDenied(r) \/ NotifyFails(r) \/ LoadAlert(r) \/ NameNotTaken(r)
               \/ ResolveIds(r) \/ Granted(r) \/ Respond(r)
               \/ (UpdateLog(r) /\ seen[r] = call[r].value)
               \/ (WriteMode(r) /\ seen[r] # Absent /\ seen[r] = call[r].value)
               \/ (UpdateMembership(r) /\ seen[r] = "content_manager")
      BY <1>0, <3>1 DEF ReadDenied, NotifyFails, LoadAlert, NameNotTaken, ResolveIds, Granted,
                        Respond, UpdateLog, WriteMode, UpdateMembership, locals
    <3>2. CASE \/ LoadRating(r) \/ LoadMode(r) \/ FindMembership(r) \/ GetLog(r)
               \/ ListLogs(r) \/ Browse(r)
      BY <1>0, <3>2 DEF LoadRating, LoadMode, FindMembership, GetLog, ListLogs, Browse
    <3>3. CASE LookForRole(r)
      BY <1>0, <3>3 DEF LookForRole
    <3>4. CASE LookForGrant(r)
      BY <1>0, <3>4 DEF LookForGrant
    <3> QED BY <1>1, <3>1, <3>2, <3>3, <3>4 DEF Quiet
  <2> QED BY <2>1, <2>2
<1>2. CASE Ends(r)
  BY <1>0, <1>2, EndsFacts DEF locals
<1>3. CASE Writes(r)
  <2>1. pc' = [pc EXCEPT ![r] = pc'[r]] /\ UNCHANGED <<call, locals>>
    BY <1>3, WritesFacts
  <2> QED BY <1>0, <2>1 DEF locals
<1>4. CASE Commits(r)
  BY <1>0, <1>4, CommitsFacts DEF locals
<1> QED BY <1>1, <1>2, <1>3, <1>4, StepIs

\* The FAQs that a request reads have been created from a category.
LEMMA BrowseTypes ==
    ASSUME TypeOK, NEW r \in Requests, Browse(r)
    PROVE  faqs' \in [Requests -> SUBSET [faq : Requests, categories : SUBSET Names]]
<1>1. call[r].item \in Names
  BY CallType DEF Browse, Begins
<1>2. \A t \in Requests : db[<<"faq", t>>] = call[r].item => Associated(t) \in SUBSET Names
  BY <1>1 DEF Associated
<1> DEFINE Found == {[faq |-> t, categories |-> Associated(t)] :
                       t \in {u \in Requests : /\ Org[call[u].user] = Org[call[r].user]
                                               /\ db[<<"faq", u>>] = call[r].item}}
<1>3. Found \in SUBSET [faq : Requests, categories : SUBSET Names]
  <2> SUFFICES ASSUME NEW f \in Found
               PROVE  f \in [faq : Requests, categories : SUBSET Names]
    OBVIOUS
  <2>1. PICK t \in Requests : /\ db[<<"faq", t>>] = call[r].item
                              /\ f = [faq |-> t, categories |-> Associated(t)]
    OBVIOUS
  <2>2. Associated(t) \in SUBSET Names
    BY <1>2, <2>1
  <2> HIDE DEF Found
  <2> QED BY <2>1, <2>2
<1>4. faqs \in [Requests -> SUBSET [faq : Requests, categories : SUBSET Names]]
  BY DEF TypeOK
<1>5. faqs' = [faqs EXCEPT ![r] = Found]
  BY DEF Browse
<1> HIDE DEF Found
<1> QED BY <1>3, <1>4, <1>5

\* Every step keeps the variables in their domains.
LEMMA TypeStep ==
    ASSUME TypeOK, Stages, NEW r \in Requests, Step(r)
    PROVE  TypeOK'
<1>0. /\ pc \in [Requests -> Phases] /\ response \in [Requests -> Responses]
      /\ seen \in [Requests -> Contents \cup {Absent}]
      /\ todo \in [Requests -> SUBSET Permissions]
      /\ grant \in [Requests -> Permissions \cup {Absent}]
      /\ shown \in [Requests -> SUBSET Logs]
      /\ faqs \in [Requests -> SUBSET [faq : Requests, categories : SUBSET Names]]
      /\ faults \in 0..MaxFaults
  BY DEF TypeOK, TransactionsTypeOK
<1>1. CASE Quiet(r)
  <2>1. /\ UNCHANGED <<db, writes, call>>
        /\ pc' = [pc EXCEPT ![r] = pc'[r]]
        /\ \/ response' = response
           \/ response' = [response EXCEPT ![r] = "success"]
    BY <1>1, QuietFacts
  <2>2. pc'[r] \in Phases
    <3>1. CASE LookForRole(r) \/ LookForGrant(r) \/ Granted(r)
      BY <1>0, <3>1, Naming DEF LookForRole, LookForGrant, Granted, Continue, GoTo
    <3> QED BY <1>1, <3>1, QuietFacts, Naming
  <2>3. pc' \in [Requests -> Phases] /\ response' \in [Requests -> Responses]
    BY <1>0, <2>1, <2>2, Naming
  <2>4. /\ faults' \in 0..MaxFaults
        /\ seen' \in [Requests -> Contents \cup {Absent}]
        /\ todo' \in [Requests -> SUBSET Permissions]
        /\ grant' \in [Requests -> Permissions \cup {Absent}]
        /\ shown' \in [Requests -> SUBSET Logs]
        /\ faqs' \in [Requests -> SUBSET [faq : Requests, categories : SUBSET Names]]
    <3> USE DEF Continue
    <3>1. CASE \/ ReadDenied(r) \/ LoadAlert(r) \/ NameNotTaken(r)
               \/ ResolveIds(r) \/ Granted(r) \/ Respond(r)
               \/ (UpdateLog(r) /\ seen[r] = call[r].value)
               \/ (WriteMode(r) /\ seen[r] # Absent /\ seen[r] = call[r].value)
               \/ (UpdateMembership(r) /\ seen[r] = "content_manager")
      BY <1>0, <3>1 DEF ReadDenied, LoadAlert, NameNotTaken, ResolveIds, Granted,
                        Respond, UpdateLog, WriteMode, UpdateMembership, locals
    <3>2. CASE NotifyFails(r)
      <4>1. faults' \in 0..MaxFaults /\ UNCHANGED locals
        BY <1>0, <3>2, TransactionsAssumption DEF NotifyFails
      <4> QED BY <1>0, <4>1 DEF locals
    <3>3. CASE LoadRating(r) \/ LoadMode(r) \/ FindMembership(r)
      <4>1. PICK k \in RowIds : seen' = [seen EXCEPT ![r] = db[k]]
        <5>1. CASE LoadRating(r)
          <6>1. LogColumn(r) \in RowIds /\ seen' = [seen EXCEPT ![r] = db[LogColumn(r)]]
            BY <5>1, CallType, RowsThereAre DEF LoadRating, Begins, LogColumn, LogJobs
          <6> QED BY <6>1
        <5>2. CASE LoadMode(r)
          <6>1. ModeRow(r) \in RowIds /\ seen' = [seen EXCEPT ![r] = db[ModeRow(r)]]
            BY <5>2, CallType, RowsThereAre DEF LoadMode, Begins, ModeRow
          <6> QED BY <6>1
        <5>3. CASE FindMembership(r)
          <6>1. /\ MembershipRow(call[r].item) \in RowIds
                /\ seen' = [seen EXCEPT ![r] = db[MembershipRow(call[r].item)]]
            BY <5>3, CallType, RowsThereAre DEF FindMembership, Begins, MembershipRow
          <6> QED BY <6>1
        <5> QED BY <3>3, <5>1, <5>2, <5>3
      <4>2. seen' \in [Requests -> Contents \cup {Absent}]
        BY <1>0, <4>1, Domains
      <4> QED BY <1>0, <3>3, <4>2 DEF LoadRating, LoadMode, FindMembership
    <3>4. CASE GetLog(r) \/ ListLogs(r)
      <4>1. CASE GetLog(r)
        <5>1. call[r].item \in Logs
          BY <4>1, CallType DEF GetLog, Begins, LogJobs
        <5> QED BY <1>0, <4>1, <5>1 DEF GetLog
      <4>2. CASE ListLogs(r)
        <5>1. Listed(r) \in SUBSET Logs
          BY <4>2 DEF ListLogs, Begins, ListJobs, Listed
        <5> QED BY <1>0, <4>2, <5>1 DEF ListLogs
      <4> QED BY <3>4, <4>1, <4>2
    <3>5. CASE Browse(r)
      BY <1>0, <3>5, BrowseTypes DEF Browse
    <3>6. CASE LookForRole(r)
      BY <1>0, <3>6 DEF LookForRole
    <3>7. CASE LookForGrant(r)
      BY <1>0, <3>7 DEF LookForGrant
    <3> QED BY <1>1, <3>1, <3>2, <3>3, <3>4, <3>5, <3>6, <3>7 DEF Quiet
  <2> QED BY <2>1, <2>3, <2>4 DEF TypeOK, TransactionsTypeOK
<1>2. CASE Ends(r)
  <2>1. /\ UNCHANGED <<db, call, locals>> /\ pc' = [pc EXCEPT ![r] = "failed"]
        /\ SessionTypes' /\ response' \in [Requests -> Responses] /\ faults' \in 0..MaxFaults
    BY <1>2, EndsFacts
  <2>2. pc' \in [Requests -> Phases]
    BY <1>0, <2>1, Naming
  <2> QED BY <2>1, <2>2 DEF locals, SessionTypes, TypeOK, TransactionsTypeOK
<1>3. CASE Writes(r)
  <2>1. /\ UNCHANGED <<db, call, response, faults, locals>> /\ SessionTypes'
        /\ pc' = [pc EXCEPT ![r] = pc'[r]]
    BY <1>3, WritesFacts
  <2>2. pc'[r] \in {"raise", "audit", "associate", "respond", "look_for_grant"}
    BY <1>3, WritesFacts
  <2>3. pc' \in [Requests -> Phases]
    BY <1>0, <2>1, <2>2, Naming
  <2> QED BY <2>1, <2>3 DEF locals, SessionTypes, TypeOK, TransactionsTypeOK
<1>4. CASE Commits(r)
  <2>1. /\ UNCHANGED <<call, response, faults, locals>> /\ SessionTypes'
        /\ db' \in [RowIds -> Contents \cup {Absent}]
        /\ pc' = [pc EXCEPT ![r] = "done"]
    BY <1>4, CommitsFacts
  <2>2. pc' \in [Requests -> Phases]
    BY <1>0, <2>1, Naming
  <2> QED BY <2>1, <2>2 DEF locals, SessionTypes, TypeOK, TransactionsTypeOK
<1> QED BY <1>1, <1>2, <1>3, <1>4, StepIs

LEMMA StagesStep ==
    ASSUME TypeOK, Stages, NEW r \in Requests, Step(r)
    PROVE  Stages'
<1> DEFINE
    Stage(t) ==
        /\ pc[t] = "update_log" => call[t].job \in {"rate", "helpfulness"}
        /\ pc[t] = "update_alert" => call[t].job = "acknowledge"
        /\ pc[t] = "insert_category" => call[t].job = "category"
        /\ pc[t] \in {"insert_faq", "associate"} => call[t].job = "faq"
        /\ pc[t] = "write_mode" => call[t].job \in {"upsert", "delete"}
        /\ pc[t] \in {"notify", "raise"} => call[t].job = "get_log"
        /\ pc[t] \in Designating => call[t].job = "assign"
        /\ pc[t] = "insert_grant" => grant[t] \in Permissions
<1>0. /\ pc \in [Requests -> Phases]
      /\ \A t \in Requests : Stage(t)
  BY Domains DEF Stages
<1>a. \A t \in Requests \ {r} : Stage(t)'
  <2> SUFFICES ASSUME NEW t \in Requests \ {r}
               PROVE  Stage(t)'
    OBVIOUS
  <2>1. pc'[t] = pc[t] /\ call' = call /\ grant'[t] = grant[t]
    BY OthersStay
  <2> QED BY <1>0, <2>1
<1>b. ASSUME Stage(r)'
      PROVE  Stages'
  BY <1>a, <1>b DEF Stages
<1>1. CASE Quiet(r)
  <2>1. call' = call
    BY <1>1, QuietFacts
  <2>2. CASE \/ ReadDenied(r) \/ LoadRating(r) \/ GetLog(r) \/ ListLogs(r) \/ LoadAlert(r)
             \/ NameNotTaken(r) \/ ResolveIds(r) \/ Browse(r) \/ LoadMode(r)
             \/ FindMembership(r) \/ NotifyFails(r) \/ Respond(r)
             \/ (UpdateLog(r) /\ seen[r] = call[r].value)
             \/ (WriteMode(r) /\ seen[r] # Absent /\ seen[r] = call[r].value)
             \/ (UpdateMembership(r) /\ seen[r] = "content_manager")
    <3>1. Stage(r)'
      BY <1>0, <2>1, <2>2 DEF ReadDenied, LoadRating, GetLog, ListLogs, LoadAlert, NameNotTaken,
         ResolveIds, Browse, LoadMode, FindMembership, NotifyFails, Respond, UpdateLog,
         WriteMode, UpdateMembership, Begins, Continue, GoTo, Answer, Designating
    <3> QED BY <1>b, <3>1
  <2>3. CASE LookForRole(r) \/ Granted(r)
    <3>1. Stage(r)'
      BY <1>0, <2>1, <2>3 DEF LookForRole, Granted, Continue, GoTo, Designating
    <3> QED BY <1>b, <3>1
  <2>4. CASE LookForGrant(r)
    <3>1. PICK p \in todo[r] : grant' = [grant EXCEPT ![r] = p]
      BY <2>4 DEF LookForGrant
    <3>2. p \in Permissions /\ grant'[r] = p
      BY <3>1 DEF TypeOK
    <3>3. pc[r] = "look_for_grant" /\ pc'[r] \in {"insert_grant", "look_for_grant"}
      BY <1>0, <2>4 DEF LookForGrant, Continue, GoTo
    <3>4. Stage(r)'
      BY <1>0, <2>1, <3>2, <3>3 DEF Designating
    <3> QED BY <1>b, <3>4
  <2> QED BY <1>1, <2>2, <2>3, <2>4 DEF Quiet
<1>2. CASE Ends(r)
  <2>1. pc'[r] = "failed"
    BY <1>0, <1>2, EndsFacts
  <2>2. Stage(r)'
    BY <2>1 DEF Designating
  <2> QED BY <1>b, <2>2
<1>3. CASE Writes(r)
  <2>1. call' = call /\ UNCHANGED locals
    BY <1>3, WritesFacts
  <2>2. /\ pc'[r] \in {"raise", "audit", "associate", "respond", "look_for_grant"}
        /\ pc'[r] = "raise" => pc[r] = "notify"
        /\ pc'[r] = "associate" => pc[r] = "insert_faq"
        /\ pc'[r] = "look_for_grant" => pc[r] \in {"insert_role", "insert_grant"}
    BY <1>3, WritesFacts
  <2>3. Stage(r)'
    BY <1>0, <2>1, <2>2 DEF Designating
  <2> QED BY <1>b, <2>3
<1>4. CASE Commits(r)
  <2>1. pc'[r] = "done"
    BY <1>0, <1>4, CommitsFacts
  <2>2. Stage(r)'
    BY <2>1 DEF Designating
  <2> QED BY <1>b, <2>2
<1> QED BY <1>1, <1>2, <1>3, <1>4, StepIs

Foundation == TypeOK /\ Stages

LEMMA FoundationHolds == Spec => []Foundation
<1>1. Init => Foundation
  BY InitTypes DEF Foundation
<1>2. Foundation /\ [Next]_vars => Foundation'
  <2> SUFFICES ASSUME Foundation, [Next]_vars
               PROVE  Foundation'
    OBVIOUS
  <2>1. ASSUME NEW r \in Requests, Step(r)
        PROVE  Foundation'
    BY <2>1, TypeStep, StagesStep DEF Foundation
  <2>2. CASE UNCHANGED vars
    BY <2>2 DEF Foundation, vars, TypeOK, TransactionsTypeOK, Stages, locals
  <2> QED BY <2>1, <2>2 DEF Next
<1> QED BY <1>1, <1>2, PTL DEF Spec

\* Every variable stays in its domain, whichever requests come together and whatever
\* fails: a grant is of one of the role's permissions, and an FAQ that is read has
\* categories that there can be.
THEOREM TypeCorrect == Spec => []TypeOK
<1>1. Foundation => TypeOK
  BY DEF Foundation
<1> QED BY <1>1, FoundationHolds, PTL
------------------------------------------------------------------------------
(* Whose logs are read *)

LEMMA PrivacyStep ==
    ASSUME TypeOK, Stages, LogsStayPrivate, NEW r \in Requests, Step(r)
    PROVE  LogsStayPrivate'
<1> DEFINE Entitled(t, l) ==
        \/ Owns(t, l)
        \/ call[t].job \in {"list_org", "list_admin"} /\ Visible(t, l)
        \/ call[t].job = "list_admin" /\ call[t].user \in Superusers
<1>0. shown \in [Requests -> SUBSET Logs] /\ \A t \in Requests : \A l \in shown[t] : Entitled(t, l)
  BY DEF TypeOK, LogsStayPrivate
<1>a. \A t \in Requests \ {r} : \A l \in shown'[t] : Entitled(t, l)'
  BY <1>0, OthersStay DEF Owns, Visible
<1>b. call' = call
  <2>1. Quiet(r) \/ Ends(r) \/ Writes(r) \/ Commits(r)
    BY StepIs
  <2> QED BY <2>1, QuietFacts, EndsFacts, WritesFacts, CommitsFacts
<1>c. \A l \in shown'[r] : Entitled(r, l)
  <2>1. CASE GetLog(r)
    BY <1>0, <2>1 DEF GetLog
  <2>2. CASE ListLogs(r)
    <3>1. shown'[r] = Listed(r) /\ call[r].job \in ListJobs
      BY <1>0, <2>2 DEF ListLogs, Begins
    <3>2. \A l \in Listed(r) : Entitled(r, l)
      BY <3>1 DEF Listed, ListJobs
    <3> QED BY <3>1, <3>2
  <2>3. CASE shown' = shown
    BY <1>0, <2>3
  <2>4. shown' = shown \/ GetLog(r) \/ ListLogs(r)
    <3>1. CASE Quiet(r)
      <4>1. CASE \/ ReadDenied(r) \/ NotifyFails(r) \/ LoadAlert(r) \/ NameNotTaken(r)
                 \/ ResolveIds(r) \/ Granted(r) \/ Respond(r)
                 \/ (UpdateLog(r) /\ seen[r] = call[r].value)
                 \/ (WriteMode(r) /\ seen[r] # Absent /\ seen[r] = call[r].value)
                 \/ (UpdateMembership(r) /\ seen[r] = "content_manager")
        BY <4>1 DEF ReadDenied, NotifyFails, LoadAlert, NameNotTaken, ResolveIds, Granted,
                    Respond, UpdateLog, WriteMode, UpdateMembership, locals
      <4>2. CASE \/ LoadRating(r) \/ LoadMode(r) \/ FindMembership(r) \/ Browse(r)
                 \/ LookForRole(r) \/ LookForGrant(r)
        BY <4>2 DEF LoadRating, LoadMode, FindMembership, Browse, LookForRole, LookForGrant
      <4> QED BY <3>1, <4>1, <4>2 DEF Quiet
    <3>2. CASE Ends(r) \/ Writes(r) \/ Commits(r)
      BY <3>2, EndsFacts, WritesFacts, CommitsFacts DEF locals
    <3> QED BY <3>1, <3>2, StepIs
  <2> QED BY <2>1, <2>2, <2>3, <2>4
<1>d. \A t \in Requests : \A l \in shown'[t] : Entitled(t, l)'
  BY <1>a, <1>b, <1>c DEF Owns, Visible
<1> QED BY <1>d DEF LogsStayPrivate

\* A request has read only logs of its own user, of his organisation where it may
\* list them, or of any if a superuser lists them.
THEOREM LogsArePrivate == Spec => []LogsStayPrivate
<1> DEFINE Inv == Foundation /\ LogsStayPrivate
<1>1. Init => Inv
  BY InitTypes DEF Foundation, Init, LogsStayPrivate
<1>2. Inv /\ [Next]_vars /\ Foundation' => Inv'
  <2> SUFFICES ASSUME Foundation, LogsStayPrivate, [Next]_vars
               PROVE  LogsStayPrivate'
    OBVIOUS
  <2>1. ASSUME NEW r \in Requests, Step(r)
        PROVE  LogsStayPrivate'
    BY <2>1, PrivacyStep DEF Foundation
  <2>2. CASE UNCHANGED vars
    BY <2>2 DEF vars, LogsStayPrivate, Owns, Visible
  <2> QED BY <2>1, <2>2 DEF Next
<1>3. Inv => LogsStayPrivate
  OBVIOUS
<1> QED BY <1>1, <1>2, <1>3, FoundationHolds, PTL DEF Spec

------------------------------------------------------------------------------
(* The content manager role *)

Designated == {"update_membership", "audit", "respond", "commit"}

\* A session makes the role and its grants, never takes them away; and makes a
\* manager only once it has provisioned them.
Drafts ==
    \A r \in Requests :
        /\ \A k \in Provision : Holds(r, k) => writes[r][k] # Absent
        /\ \A u \in Users : Holds(r, MembershipRow(u)) =>
              call[r].job = "assign" /\ pc[r] \in {"audit", "respond", "commit"}

\* How much of the role a request has seen or made.
Progress ==
    \A r \in Requests : call[r].job = "assign" =>
        /\ pc[r] = "insert_role" => todo[r] = Permissions
        /\ pc[r] \in {"look_for_grant", "insert_grant"} \cup Designated =>
              /\ Read(r, RoleRow) # Absent
              /\ \A p \in Permissions :
                    \/ p \in todo[r]
                    \/ pc[r] = "insert_grant" /\ p = grant[r]
                    \/ Read(r, GrantRow(p)) # Absent
        /\ pc[r] \in Designated => todo[r] = {}

Managers ==
    \A u \in Users : db[MembershipRow(u)] # Absent =>
        \A k \in Provision : db[k] # Absent

ManagerInv == Drafts /\ Progress /\ Managers

LEMMA InitManagers ==
    ASSUME Init
    PROVE  ManagerInv
<1>1. \A r \in Requests : pc[r] = "idle"
  BY DEF Init, InitTransactions
<1>2. \A r \in Requests, k \in RowIds : ~Holds(r, k)
  BY DEF Init, InitTransactions, NoWrites, Rows, Holds
<1>3. \A u \in Users : db[MembershipRow(u)] = Absent
  <2> SUFFICES ASSUME NEW u \in Users
               PROVE  db[MembershipRow(u)] = Absent
    OBVIOUS
  <2>1. MembershipRow(u) \in RowIds
    BY RowsThereAre
  <2>2. /\ MembershipRow(u) # RoleRow /\ \A p : MembershipRow(u) # <<"grant", p>>
        /\ \A o, n : MembershipRow(u) # <<"category", o, n>>
    BY DEF MembershipRow, RoleRow
  <2> QED BY <2>1, <2>2 DEF Init, InitTransactions
<1> QED BY <1>1, <1>2, <1>3, RowsThereAre DEF ManagerInv, Drafts, Progress, Managers, Designated

\* No step takes away what another request has read of the role.
LEMMA ProvisionStays ==
    ASSUME TypeOK, Stages, Drafts, NEW r \in Requests, Step(r), NEW k \in Provision
    PROVE  /\ db[k] # Absent => db'[k] # Absent
           /\ \A t \in Requests \ {r} : Read(t, k) # Absent => Read(t, k)' # Absent
           /\ pc'[r] \notin {"done", "failed"} /\ Read(r, k) # Absent => Read(r, k)' # Absent
           /\ Holds(r, k)' => writes'[r][k] # Absent
<1>0. k \in RowIds /\ pc \in [Requests -> Phases]
  BY RowsThereAre, Domains
<1>1. CASE Quiet(r)
  <2>1. db' = db /\ writes' = writes
    BY <1>1, QuietFacts
  <2> QED BY <2>1 DEF Read, Holds, Drafts
<1>2. CASE Ends(r)
  <2>1. /\ db' = db /\ pc'[r] = "failed"
        /\ \A t \in Requests : writes'[t][k] = IF t = r THEN Untouched ELSE writes[t][k]
    BY <1>0, <1>2, EndsFacts
  <2> QED BY <2>1 DEF Read, Holds
<1>3. CASE Writes(r)
  <2>1. /\ db' = db
        /\ \A t \in Requests \ {r} : writes'[t][k] = writes[t][k]
        /\ writes'[r][k] = writes[r][k] \/ writes'[r][k] = "content_manager"
    BY <1>0, <1>3, WritesFacts
  <2>2. "content_manager" # Absent /\ "content_manager" # Untouched
    BY Marks
  <2> QED BY <2>1, <2>2 DEF Read, Holds, Drafts
<1>4. CASE Commits(r)
  <2>1. /\ db'[k] = IF Holds(r, k) THEN writes[r][k] ELSE db[k]
        /\ \A t \in Requests : writes'[t][k] = IF t = r THEN Untouched ELSE writes[t][k]
        /\ pc'[r] = "done"
    BY <1>0, <1>4, CommitsFacts
  <2>2. Holds(r, k) => writes[r][k] # Absent
    BY DEF Drafts
  <2> QED BY <2>1, <2>2 DEF Read, Holds
<1> QED BY <1>1, <1>2, <1>3, <1>4, StepIs
LEMMA SessionsStay ==
    ASSUME TypeOK, Stages, NEW r \in Requests, Step(r), NEW t \in Requests \ {r}
    PROVE  \A k \in RowIds : writes'[t][k] = writes[t][k]
<1>1. Quiet(r) \/ Ends(r) \/ Writes(r) \/ Commits(r)
  BY StepIs
<1>2. CASE Quiet(r)
  BY <1>2, QuietFacts
<1>3. CASE Ends(r) \/ Writes(r) \/ Commits(r)
  BY <1>3, EndsFacts, WritesFacts, CommitsFacts
<1> QED BY <1>1, <1>2, <1>3

LEMMA DraftsStep ==
    ASSUME TypeOK, Stages, Drafts, NEW r \in Requests, Step(r)
    PROVE  Drafts'
<1> DEFINE Drafted(t) ==
        /\ \A k \in Provision : Holds(t, k) => writes[t][k] # Absent
        /\ \A u \in Users : Holds(t, MembershipRow(u)) =>
              call[t].job = "assign" /\ pc[t] \in {"audit", "respond", "commit"}
<1>0. /\ \A t \in Requests : Drafted(t)
      /\ \A k \in Provision : k \in RowIds
      /\ \A u \in Users : MembershipRow(u) \in RowIds
      /\ pc \in [Requests -> Phases]
  BY RowsThereAre, Domains DEF Drafts
<1>1. \A t \in Requests \ {r} : Drafted(t)'
  BY <1>0, SessionsStay, OthersStay DEF Holds
<1>2. \A k \in Provision : Holds(r, k)' => writes'[r][k] # Absent
  BY ProvisionStays
<1>3. ASSUME NEW u \in Users, Holds(r, MembershipRow(u))'
      PROVE  call'[r].job = "assign" /\ pc'[r] \in {"audit", "respond", "commit"}
  <2>0. MembershipRow(u) \in RowIds /\ writes'[r][MembershipRow(u)] # Untouched
    BY <1>0, <1>3 DEF Holds
  <2>1. CASE Quiet(r)
    <3>1. writes' = writes /\ call' = call
      BY <2>1, QuietFacts
    <3>2. call[r].job = "assign" /\ pc[r] \in {"audit", "respond", "commit"}
      BY <1>0, <2>0, <3>1 DEF Holds
    <3>3. ~LookForRole(r) /\ ~LookForGrant(r) /\ ~Granted(r)
      BY <3>2 DEF LookForRole, LookForGrant, Granted
    <3>4. pc'[r] # "look_for_role"
      BY <1>0, <2>1, <3>2 DEF Quiet, ReadDenied, NotifyFails, LoadRating, UpdateLog, GetLog,
         ListLogs, LoadAlert, NameNotTaken, ResolveIds, Browse, LoadMode, WriteMode,
         FindMembership, LookForRole, LookForGrant, Granted, UpdateMembership, Respond, Begins,
         Answer, GoTo
    <3> QED BY <2>1, <3>1, <3>2, <3>3, <3>4, QuietFacts
  <2>2. CASE Ends(r) \/ Commits(r)
    BY <2>0, <2>2, EndsFacts, CommitsFacts
  <2>3. CASE Writes(r)
    <3>1. call' = call
      BY <2>3, WritesFacts
    <3>2. CASE writes'[r][MembershipRow(u)] = writes[r][MembershipRow(u)]
      <4>1. call[r].job = "assign" /\ pc[r] \in {"audit", "respond", "commit"}
        BY <1>0, <2>0, <3>2 DEF Holds
      <4> QED BY <2>3, <3>1, <4>1, WritesFacts
    <3>3. CASE writes'[r][MembershipRow(u)] # writes[r][MembershipRow(u)]
      <4>1. pc[r] = "update_membership" /\ pc'[r] = "audit"
        BY <2>3, <3>3, WritesFacts
      <4> QED BY <3>1, <4>1 DEF Stages, Designating
    <3> QED BY <3>2, <3>3
  <2> QED BY <2>1, <2>2, <2>3, StepIs
<1> QED BY <1>1, <1>2, <1>3 DEF Drafts

LEMMA ProgressStep ==
    ASSUME TypeOK, Stages, Drafts, Progress, NEW r \in Requests, Step(r)
    PROVE  Progress'
<1> DEFINE
    Seen(t) ==
        /\ Read(t, RoleRow) # Absent
        /\ \A p \in Permissions : \/ p \in todo[t]
                                  \/ pc[t] = "insert_grant" /\ p = grant[t]
                                  \/ Read(t, GrantRow(p)) # Absent
    Progressed(t) == call[t].job = "assign" =>
        /\ pc[t] = "insert_role" => todo[t] = Permissions
        /\ pc[t] \in {"look_for_grant", "insert_grant"} \cup Designated => Seen(t)
        /\ pc[t] \in Designated => todo[t] = {}
<1>0. /\ \A t \in Requests : Progressed(t)
      /\ RoleRow \in Provision /\ \A p \in Permissions : GrantRow(p) \in Provision
      /\ pc \in [Requests -> Phases] /\ todo \in [Requests -> SUBSET Permissions]
      /\ grant \in [Requests -> Permissions \cup {Absent}]
      /\ \A k \in Provision : k \in RowIds
  BY Domains, RowsThereAre DEF Progress, TypeOK, Provision
<1>a. \A t \in Requests \ {r} : Progressed(t)'
  <2> SUFFICES ASSUME NEW t \in Requests \ {r}
               PROVE  Progressed(t)'
    OBVIOUS
  <2>1. pc'[t] = pc[t] /\ call' = call /\ todo'[t] = todo[t] /\ grant'[t] = grant[t]
    BY OthersStay
  <2>2. \A k \in Provision : Read(t, k) # Absent => Read(t, k)' # Absent
    BY ProvisionStays
  <2> QED BY <1>0, <2>1, <2>2
<1>b. ASSUME Progressed(r)'
      PROVE  Progress'
  BY <1>a, <1>b DEF Progress
<1>c. \A k \in Provision : pc'[r] \notin {"done", "failed"} /\ Read(r, k) # Absent =>
          Read(r, k)' # Absent
  BY ProvisionStays
<1>1. CASE LookForRole(r)
  <2>1. /\ todo'[r] = Permissions /\ db' = db /\ writes' = writes
        /\ pc'[r] = IF db[RoleRow] = Absent THEN "insert_role" ELSE "look_for_grant"
    BY <1>0, <1>1 DEF LookForRole, Continue, GoTo
  <2>2. db[RoleRow] # Absent => Read(r, RoleRow)' # Absent
    BY <1>0, <2>1 DEF Read, Holds, Drafts
  <2>3. Progressed(r)'
    BY <2>1, <2>2 DEF Designated
  <2> QED BY <1>b, <2>3
<1>2. CASE LookForGrant(r)
  <2>1. PICK p \in todo[r] :
           /\ todo' = [todo EXCEPT ![r] = @ \ {p}] /\ grant' = [grant EXCEPT ![r] = p]
           /\ Continue(r, IF Read(r, GrantRow(p)) = Absent THEN "insert_grant"
                          ELSE "look_for_grant")
    BY <1>2 DEF LookForGrant, GrantRow
  <2>2. /\ todo'[r] = todo[r] \ {p} /\ grant'[r] = p
        /\ pc'[r] = IF Read(r, GrantRow(p)) = Absent THEN "insert_grant" ELSE "look_for_grant"
        /\ call' = call /\ db' = db /\ writes' = writes
    BY <1>0, <2>1 DEF Continue, GoTo
  <2>3. pc[r] = "look_for_grant"
    BY <1>2 DEF LookForGrant
  <2>4. call[r].job = "assign" => Seen(r)
    BY <1>0, <2>3
  <2>5. Read(r, GrantRow(p))' = Read(r, GrantRow(p))
    BY <2>2 DEF Read, Holds
  <2>6. call[r].job = "assign" => Seen(r)'
    <3> SUFFICES ASSUME call[r].job = "assign"
                 PROVE  Seen(r)'
      OBVIOUS
    <3>1. Read(r, RoleRow)' # Absent
      BY <1>0, <1>c, <2>2, <2>4
    <3>2. ASSUME NEW q \in Permissions
          PROVE  \/ q \in todo'[r]
                 \/ pc'[r] = "insert_grant" /\ q = grant'[r]
                 \/ Read(r, GrantRow(q))' # Absent
      <4>1. Read(r, GrantRow(q)) # Absent => Read(r, GrantRow(q))' # Absent
        BY <1>0, <1>c, <2>2
      <4> QED BY <2>2, <2>3, <2>4, <4>1
    <3> QED BY <3>1, <3>2
  <2>7. Progressed(r)'
    BY <2>2, <2>6 DEF Designated
  <2> QED BY <1>b, <2>7
<1>3. CASE Granted(r)
  <2>1. /\ pc[r] = "look_for_grant" /\ todo[r] = {} /\ pc'[r] = "update_membership"
        /\ todo' = todo /\ grant' = grant /\ call' = call
    BY <1>0, <1>3 DEF Granted, Continue, GoTo, locals
  <2>2. call[r].job = "assign" => Seen(r)'
    BY <1>0, <1>c, <2>1
  <2>3. Progressed(r)'
    BY <2>1, <2>2
  <2> QED BY <1>b, <2>3
<1>4. CASE Quiet(r) /\ ~LookForRole(r) /\ ~LookForGrant(r) /\ ~Granted(r)
  <2>1. /\ call' = call
        /\ \/ call[r].job # "assign"
           \/ pc'[r] = "look_for_role"
           \/ pc[r] = "update_membership" /\ pc'[r] = "audit" /\ UNCHANGED locals
           \/ pc[r] = "respond" /\ pc'[r] = "commit" /\ UNCHANGED locals
    BY <1>4, QuietFacts
  <2>2. CASE call[r].job # "assign" \/ pc'[r] = "look_for_role"
    <3>1. Progressed(r)'
      BY <2>1, <2>2 DEF Designated
    <3> QED BY <1>b, <3>1
  <2>3. CASE /\ UNCHANGED locals
             /\ \/ pc[r] = "update_membership" /\ pc'[r] = "audit"
                \/ pc[r] = "respond" /\ pc'[r] = "commit"
    <3>1. call[r].job = "assign" => todo'[r] = {} /\ Seen(r)'
      BY <1>0, <1>c, <2>1, <2>3 DEF locals, Designated
    <3>2. Progressed(r)'
      BY <2>1, <2>3, <3>1
    <3> QED BY <1>b, <3>2
  <2> QED BY <2>1, <2>2, <2>3
<1>5. CASE Ends(r) \/ Commits(r)
  <2>1. pc'[r] \in {"failed", "done"}
    BY <1>0, <1>5, EndsFacts, CommitsFacts
  <2>2. Progressed(r)'
    BY <2>1 DEF Designated
  <2> QED BY <1>b, <2>2
<1>6. CASE Writes(r)
  <2>1. UNCHANGED <<call, locals>> /\ todo' = todo /\ grant' = grant
    BY <1>6, WritesFacts DEF locals
  <2>2. CASE /\ pc'[r] \in {"raise", "audit", "associate", "respond"}
             /\ \/ pc[r] = "audit" /\ pc'[r] = "respond"
                \/ pc[r] # "audit" /\ call[r].job # "assign"
    <3>1. pc[r] = "audit" /\ call[r].job = "assign" => todo'[r] = {} /\ Seen(r)'
      BY <1>0, <1>c, <2>1, <2>2 DEF Designated
    <3>2. Progressed(r)'
      BY <2>1, <2>2, <3>1
    <3> QED BY <1>b, <3>2
  <2>3. CASE /\ pc[r] = "insert_role" /\ pc'[r] = "look_for_grant"
             /\ writes'[r][RoleRow] = "content_manager"
    <3>1. Read(r, RoleRow)' # Absent
      BY <2>3, Marks DEF Read, Holds
    <3>2. call[r].job = "assign" => Seen(r)'
      BY <1>0, <2>1, <2>3, <3>1
    <3>3. Progressed(r)'
      BY <2>1, <2>3, <3>2 DEF Designated
    <3> QED BY <1>b, <3>3
  <2>4. CASE /\ pc[r] = "insert_grant" /\ pc'[r] = "look_for_grant"
             /\ writes'[r][GrantRow(grant[r])] = "content_manager"
    <3>1. Read(r, GrantRow(grant[r]))' # Absent
      BY <2>1, <2>4, Marks DEF Read, Holds
    <3>2. call[r].job = "assign" => Seen(r)'
      <4> SUFFICES ASSUME call[r].job = "assign"
                   PROVE  Seen(r)'
        OBVIOUS
      <4>1. Seen(r)
        BY <1>0, <2>4
      <4>2. Read(r, RoleRow)' # Absent
        BY <1>0, <1>c, <2>4, <4>1
      <4>3. ASSUME NEW p \in Permissions
            PROVE  p \in todo'[r] \/ Read(r, GrantRow(p))' # Absent
        <5>1. CASE p = grant[r]
          BY <2>1, <3>1, <5>1
        <5>2. CASE p # grant[r]
          BY <1>0, <1>c, <2>1, <2>4, <4>1, <5>2
        <5> QED BY <5>1, <5>2
      <4> QED BY <4>2, <4>3
    <3>3. Progressed(r)'
      BY <2>1, <2>4, <3>2 DEF Designated
    <3> QED BY <1>b, <3>3
  <2>5. CASE pc[r] = "update_membership" /\ pc'[r] = "audit"
    <3>1. call[r].job = "assign" => todo'[r] = {} /\ Seen(r)'
      BY <1>0, <1>c, <2>1, <2>5 DEF Designated
    <3>2. Progressed(r)'
      BY <2>1, <2>5, <3>1
    <3> QED BY <1>b, <3>2
  <2> QED BY <1>6, <2>2, <2>3, <2>4, <2>5, WritesFacts
<1> QED BY <1>1, <1>2, <1>3, <1>4, <1>5, <1>6, StepIs

LEMMA ManagersStep ==
    ASSUME TypeOK, Stages, ManagerInv, NEW r \in Requests, Step(r)
    PROVE  Managers'
<1> SUFFICES ASSUME NEW u \in Users, db'[MembershipRow(u)] # Absent, NEW k \in Provision
             PROVE  db'[k] # Absent
  BY DEF Managers, MembershipRow
<1>0. k \in RowIds /\ MembershipRow(u) \in RowIds
  BY RowsThereAre
<1>1. CASE db[MembershipRow(u)] # Absent
  BY <1>1, ProvisionStays DEF ManagerInv, Managers
<1>2. CASE db[MembershipRow(u)] = Absent
  <2>1. Commits(r)
    BY <1>2, StepIs, QuietFacts, EndsFacts, WritesFacts
  <2>2. Holds(r, MembershipRow(u)) /\ pc[r] = "commit"
    BY <1>0, <1>2, <2>1, CommitsFacts
  <2>3. call[r].job = "assign"
    BY <2>2 DEF ManagerInv, Drafts
  <2>4. /\ Read(r, RoleRow) # Absent /\ todo[r] = {}
        /\ \A p \in Permissions : p \in todo[r] \/ Read(r, GrantRow(p)) # Absent
    BY <2>2, <2>3 DEF ManagerInv, Progress, Designated
  <2>5. Read(r, k) # Absent
    BY <2>4 DEF Provision
  <2> QED BY <1>0, <2>1, <2>5, CommitsFacts DEF Read
<1> QED BY <1>1, <1>2

LEMMA ManagerInvHolds == Spec => []ManagerInv
<1> DEFINE Inv == Foundation /\ ManagerInv
<1>1. Init => Inv
  BY InitTypes, InitManagers DEF Foundation
<1>2. Inv /\ [Next]_vars /\ Foundation' => Inv'
  <2> SUFFICES ASSUME Foundation, ManagerInv, [Next]_vars
               PROVE  ManagerInv'
    OBVIOUS
  <2>1. ASSUME NEW r \in Requests, Step(r)
        PROVE  ManagerInv'
    BY <2>1, DraftsStep, ProgressStep, ManagersStep DEF Foundation, ManagerInv
  <2>2. CASE UNCHANGED vars
    BY <2>2 DEF vars, locals, ManagerInv, Drafts, Progress, Managers, Read, Holds
  <2> QED BY <2>1, <2>2 DEF Next
<1>3. Inv => ManagerInv
  OBVIOUS
<1> QED BY <1>1, <1>2, <1>3, FoundationHolds, PTL DEF Spec

\* Whoever is a content manager has the role with all of its permissions, whichever
\* assignments provision it at once and wherever they are cut off.
THEOREM ManagersHaveGrants == Spec => []ManagersAreGranted
<1>1. ManagerInv => ManagersAreGranted
  BY DEF ManagerInv, Managers, ManagersAreGranted, Provision, MembershipRow, GrantRow
<1> QED BY <1>1, ManagerInvHolds, PTL

------------------------------------------------------------------------------
(* What is stored is what has been audited *)

AuditedJobs == {"rate", "helpfulness", "acknowledge", "category", "faq", "upsert", "assign"}

\* The handler has written what it writes.
Late == {"audit", "respond", "commit"}

\* What a request has made sure of on its way, and what it has written.
Promised(t) ==
    /\ pc[t] = "update_log" => Owns(t, call[t].item)
    /\ pc[t] = "update_alert" => Visible(t, call[t].item)
    /\ pc[t] = "write_mode" /\ call[t].job = "upsert" => db[CategoryRow(t)] # Absent
    /\ pc[t] \in Late \cup {"insert_faq", "associate"} /\ call[t].job = "faq" =>
          \A n \in call[t].names : db[<<"category", Org[call[t].user], n>>] # Absent
    /\ pc[t] \in Late /\ call[t].job = "faq" =>
          \A n \in call[t].names : writes[t][<<"faq_category", t, n>>] \in Contents
    /\ pc[t] \in Late \ {"audit"} /\ call[t].job \in AuditedJobs =>
          writes[t][<<"audit", t>>] = call[t].user

Promises == \A t \in Requests : Promised(t)

\* The rows that a request may hold, and with what.
RatingDrafts ==
    \A t \in Requests, l \in Logs, c \in {"rating", "helpfulness"} : Holds(t, <<c, l>>) =>
        /\ pc[t] \in Late /\ call[t].job \in {"rate", "helpfulness"}
        /\ Owns(t, l) /\ call[t].item = l /\ call[t].value = writes[t][<<c, l>>]

AlertDrafts ==
    \A t \in Requests, a \in Alerts : Holds(t, <<"alert", a>>) =>
        /\ pc[t] \in Late /\ call[t].job = "acknowledge"
        /\ Visible(t, a) /\ call[t].item = a

CategoryDrafts ==
    \A t \in Requests, o \in Orgs, n \in Names :
        Holds(t, <<"category", o, n>>) => writes[t][<<"category", o, n>>] # Absent

ModeDrafts ==
    \A t \in Requests, o \in Orgs, n \in Names :
        writes[t][<<"mode", o, n>>] \notin {Absent, Untouched} =>
            /\ pc[t] \in Late /\ call[t].job = "upsert"
            /\ Org[call[t].user] = o /\ call[t].item = n
            /\ call[t].value = writes[t][<<"mode", o, n>>]
            /\ db[<<"category", o, n>>] # Absent

FaqDrafts ==
    \A t \in Requests, s \in Requests :
        /\ Holds(t, <<"faq", s>>) =>
              s = t /\ pc[t] \in Late \cup {"associate"} /\ call[t].job = "faq"
        /\ \A n \in Names : Holds(t, <<"faq_category", s, n>>) =>
              /\ s = t /\ n \in call[t].names
              /\ writes[t][<<"faq_category", s, n>>] # Absent

AuditDrafts ==
    \A t \in Requests, s \in Requests : Holds(t, <<"audit", s>>) =>
        s = t /\ writes[t][<<"audit", s>>] = call[t].user

\* What has been committed, as TracedToAudit has it.
RatingsTraced ==
    \A l \in Logs, c \in {"rating", "helpfulness"} : db[<<c, l>>] # Absent =>
        \E t \in Requests : /\ Audited(t) /\ Owns(t, l)
                            /\ call[t].item = l /\ call[t].value = db[<<c, l>>]

AlertsTraced ==
    \A a \in Alerts : db[<<"alert", a>>] # Absent =>
        \E t \in Requests : Audited(t) /\ Visible(t, a) /\ call[t].item = a

ModesTraced ==
    \A o \in Orgs, n \in Names : db[<<"mode", o, n>>] # Absent =>
        /\ db[<<"category", o, n>>] # Absent
        /\ \E t \in Requests : /\ Audited(t) /\ Org[call[t].user] = o
                               /\ call[t].item = n /\ call[t].value = db[<<"mode", o, n>>]

\* An FAQ has the categories that it was created with, and no others.
FaqsTraced ==
    /\ \A t \in Requests : db[<<"faq", t>>] # Absent =>
          /\ call[t].job = "faq" /\ Audited(t)
          /\ \A n \in call[t].names : /\ db[<<"faq_category", t, n>>] # Absent
                                      /\ db[<<"category", Org[call[t].user], n>>] # Absent
    /\ \A t \in Requests, n \in Names :
          db[<<"faq_category", t, n>>] # Absent => n \in call[t].names
    /\ \A t \in Requests : \A f \in faqs[t] : f.categories = call[f.faq].names

DraftsTraced == /\ RatingDrafts /\ AlertDrafts /\ CategoryDrafts /\ ModeDrafts
                /\ FaqDrafts /\ AuditDrafts
StoredTraced == RatingsTraced /\ AlertsTraced /\ ModesTraced /\ FaqsTraced

TraceInv == Promises /\ DraftsTraced /\ StoredTraced

\* The rows that a request writes at each stage, with what, and where it goes then.
RowsOf(r, K, content, phase) ==
    \/ /\ K = {<<"notice", r>>} /\ pc[r] = "notify" /\ phase = "raise"
       /\ call[r].job = "get_log"
    \/ /\ K = {LogColumn(r)} /\ content = call[r].value
       /\ pc[r] = "update_log" /\ phase = "audit"
       /\ call[r].job \in {"rate", "helpfulness"}
    \/ /\ K = {<<"alert", call[r].item>>} /\ pc[r] = "update_alert"
       /\ phase = "audit" /\ call[r].job = "acknowledge"
    \/ /\ K = {CategoryRow(r)} /\ content = call[r].user
       /\ pc[r] = "insert_category" /\ phase = "audit"
       /\ call[r].job = "category"
    \/ /\ K = {<<"faq", r>>} /\ content = call[r].item
       /\ pc[r] = "insert_faq" /\ phase = "associate" /\ call[r].job = "faq"
    \/ /\ K = {<<"faq_category", r, n>> : n \in call[r].names}
       /\ content = call[r].item /\ pc[r] = "associate" /\ phase = "audit"
       /\ call[r].job = "faq"
    \/ /\ K = {ModeRow(r)} /\ content = call[r].value /\ pc[r] = "write_mode"
       /\ phase = "audit" /\ call[r].job = "upsert"
    \/ /\ K = {ModeRow(r)} /\ content = Absent /\ pc[r] = "write_mode"
       /\ phase = "respond" /\ call[r].job = "delete"
    \/ /\ K = {<<"audit", r>>} /\ content = call[r].user /\ pc[r] = "audit"
       /\ phase = "respond"
    \/ /\ K \subseteq Provision \cup {MembershipRow(u) : u \in Users}
       /\ pc[r] \in Designating /\ phase \in {"look_for_grant", "audit"}
       /\ call[r].job = "assign"

\* A request writes the rows of its own stage, with what it has been asked for.
LEMMA RowWritten ==
    ASSUME TypeOK, Stages, NEW r \in Requests,
           RecordsRow(r) \/ AddsRole(r) \/ AddsGrant(r) \/ AddsManager(r)
    PROVE  \E K \in SUBSET RowIds, content \in Contents \cup {Absent}, phase \in Phases :
             /\ UNCHANGED <<db, call, locals>>
             /\ pc'[r] = phase
             /\ \A k \in RowIds : writes'[r][k] = IF k \in K THEN content ELSE writes[r][k]
             /\ RowsOf(r, K, content, phase)
<1>0. /\ pc \in [Requests -> Phases] /\ call[r].user \in Contents
      /\ Provision \subseteq RowIds /\ \A u \in Users : MembershipRow(u) \in RowIds
  BY Domains, CallType, Marks, RowsThereAre
<1>1. ASSUME NEW K \in SUBSET RowIds, NEW content \in Contents \cup {Absent},
             NEW phase \in Phases, Flush(r, K, content, phase)
      PROVE  /\ UNCHANGED <<db, call, locals>> /\ pc'[r] = phase
             /\ \A k \in RowIds :
                   writes'[r][k] = IF k \in K THEN content ELSE writes[r][k]
  BY <1>0, <1>1, Domains DEF Flush, Put, PutEach, GoTo, Rows, SessionTypes
<1>2. CASE NotifyAsker(r)
  <2>1. /\ {<<"notice", r>>} \in SUBSET RowIds /\ pc[r] = "notify"
        /\ call[r].job = "get_log" /\ "raise" \in Phases
        /\ Flush(r, {<<"notice", r>>}, call[r].user, "raise")
    BY <1>2, RowsThereAre, Naming DEF NotifyAsker, Stages
  <2>3. PICK K \in SUBSET RowIds, x \in Contents \cup {Absent}, phase \in Phases :
           /\ K = {<<"notice", r>>} /\ x = call[r].user /\ phase = "raise"
           /\ Flush(r, K, x, phase)
    BY <1>0, <2>1
  <2>4. /\ UNCHANGED <<db, call, locals>> /\ pc'[r] = phase
        /\ \A k \in RowIds : writes'[r][k] = IF k \in K THEN x ELSE writes[r][k]
    BY <1>1, <2>3
  <2> QED BY <2>1, <2>3, <2>4 DEF RowsOf
<1>3. CASE UpdateLog(r) /\ seen[r] # call[r].value
  <2>1. /\ pc[r] = "update_log" /\ call[r].job \in {"rate", "helpfulness"}
        /\ Flush(r, {LogColumn(r)}, call[r].value, "audit")
    BY <1>3 DEF UpdateLog, Stages
  <2>2. /\ {LogColumn(r)} \in SUBSET RowIds /\ call[r].value \in Contents \cup {Absent}
        /\ "audit" \in Phases
    BY <2>1, RowsThereAre, CallType, Marks, Naming DEF LogColumn, LogJobs
  <2> QED BY <1>1, <2>1, <2>2 DEF RowsOf
<1>4. CASE UpdateAlert(r)
  <2>1. /\ pc[r] = "update_alert" /\ call[r].job = "acknowledge"
        /\ Flush(r, {<<"alert", call[r].item>>}, call[r].user, "audit")
    BY <1>4 DEF UpdateAlert, Stages
  <2>2. {<<"alert", call[r].item>>} \in SUBSET RowIds /\ "audit" \in Phases
    BY <2>1, RowsThereAre, CallType, Naming
  <2>3. PICK K \in SUBSET RowIds, x \in Contents \cup {Absent}, phase \in Phases :
           /\ K = {<<"alert", call[r].item>>} /\ x = call[r].user /\ phase = "audit"
           /\ Flush(r, K, x, phase)
    BY <1>0, <2>1, <2>2
  <2>4. /\ UNCHANGED <<db, call, locals>> /\ pc'[r] = phase
        /\ \A k \in RowIds : writes'[r][k] = IF k \in K THEN x ELSE writes[r][k]
    BY <1>1, <2>3
  <2> QED BY <2>1, <2>3, <2>4 DEF RowsOf
<1>5. CASE InsertCategory(r) /\ db[CategoryRow(r)] = Absent
  <2>1. /\ pc[r] = "insert_category" /\ call[r].job = "category"
        /\ Flush(r, {CategoryRow(r)}, call[r].user, "audit")
    BY <1>5 DEF InsertCategory, InsertOnce, Stages
  <2>2. {CategoryRow(r)} \in SUBSET RowIds /\ "audit" \in Phases
    BY <2>1, RowsThereAre, CallType, Naming DEF CategoryRow
  <2>3. PICK K \in SUBSET RowIds, x \in Contents \cup {Absent}, phase \in Phases :
           /\ K = {CategoryRow(r)} /\ x = call[r].user /\ phase = "audit"
           /\ Flush(r, K, x, phase)
    BY <1>0, <2>1, <2>2
  <2>4. /\ UNCHANGED <<db, call, locals>> /\ pc'[r] = phase
        /\ \A k \in RowIds : writes'[r][k] = IF k \in K THEN x ELSE writes[r][k]
    BY <1>1, <2>3
  <2> QED BY <2>1, <2>3, <2>4 DEF RowsOf
<1>6. CASE InsertFaq(r)
  <2>1. /\ pc[r] = "insert_faq" /\ call[r].job = "faq"
        /\ Flush(r, {<<"faq", r>>}, call[r].item, "associate")
    BY <1>6 DEF InsertFaq, Stages
  <2>2. /\ {<<"faq", r>>} \in SUBSET RowIds /\ "associate" \in Phases
        /\ call[r].item \in Contents
    BY <2>1, RowsThereAre, CallType, Marks, Naming
  <2> QED BY <1>1, <2>1, <2>2 DEF RowsOf
<1>7. CASE Associate(r)
  <2> DEFINE K == {<<"faq_category", r, n>> : n \in call[r].names}
  <2>1. /\ pc[r] = "associate" /\ call[r].job = "faq"
        /\ Flush(r, K, call[r].item, "audit")
    BY <1>7 DEF Associate, Stages
  <2>2. K \in SUBSET RowIds /\ "audit" \in Phases /\ call[r].item \in Contents
    BY <2>1, RowsThereAre, CallType, Marks, Naming
  <2>3. K = {<<"faq_category", r, n>> : n \in call[r].names}
    OBVIOUS
  <2> HIDE DEF K
  <2> QED BY <1>1, <2>1, <2>2, <2>3 DEF RowsOf
<1>8. CASE WritesMode(r)
  <2>1. /\ pc[r] = "write_mode" /\ call[r].job = "upsert"
        /\ Flush(r, {ModeRow(r)}, call[r].value, "audit")
    BY <1>8 DEF WritesMode
  <2>2. /\ {ModeRow(r)} \in SUBSET RowIds /\ "audit" \in Phases
        /\ call[r].value \in Contents
    BY <2>1, RowsThereAre, CallType, Marks, Naming DEF ModeRow
  <2>3. PICK K \in SUBSET RowIds, x \in Contents \cup {Absent}, phase \in Phases :
           /\ K = {ModeRow(r)} /\ x = call[r].value /\ phase = "audit"
           /\ Flush(r, K, x, phase)
    BY <1>0, <2>1, <2>2
  <2>4. /\ UNCHANGED <<db, call, locals>> /\ pc'[r] = phase
        /\ \A k \in RowIds : writes'[r][k] = IF k \in K THEN x ELSE writes[r][k]
    BY <1>1, <2>3
  <2> QED BY <2>1, <2>3, <2>4 DEF RowsOf
<1>d. CASE DeleteMode(r)
  <2>1. /\ pc[r] = "write_mode" /\ call[r].job = "delete"
        /\ Flush(r, {ModeRow(r)}, Absent, "respond")
    BY <1>d DEF DeleteMode
  <2>2. {ModeRow(r)} \in SUBSET RowIds /\ "respond" \in Phases
    BY <2>1, RowsThereAre, CallType, Naming DEF ModeRow
  <2>3. PICK K \in SUBSET RowIds, x \in Contents \cup {Absent}, phase \in Phases :
           /\ K = {ModeRow(r)} /\ x = Absent /\ phase = "respond"
           /\ Flush(r, K, x, phase)
    BY <1>0, <2>1, <2>2
  <2>4. /\ UNCHANGED <<db, call, locals>> /\ pc'[r] = phase
        /\ \A k \in RowIds : writes'[r][k] = IF k \in K THEN x ELSE writes[r][k]
    BY <1>1, <2>3
  <2> QED BY <2>1, <2>3, <2>4 DEF RowsOf
<1>9. CASE Audit(r)
  <2>1. /\ {<<"audit", r>>} \in SUBSET RowIds /\ pc[r] = "audit" /\ "respond" \in Phases
        /\ Flush(r, {<<"audit", r>>}, call[r].user, "respond")
    BY <1>9, RowsThereAre, Naming DEF Audit
  <2>3. PICK K \in SUBSET RowIds, x \in Contents \cup {Absent}, phase \in Phases :
           /\ K = {<<"audit", r>>} /\ x = call[r].user /\ phase = "respond"
           /\ Flush(r, K, x, phase)
    BY <1>0, <2>1
  <2>4. /\ UNCHANGED <<db, call, locals>> /\ pc'[r] = phase
        /\ \A k \in RowIds : writes'[r][k] = IF k \in K THEN x ELSE writes[r][k]
    BY <1>1, <2>3
  <2> QED BY <2>1, <2>3, <2>4 DEF RowsOf
<1>10. CASE AddsRole(r) \/ AddsGrant(r) \/ AddsManager(r)
  <2>1. /\ pc[r] \in Designating /\ call[r].job = "assign"
        /\ \E k \in Provision \cup {MembershipRow(u) : u \in Users},
              phase \in {"look_for_grant", "audit"} :
              Flush(r, {k}, "content_manager", phase)
    BY <1>10, CallType DEF AddsRole, AddsGrant, AddsManager, Stages, Designating, Provision
  <2>2. PICK k \in Provision \cup {MembershipRow(u) : u \in Users},
             phase \in {"look_for_grant", "audit"} :
             Flush(r, {k}, "content_manager", phase)
    BY <2>1
  <2>3. phase \in Phases /\ "content_manager" \in Contents /\ {k} \in SUBSET RowIds
    BY <1>0, Naming, Marks
  <2> QED BY <1>1, <2>1, <2>2, <2>3 DEF RowsOf
<1> QED BY <1>2, <1>3, <1>4, <1>5, <1>6, <1>7, <1>8, <1>d, <1>9, <1>10 DEF RecordsRow

\* What a request has made sure of when it has read.
LEMMA QuietGoes ==
    ASSUME TypeOK, Stages, NEW r \in Requests, Quiet(r)
    PROVE  /\ pc'[r] = "update_log" => Owns(r, call[r].item)
           /\ pc'[r] = "update_alert" => Visible(r, call[r].item)
           /\ pc'[r] = "write_mode" /\ call[r].job = "upsert" => db[CategoryRow(r)] # Absent
           /\ pc'[r] = "insert_faq" /\ call[r].job = "faq" =>
                 \A n \in call[r].names : db[<<"category", Org[call[r].user], n>>] # Absent
           /\ pc'[r] # "associate"
           /\ pc'[r] \in Late /\ call[r].job = "faq" => pc[r] = "respond"
           /\ pc'[r] \in Late \ {"audit"} /\ call[r].job \in AuditedJobs => pc[r] = "respond"
           /\ pc[r] \in Late \cup {"insert_faq", "associate"} =>
                 pc[r] = "respond" /\ pc'[r] = "commit"
<1>0. pc \in [Requests -> Phases]
  BY Domains
<1> USE DEF Late, AuditedJobs, Begins, Continue, GoTo
<1>1. CASE ReadDenied(r) \/ GetLog(r) \/ ListLogs(r) \/ Browse(r)
  BY <1>0, <1>1 DEF ReadDenied, GetLog, ListLogs, Browse, ListJobs
<1>2. CASE LoadRating(r) \/ LoadAlert(r)
  BY <1>0, <1>2 DEF LoadRating, LoadAlert, Denied
<1>3. CASE NotifyFails(r) \/ (UpdateLog(r) /\ seen[r] = call[r].value)
           \/ (WriteMode(r) /\ seen[r] # Absent /\ seen[r] = call[r].value)
  BY <1>0, <1>3 DEF NotifyFails, UpdateLog, WriteMode, Stages
<1>4. CASE NameNotTaken(r) \/ ResolveIds(r) \/ LoadMode(r)
  BY <1>0, <1>4 DEF NameNotTaken, ResolveIds, LoadMode, Resolved
<1>5. CASE FindMembership(r) \/ LookForRole(r) \/ LookForGrant(r) \/ Granted(r)
           \/ (UpdateMembership(r) /\ seen[r] = "content_manager")
  BY <1>0, <1>5 DEF FindMembership, LookForRole, LookForGrant, Granted, UpdateMembership,
                    Stages, Designating
<1>6. CASE Respond(r)
  BY <1>0, <1>6 DEF Respond, Answer
<1> QED BY <1>1, <1>2, <1>3, <1>4, <1>5, <1>6 DEF Quiet

\* A category stays.
LEMMA CategoriesStay ==
    ASSUME TypeOK, Stages, CategoryDrafts, NEW r \in Requests, Step(r),
           NEW o \in Orgs, NEW n \in Names, db[<<"category", o, n>>] # Absent
    PROVE  db'[<<"category", o, n>>] # Absent
<1>1. <<"category", o, n>> \in RowIds
  BY RowsThereAre
<1> QED BY <1>1, StepIs, QuietFacts, EndsFacts, WritesFacts, CommitsFacts DEF CategoryDrafts
\* The rows that a step of r may begin to hold.
BeginsToHold(r, k) ==
    \/ /\ k = LogColumn(r) /\ writes'[r][k] = call[r].value
       /\ pc[r] = "update_log" /\ pc'[r] = "audit"
       /\ call[r].job \in {"rate", "helpfulness"}
    \/ /\ k = <<"alert", call[r].item>> /\ call[r].job = "acknowledge"
       /\ pc[r] = "update_alert" /\ pc'[r] = "audit"
    \/ k = CategoryRow(r) /\ writes'[r][k] = call[r].user
    \/ k = <<"faq", r>> /\ pc'[r] = "associate" /\ call[r].job = "faq"
    \/ /\ \E n \in call[r].names : k = <<"faq_category", r, n>>
       /\ writes'[r][k] = call[r].item /\ call[r].job = "faq"
    \/ /\ k = ModeRow(r) /\ writes'[r][k] = call[r].value /\ call[r].job = "upsert"
       /\ pc[r] = "write_mode" /\ pc'[r] = "audit"
    \/ k = ModeRow(r) /\ writes'[r][k] = Absent
    \/ k = <<"audit", r>> /\ writes'[r][k] = call[r].user
    \/ k = <<"notice", r>>
    \/ k \in Provision \cup {MembershipRow(u) : u \in Users}

\* A row that a request holds after a step it has held before, or it is one of
\* these.
LEMMA HeldThen ==
    ASSUME TypeOK, Stages, NEW r \in Requests, Step(r), NEW t \in Requests,
           NEW k \in RowIds, writes'[t][k] # Untouched
    PROVE  \/ /\ writes'[t][k] = writes[t][k]
              /\ pc[t] \in Late => pc'[t] \in Late
              /\ pc[t] \in Late \cup {"associate"} => pc'[t] \in Late \cup {"associate"}
           \/ t = r /\ BeginsToHold(r, k)
<1>1. CASE t # r
  BY <1>1, SessionsStay, OthersStay
<1>2. CASE t = r /\ Quiet(r)
  <2>1. writes' = writes
    BY <1>2, QuietFacts
  <2>2. pc[r] \in Late \cup {"associate"} => pc'[r] \in Late
    BY <1>2, QuietGoes DEF Late
  <2> QED BY <1>2, <2>1, <2>2
<1>3. CASE t = r /\ (Ends(r) \/ Commits(r))
  BY <1>3, EndsFacts, CommitsFacts
<1>4. CASE t = r /\ (RecordsRow(r) \/ AddsRole(r) \/ AddsGrant(r) \/ AddsManager(r))
  <2>1. PICK K \in SUBSET RowIds, content \in Contents \cup {Absent}, phase \in Phases :
             /\ UNCHANGED <<db, call, locals>>
             /\ pc'[r] = phase
             /\ \A j \in RowIds : writes'[r][j] = IF j \in K THEN content ELSE writes[r][j]
             /\ RowsOf(r, K, content, phase)
    BY <1>4, RowWritten
  <2>2. pc[r] \in Late \cup {"associate"} => pc'[r] \in Late
    BY <2>1 DEF RowsOf, Late, Designating
  <2>3. CASE k \notin K
    BY <1>4, <2>1, <2>2, <2>3
  <2>4. CASE k \in K
    BY <1>4, <2>1, <2>4 DEF RowsOf, BeginsToHold
  <2> QED BY <2>3, <2>4
<1> QED BY <1>1, <1>2, <1>3, <1>4, StepDoes

LEMMA CallStays ==
    ASSUME TypeOK, Stages, NEW r \in Requests, Step(r)
    PROVE  call' = call
BY StepIs, QuietFacts, EndsFacts, WritesFacts, CommitsFacts

LEMMA RatingDraftsStep ==
    ASSUME TypeOK, Stages, Promises, RatingDrafts, NEW r \in Requests, Step(r)
    PROVE  RatingDrafts'
<1>c. call' = call
  BY CallStays
<1> SUFFICES ASSUME NEW t \in Requests, NEW l \in Logs, NEW c \in {"rating", "helpfulness"},
                    Holds(t, <<c, l>>)'
             PROVE  /\ pc'[t] \in Late /\ call'[t].job \in {"rate", "helpfulness"}
                    /\ Owns(t, l)' /\ call'[t].item = l
                    /\ call'[t].value = writes'[t][<<c, l>>]
  BY DEF RatingDrafts
<1>h. writes'[t][<<c, l>>] # Untouched
  BY DEF Holds
<1>0. <<c, l>> \in RowIds
  BY RowsThereAre
<1>1. CASE writes'[t][<<c, l>>] = writes[t][<<c, l>>] /\ (pc[t] \in Late => pc'[t] \in Late)
  BY <1>1, <1>c, <1>h DEF RatingDrafts, Holds, Owns
<1>2. CASE t = r /\ BeginsToHold(r, <<c, l>>)
  <2>1. /\ <<c, l>> = LogColumn(r) /\ writes'[r][<<c, l>>] = call[r].value
        /\ pc[r] = "update_log" /\ pc'[r] = "audit"
        /\ call[r].job \in {"rate", "helpfulness"}
    BY <1>2, OtherRows DEF BeginsToHold, CategoryRow, ModeRow
  <2>2. l = call[r].item
    BY <2>1 DEF LogColumn
  <2>3. Owns(r, call[r].item)
    BY <2>1 DEF Promises, Promised
  <2> QED BY <1>2, <1>c, <2>1, <2>2, <2>3 DEF Late, Owns
<1> QED BY <1>0, <1>h, <1>1, <1>2, HeldThen

LEMMA AlertDraftsStep ==
    ASSUME TypeOK, Stages, Promises, AlertDrafts, NEW r \in Requests, Step(r)
    PROVE  AlertDrafts'
<1> SUFFICES ASSUME NEW t \in Requests, NEW a \in Alerts,
                    writes'[t][<<"alert", a>>] # Untouched
             PROVE  /\ pc'[t] \in Late /\ call[t].job = "acknowledge"
                    /\ Visible(t, a) /\ call[t].item = a
  BY CallStays DEF AlertDrafts, Holds, Visible
<1>0. <<"alert", a>> \in RowIds
  BY RowsThereAre
<1>1. CASE /\ writes'[t][<<"alert", a>>] = writes[t][<<"alert", a>>]
           /\ pc[t] \in Late => pc'[t] \in Late
  BY <1>1 DEF AlertDrafts, Holds
<1>2. CASE t = r /\ BeginsToHold(r, <<"alert", a>>)
  <2>1. /\ a = call[r].item /\ call[r].job = "acknowledge"
        /\ pc[r] = "update_alert" /\ pc'[r] = "audit"
    BY <1>2, OtherRows DEF BeginsToHold, CategoryRow, ModeRow, LogColumn
  <2>2. Visible(r, call[r].item)
    BY <2>1 DEF Promises, Promised
  <2> QED BY <1>2, <2>1, <2>2 DEF Late
<1> QED BY <1>0, <1>1, <1>2, HeldThen

LEMMA CategoryDraftsStep ==
    ASSUME TypeOK, Stages, CategoryDrafts, NEW r \in Requests, Step(r)
    PROVE  CategoryDrafts'
<1> SUFFICES ASSUME NEW t \in Requests, NEW o \in Orgs, NEW n \in Names,
                    writes'[t][<<"category", o, n>>] # Untouched
             PROVE  writes'[t][<<"category", o, n>>] # Absent
  BY DEF CategoryDrafts, Holds
<1>0. <<"category", o, n>> \in RowIds
  BY RowsThereAre
<1>1. CASE writes'[t][<<"category", o, n>>] = writes[t][<<"category", o, n>>]
  BY <1>1 DEF CategoryDrafts, Holds
<1>2. CASE t = r /\ BeginsToHold(r, <<"category", o, n>>)
  <2>1. writes'[r][<<"category", o, n>>] = call[r].user
    BY <1>2, OtherRows DEF BeginsToHold, ModeRow, LogColumn
  <2> QED BY <1>2, <2>1, CallType, Marks
<1> QED BY <1>0, <1>1, <1>2, HeldThen

LEMMA ModeDraftsStep ==
    ASSUME TypeOK, Stages, Promises, CategoryDrafts, ModeDrafts, NEW r \in Requests, Step(r)
    PROVE  ModeDrafts'
<1> SUFFICES ASSUME NEW t \in Requests, NEW o \in Orgs, NEW n \in Names,
                    writes'[t][<<"mode", o, n>>] \notin {Absent, Untouched}
             PROVE  /\ pc'[t] \in Late /\ call[t].job = "upsert"
                    /\ Org[call[t].user] = o /\ call[t].item = n
                    /\ call[t].value = writes'[t][<<"mode", o, n>>]
                    /\ db'[<<"category", o, n>>] # Absent
  BY CallStays DEF ModeDrafts
<1>0. <<"mode", o, n>> \in RowIds
  BY RowsThereAre
<1>1. CASE /\ writes'[t][<<"mode", o, n>>] = writes[t][<<"mode", o, n>>]
           /\ pc[t] \in Late => pc'[t] \in Late
  BY <1>1, CategoriesStay DEF ModeDrafts
<1>2. CASE t = r /\ BeginsToHold(r, <<"mode", o, n>>)
  <2>1. /\ <<"mode", o, n>> = ModeRow(r) /\ writes'[r][<<"mode", o, n>>] = call[r].value
        /\ call[r].job = "upsert" /\ pc[r] = "write_mode" /\ pc'[r] = "audit"
    BY <1>2, OtherRows DEF BeginsToHold, CategoryRow, LogColumn
  <2>2. o = Org[call[r].user] /\ n = call[r].item
    BY <2>1 DEF ModeRow
  <2>3. db[<<"category", o, n>>] # Absent
    BY <2>1, <2>2 DEF Promises, Promised, CategoryRow
  <2> QED BY <1>2, <2>1, <2>2, <2>3, CategoriesStay DEF Late
<1> QED BY <1>0, <1>1, <1>2, HeldThen

LEMMA FaqDraftsStep ==
    ASSUME TypeOK, Stages, FaqDrafts, NEW r \in Requests, Step(r)
    PROVE  FaqDrafts'
<1>1. ASSUME NEW t \in Requests, NEW s \in Requests, writes'[t][<<"faq", s>>] # Untouched
      PROVE  s = t /\ pc'[t] \in Late \cup {"associate"} /\ call[t].job = "faq"
  <2>0. <<"faq", s>> \in RowIds
    BY RowsThereAre
  <2>1. CASE /\ writes'[t][<<"faq", s>>] = writes[t][<<"faq", s>>]
             /\ pc[t] \in Late \cup {"associate"} => pc'[t] \in Late \cup {"associate"}
    BY <1>1, <2>1 DEF FaqDrafts, Holds
  <2>2. CASE t = r /\ BeginsToHold(r, <<"faq", s>>)
    BY <2>2, OtherRows DEF BeginsToHold, CategoryRow, ModeRow, LogColumn
  <2> QED BY <1>1, <2>0, <2>1, <2>2, HeldThen
<1>2. ASSUME NEW t \in Requests, NEW s \in Requests, NEW n \in Names,
             writes'[t][<<"faq_category", s, n>>] # Untouched
      PROVE  /\ s = t /\ n \in call[t].names
             /\ writes'[t][<<"faq_category", s, n>>] # Absent
  <2>0. <<"faq_category", s, n>> \in RowIds
    BY RowsThereAre
  <2>1. CASE writes'[t][<<"faq_category", s, n>>] = writes[t][<<"faq_category", s, n>>]
    <3>1. Holds(t, <<"faq_category", s, n>>)
      BY <1>2, <2>1 DEF Holds
    <3>2. s = t /\ n \in call[t].names /\ writes[t][<<"faq_category", s, n>>] # Absent
      BY <3>1 DEF FaqDrafts
    <3> QED BY <2>1, <3>2
  <2>2. CASE t = r /\ BeginsToHold(r, <<"faq_category", s, n>>)
    <3>1. /\ s = r /\ n \in call[r].names /\ call[r].job = "faq"
          /\ writes'[r][<<"faq_category", s, n>>] = call[r].item
      BY <2>2, OtherRows DEF BeginsToHold, CategoryRow, ModeRow, LogColumn
    <3> QED BY <2>2, <3>1, CallType, Marks
  <2> QED BY <1>2, <2>0, <2>1, <2>2, HeldThen
<1>c. call' = call
  BY CallStays
<1>3. ASSUME NEW t \in Requests, NEW s \in Requests
      PROVE  /\ Holds(t, <<"faq", s>>)' =>
                   s = t /\ pc'[t] \in Late \cup {"associate"} /\ call'[t].job = "faq"
             /\ \A n \in Names : Holds(t, <<"faq_category", s, n>>)' =>
                   /\ s = t /\ n \in call'[t].names
                   /\ writes'[t][<<"faq_category", s, n>>] # Absent
  BY <1>1, <1>2, <1>c DEF Holds
<1> QED BY <1>3 DEF FaqDrafts

LEMMA AuditDraftsStep ==
    ASSUME TypeOK, Stages, AuditDrafts, NEW r \in Requests, Step(r)
    PROVE  AuditDrafts'
<1> SUFFICES ASSUME NEW t \in Requests, NEW s \in Requests,
                    writes'[t][<<"audit", s>>] # Untouched
             PROVE  s = t /\ writes'[t][<<"audit", s>>] = call[t].user
  BY CallStays DEF AuditDrafts, Holds
<1>0. <<"audit", s>> \in RowIds
  BY RowsThereAre
<1>1. CASE writes'[t][<<"audit", s>>] = writes[t][<<"audit", s>>]
  BY <1>1 DEF AuditDrafts, Holds
<1>2. CASE t = r /\ BeginsToHold(r, <<"audit", s>>)
  BY <1>2, OtherRows DEF BeginsToHold, CategoryRow, ModeRow, LogColumn
<1> QED BY <1>0, <1>1, <1>2, HeldThen
LEMMA PromisesStep ==
    ASSUME TypeOK, Stages, Promises, CategoryDrafts, NEW r \in Requests, Step(r)
    PROVE  Promises'
<1>0. /\ call' = call
      /\ \A t \in Requests : call[t].names \subseteq Names /\ Org[call[t].user] \in Orgs
      /\ \A t \in Requests, n \in Names : <<"faq_category", t, n>> \in RowIds
      /\ \A t \in Requests : <<"audit", t>> \in RowIds
  BY CallStays, CallType, RowsThereAre
<1>c. \A o \in Orgs, n \in Names :
         db[<<"category", o, n>>] # Absent => db'[<<"category", o, n>>] # Absent
  BY CategoriesStay
<1>w. \A t \in Requests : pc[t] = "write_mode" /\ call[t].job = "upsert" =>
          CategoryRow(t) = <<"category", Org[call[t].user], call[t].item>> /\ call[t].item \in Names
  BY CallType DEF CategoryRow
<1>1. ASSUME NEW t \in Requests \ {r}
      PROVE  Promised(t)'
  <2>1. pc'[t] = pc[t] /\ \A k \in RowIds : writes'[t][k] = writes[t][k]
    BY OthersStay, SessionsStay
  <2>2. Promised(t)
    BY DEF Promises
  <2>3. pc[t] = "write_mode" /\ call[t].job = "upsert" => CategoryRow(t)' = CategoryRow(t)
                                                          /\ db'[CategoryRow(t)] # Absent
    BY <1>0, <1>c, <1>w, <2>2 DEF Promised, CategoryRow
  <2>4. pc[t] \in Late \cup {"insert_faq", "associate"} /\ call[t].job = "faq" =>
           \A n \in call[t].names : db'[<<"category", Org[call[t].user], n>>] # Absent
    BY <1>0, <1>c, <2>2 DEF Promised
  <2>5. /\ pc[t] \in Late /\ call[t].job = "faq" =>
              \A n \in call[t].names : writes'[t][<<"faq_category", t, n>>] \in Contents
        /\ pc[t] \in Late \ {"audit"} /\ call[t].job \in AuditedJobs =>
              writes'[t][<<"audit", t>>] = call[t].user
    BY <1>0, <2>1, <2>2 DEF Promised
  <2>6. /\ pc[t] = "update_log" => Owns(t, call[t].item)'
        /\ pc[t] = "update_alert" => Visible(t, call[t].item)'
    BY <1>0, <2>2 DEF Promised, Owns, Visible
  <2> QED BY <1>0, <2>1, <2>3, <2>4, <2>5, <2>6 DEF Promised
<1>2. CASE Quiet(r)
  <2>1. writes' = writes /\ db' = db
    BY <1>2, QuietFacts
  <2>2. Promised(r)
    BY DEF Promises
  <2>3. Promised(r)'
    BY <1>0, <1>2, <2>1, <2>2, QuietGoes DEF Promised, Owns, Visible, CategoryRow, Late
  <2> QED BY <1>1, <2>3 DEF Promises
<1>3. CASE Ends(r) \/ Commits(r)
  <2>1. pc'[r] \in {"failed", "done"}
    BY <1>3, EndsFacts, CommitsFacts, Domains
  <2>2. Promised(r)'
    BY <2>1 DEF Promised, Late
  <2> QED BY <1>1, <2>2 DEF Promises
<1>4. CASE RecordsRow(r) \/ AddsRole(r) \/ AddsGrant(r) \/ AddsManager(r)
  <2>1. PICK K \in SUBSET RowIds, content \in Contents \cup {Absent}, phase \in Phases :
             /\ UNCHANGED <<db, call, locals>>
             /\ pc'[r] = phase
             /\ \A j \in RowIds : writes'[r][j] = IF j \in K THEN content ELSE writes[r][j]
             /\ RowsOf(r, K, content, phase)
    BY <1>4, RowWritten
  <2>2. Promised(r) /\ db' = db
    BY <2>1 DEF Promises
  <2>3. /\ pc'[r] \notin {"update_log", "update_alert", "write_mode", "insert_faq"}
        /\ pc'[r] \in Late \cup {"associate"} /\ call[r].job = "faq" =>
              pc[r] \in {"insert_faq", "associate", "audit"}
        /\ pc'[r] \in Late /\ call[r].job = "faq" => pc[r] \in {"associate", "audit"}
        /\ pc'[r] \in Late \ {"audit"} /\ call[r].job \in AuditedJobs => pc[r] = "audit"
    BY <2>1 DEF RowsOf, Late, Designating, AuditedJobs
  <2>4. pc[r] = "associate" =>
           \A n \in call[r].names : writes'[r][<<"faq_category", r, n>>] \in Contents
    <3> SUFFICES ASSUME pc[r] = "associate", NEW n \in call[r].names
                 PROVE  writes'[r][<<"faq_category", r, n>>] \in Contents
      OBVIOUS
    <3>1. /\ K = {<<"faq_category", r, m>> : m \in call[r].names}
          /\ content = call[r].item /\ call[r].job = "faq"
      BY <2>1 DEF RowsOf, Designating
    <3> QED BY <1>0, <2>1, <3>1, CallType, Marks
  <2>5. pc[r] = "audit" => /\ writes'[r][<<"audit", r>>] = call[r].user
                           /\ \A n \in call[r].names :
                                 writes'[r][<<"faq_category", r, n>>]
                                    = writes[r][<<"faq_category", r, n>>]
    <3> SUFFICES ASSUME pc[r] = "audit"
                 PROVE  /\ writes'[r][<<"audit", r>>] = call[r].user
                        /\ \A n \in call[r].names :
                              writes'[r][<<"faq_category", r, n>>]
                                 = writes[r][<<"faq_category", r, n>>]
      OBVIOUS
    <3>1. K = {<<"audit", r>>} /\ content = call[r].user
      BY <2>1 DEF RowsOf, Designating
    <3> QED BY <1>0, <2>1, <3>1, RowsThereAre
  <2>6. Promised(r)'
    <3>1. pc'[r] \in Late \cup {"insert_faq", "associate"} /\ call[r].job = "faq" =>
            \A n \in call[r].names : db[<<"category", Org[call[r].user], n>>] # Absent
      BY <2>2, <2>3 DEF Promised, Late
    <3>2. pc'[r] \in Late /\ call[r].job = "faq" =>
            \A n \in call[r].names : writes'[r][<<"faq_category", r, n>>] \in Contents
      BY <2>2, <2>3, <2>4, <2>5 DEF Promised, Late
    <3>3. pc'[r] \in Late \ {"audit"} /\ call[r].job \in AuditedJobs =>
            writes'[r][<<"audit", r>>] = call[r].user
      BY <2>3, <2>5
    <3> QED BY <1>0, <2>2, <2>3, <3>1, <3>2, <3>3 DEF Promised
  <2> QED BY <1>1, <2>6 DEF Promises
<1> QED BY <1>2, <1>3, <1>4, StepDoes

\* Nothing is stored but by a commit.
LEMMA StoredByCommit ==
    ASSUME TypeOK, Stages, NEW r \in Requests, Step(r), ~Commits(r)
    PROVE  db' = db
BY StepIs, QuietFacts, EndsFacts, WritesFacts

\* Who has been audited stays so.
LEMMA AuditedStays ==
    ASSUME TypeOK, Stages, AuditDrafts, NEW r \in Requests, Step(r),
           NEW t \in Requests, Audited(t)
    PROVE  db'[<<"audit", t>>] = call[t].user
<1>1. <<"audit", t>> \in RowIds
  BY RowsThereAre
<1>2. CASE Commits(r)
  BY <1>1, <1>2, CommitsFacts DEF Audited, AuditDrafts
<1>3. CASE ~Commits(r)
  BY <1>3, StoredByCommit DEF Audited
<1> QED BY <1>2, <1>3

\* A request that commits what is to be audited commits its audit record.
LEMMA AuditCommitted ==
    ASSUME TypeOK, Promises, NEW r \in Requests, Commits(r), call[r].job \in AuditedJobs
    PROVE  db'[<<"audit", r>>] = call[r].user
<1>1. <<"audit", r>> \in RowIds /\ pc[r] = "commit"
  BY RowsThereAre, CommitsFacts
<1>2. writes[r][<<"audit", r>>] = call[r].user
  BY <1>1 DEF Promises, Promised, Late
<1>3. call[r].user # Untouched
  BY CallType, Marks
<1> QED BY <1>1, <1>2, <1>3, CommitsFacts DEF Holds

LEMMA RatingsTracedStep ==
    ASSUME TypeOK, Stages, Promises, DraftsTraced, RatingsTraced, NEW r \in Requests, Step(r)
    PROVE  RatingsTraced'
<1>c. call' = call
  BY CallStays
<1> SUFFICES ASSUME NEW l \in Logs, NEW c \in {"rating", "helpfulness"},
                    db'[<<c, l>>] # Absent
             PROVE  \E t \in Requests : /\ db'[<<"audit", t>>] = call[t].user /\ Owns(t, l)
                                        /\ call[t].item = l /\ call[t].value = db'[<<c, l>>]
  BY <1>c DEF RatingsTraced, Audited, Owns
<1>0. <<c, l>> \in RowIds
  BY RowsThereAre
<1>1. CASE db'[<<c, l>>] = db[<<c, l>>]
  <2>1. PICK t \in Requests : /\ Audited(t) /\ Owns(t, l)
                              /\ call[t].item = l /\ call[t].value = db[<<c, l>>]
    BY <1>1 DEF RatingsTraced
  <2> QED BY <1>1, <2>1, AuditedStays DEF DraftsTraced
<1>2. CASE db'[<<c, l>>] # db[<<c, l>>]
  <2>1. Commits(r)
    BY <1>2, StoredByCommit
  <2>2. Holds(r, <<c, l>>) /\ db'[<<c, l>>] = writes[r][<<c, l>>]
    BY <1>0, <1>2, <2>1, CommitsFacts
  <2>3. /\ call[r].job \in {"rate", "helpfulness"} /\ Owns(r, l) /\ call[r].item = l
        /\ call[r].value = db'[<<c, l>>]
    BY <2>2 DEF DraftsTraced, RatingDrafts
  <2> QED BY <2>1, <2>3, AuditCommitted DEF AuditedJobs
<1> QED BY <1>1, <1>2

LEMMA AlertsTracedStep ==
    ASSUME TypeOK, Stages, Promises, DraftsTraced, AlertsTraced, NEW r \in Requests, Step(r)
    PROVE  AlertsTraced'
<1>c. call' = call
  BY CallStays
<1> SUFFICES ASSUME NEW a \in Alerts, db'[<<"alert", a>>] # Absent
             PROVE  \E t \in Requests : /\ db'[<<"audit", t>>] = call[t].user
                                        /\ Visible(t, a) /\ call[t].item = a
  BY <1>c DEF AlertsTraced, Audited, Visible
<1>0. <<"alert", a>> \in RowIds
  BY RowsThereAre
<1>1. CASE db'[<<"alert", a>>] = db[<<"alert", a>>]
  BY <1>1, AuditedStays DEF AlertsTraced, DraftsTraced
<1>2. CASE db'[<<"alert", a>>] # db[<<"alert", a>>]
  <2>1. Commits(r)
    BY <1>2, StoredByCommit
  <2>2. Holds(r, <<"alert", a>>)
    BY <1>0, <1>2, <2>1, CommitsFacts
  <2>3. call[r].job = "acknowledge" /\ Visible(r, a) /\ call[r].item = a
    BY <2>2 DEF DraftsTraced, AlertDrafts
  <2> QED BY <2>1, <2>3, AuditCommitted DEF AuditedJobs
<1> QED BY <1>1, <1>2

LEMMA ModesTracedStep ==
    ASSUME TypeOK, Stages, Promises, DraftsTraced, ModesTraced, NEW r \in Requests, Step(r)
    PROVE  ModesTraced'
<1>c. call' = call
  BY CallStays
<1> SUFFICES ASSUME NEW o \in Orgs, NEW n \in Names, db'[<<"mode", o, n>>] # Absent
             PROVE  /\ db'[<<"category", o, n>>] # Absent
                    /\ \E t \in Requests :
                          /\ db'[<<"audit", t>>] = call[t].user /\ Org[call[t].user] = o
                          /\ call[t].item = n /\ call[t].value = db'[<<"mode", o, n>>]
  BY <1>c DEF ModesTraced, Audited
<1>0. <<"mode", o, n>> \in RowIds
  BY RowsThereAre
<1>1. CASE db'[<<"mode", o, n>>] = db[<<"mode", o, n>>]
  BY <1>1, AuditedStays, CategoriesStay DEF ModesTraced, DraftsTraced
<1>2. CASE db'[<<"mode", o, n>>] # db[<<"mode", o, n>>]
  <2>1. Commits(r)
    BY <1>2, StoredByCommit
  <2>2. Holds(r, <<"mode", o, n>>) /\ db'[<<"mode", o, n>>] = writes[r][<<"mode", o, n>>]
    BY <1>0, <1>2, <2>1, CommitsFacts
  <2>3. /\ call[r].job = "upsert" /\ Org[call[r].user] = o /\ call[r].item = n
        /\ call[r].value = db'[<<"mode", o, n>>] /\ db[<<"category", o, n>>] # Absent
    BY <2>2 DEF DraftsTraced, ModeDrafts, Holds
  <2> QED BY <2>1, <2>3, AuditCommitted, CategoriesStay DEF AuditedJobs, DraftsTraced
<1> QED BY <1>1, <1>2
\* What is committed of an FAQ.
LEMMA FaqsTracedStep ==
    ASSUME TypeOK, Stages, Promises, DraftsTraced, FaqsTraced, NEW r \in Requests, Step(r)
    PROVE  FaqsTraced'
<1>0. /\ call' = call
      /\ \A t \in Requests : call[t].names \subseteq Names /\ Org[call[t].user] \in Orgs
      /\ \A t \in Requests : <<"faq", t>> \in RowIds
      /\ \A t \in Requests, n \in Names : <<"faq_category", t, n>> \in RowIds
      /\ \A o \in Orgs, n \in Names : <<"category", o, n>> \in RowIds
  BY CallStays, CallType, RowsThereAre
<1>c. \A o \in Orgs, n \in Names :
         db[<<"category", o, n>>] # Absent => db'[<<"category", o, n>>] # Absent
  BY CategoriesStay DEF DraftsTraced
<1>1. ASSUME NEW t \in Requests, db'[<<"faq", t>>] # Absent
      PROVE  /\ call[t].job = "faq" /\ db'[<<"audit", t>>] = call[t].user
             /\ \A n \in call[t].names :
                   /\ db'[<<"faq_category", t, n>>] # Absent
                   /\ db'[<<"category", Org[call[t].user], n>>] # Absent
  <2>1. CASE db[<<"faq", t>>] # Absent
    <3>1. /\ call[t].job = "faq" /\ Audited(t)
          /\ \A n \in call[t].names : /\ db[<<"faq_category", t, n>>] # Absent
                                      /\ db[<<"category", Org[call[t].user], n>>] # Absent
      BY <2>1 DEF FaqsTraced
    <3>2. \A n \in call[t].names : db'[<<"faq_category", t, n>>] # Absent
      <4> SUFFICES ASSUME NEW n \in call[t].names
                   PROVE  db'[<<"faq_category", t, n>>] # Absent
        OBVIOUS
      <4>1. CASE Commits(r)
        <5>1. Holds(r, <<"faq_category", t, n>>) =>
                 writes[r][<<"faq_category", t, n>>] # Absent
          BY <1>0 DEF DraftsTraced, FaqDrafts
        <5> QED BY <1>0, <3>1, <4>1, <5>1, CommitsFacts
      <4>2. CASE ~Commits(r)
        BY <3>1, <4>2, StoredByCommit
      <4> QED BY <4>1, <4>2
    <3> QED BY <1>0, <1>c, <3>1, <3>2, AuditedStays DEF DraftsTraced
  <2>2. CASE db[<<"faq", t>>] = Absent
    <3>1. Commits(r)
      BY <1>1, <2>2, StoredByCommit
    <3>2. Holds(r, <<"faq", t>>) /\ pc[r] = "commit"
      BY <1>0, <1>1, <2>2, <3>1, CommitsFacts
    <3>3. t = r /\ call[r].job = "faq"
      BY <3>2 DEF DraftsTraced, FaqDrafts
    <3>4. \A n \in call[r].names : /\ writes[r][<<"faq_category", r, n>>] \in Contents
                                   /\ db[<<"category", Org[call[r].user], n>>] # Absent
      BY <3>2, <3>3 DEF Promises, Promised, Late
    <3>5. \A n \in call[r].names : db'[<<"faq_category", r, n>>] # Absent
      <4> SUFFICES ASSUME NEW n \in call[r].names
                   PROVE  db'[<<"faq_category", r, n>>] # Absent
        OBVIOUS
      <4>1. writes[r][<<"faq_category", r, n>>] \notin {Absent, Untouched}
        BY <3>4, Marks
      <4> QED BY <1>0, <3>1, <4>1, CommitsFacts DEF Holds
    <3> QED BY <1>0, <1>c, <3>1, <3>3, <3>4, <3>5, AuditCommitted DEF AuditedJobs
  <2> QED BY <2>1, <2>2
<1>2. ASSUME NEW t \in Requests, NEW n \in Names, db'[<<"faq_category", t, n>>] # Absent
      PROVE  n \in call[t].names
  <2>1. CASE db[<<"faq_category", t, n>>] # Absent
    BY <2>1 DEF FaqsTraced
  <2>2. CASE db[<<"faq_category", t, n>>] = Absent
    <3>1. Commits(r)
      BY <1>2, <2>2, StoredByCommit
    <3>2. Holds(r, <<"faq_category", t, n>>)
      BY <1>0, <1>2, <2>2, <3>1, CommitsFacts
    <3> QED BY <3>2 DEF DraftsTraced, FaqDrafts
  <2> QED BY <2>1, <2>2
<1>3. \A t \in Requests : \A f \in faqs'[t] : f.categories = call[f.faq].names
  <2>1. CASE Browse(r)
    <3>1. faqs \in [Requests -> SUBSET [faq : Requests, categories : SUBSET Names]]
      BY DEF TypeOK
    <3>2. ASSUME NEW f \in faqs'[r]
          PROVE  f.categories = call[f.faq].names
      <4>1. PICK u \in Requests : /\ f = [faq |-> u, categories |-> Associated(u)]
                                  /\ db[<<"faq", u>>] = call[r].item
        BY <2>1, <3>1 DEF Browse
      <4>2. call[r].item # Absent
        BY <2>1, CallType, Marks DEF Browse, Begins
      <4>3. /\ call[u].job = "faq"
            /\ \A n \in call[u].names : db[<<"faq_category", u, n>>] # Absent
            /\ \A n \in Names : db[<<"faq_category", u, n>>] # Absent => n \in call[u].names
        BY <4>1, <4>2 DEF FaqsTraced
      <4>4. call[u].item \in call[u].names
        BY <4>3, CallType
      <4>5. {n \in Names : db[<<"faq_category", u, n>>] # Absent} = call[u].names
        BY <1>0, <4>3
      <4>6. Associated(u) = call[u].names
        BY <4>4, <4>5 DEF Associated
      <4> QED BY <4>1, <4>6
    <3>3. \A t \in Requests \ {r} : faqs'[t] = faqs[t]
      BY <2>1, <3>1 DEF Browse
    <3> QED BY <3>2, <3>3 DEF FaqsTraced
  <2>2. CASE ~Browse(r)
    <3>1. faqs' = faqs
      <4>1. CASE Quiet(r)
        BY <2>2, <4>1 DEF Quiet, ReadDenied, NotifyFails, LoadRating, UpdateLog, GetLog,
           ListLogs, LoadAlert, NameNotTaken, ResolveIds, LoadMode, WriteMode, FindMembership,
           LookForRole, LookForGrant, Granted, UpdateMembership, Respond, locals
      <4>2. CASE Ends(r) \/ Writes(r) \/ Commits(r)
        BY <4>2, EndsFacts, WritesFacts, CommitsFacts DEF locals
      <4> QED BY <4>1, <4>2, StepIs
    <3> QED BY <3>1 DEF FaqsTraced
  <2> QED BY <2>1, <2>2
<1>4. \A t \in Requests : db'[<<"faq", t>>] # Absent =>
          /\ call'[t].job = "faq" /\ Audited(t)'
          /\ \A n \in call'[t].names : /\ db'[<<"faq_category", t, n>>] # Absent
                                       /\ db'[<<"category", Org[call'[t].user], n>>] # Absent
  BY <1>0, <1>1 DEF Audited
<1>5. \A t \in Requests, n \in Names :
          db'[<<"faq_category", t, n>>] # Absent => n \in call'[t].names
  BY <1>0, <1>2
<1> QED BY <1>0, <1>3, <1>4, <1>5 DEF FaqsTraced

LEMMA InitTraces ==
    ASSUME Init
    PROVE  TraceInv
<1>1. TypeOK
  BY InitTypes
<1>2. /\ \A t \in Requests : pc[t] = "idle" /\ faqs[t] = {}
      /\ \A t \in Requests, k \in RowIds : writes[t][k] = Untouched
  BY DEF Init, InitTransactions, NoWrites, Rows
<1>3. Promises
  BY <1>2 DEF Promises, Promised, Late
<1>4. DraftsTraced
  BY <1>2, RowsThereAre DEF DraftsTraced, RatingDrafts, AlertDrafts, CategoryDrafts,
     ModeDrafts, FaqDrafts, AuditDrafts, Holds
<1>5. \A k \in RowIds : db[k] = Absent \/ k = RoleRow \/ (\E p : k = <<"grant", p>>)
                                       \/ (\E o, n : k = <<"category", o, n>>)
  BY DEF Init, InitTransactions
<1>6. /\ \A l \in Logs, c \in {"rating", "helpfulness"} : db[<<c, l>>] = Absent
      /\ \A a \in Alerts : db[<<"alert", a>>] = Absent
      /\ \A o \in Orgs, n \in Names : db[<<"mode", o, n>>] = Absent
      /\ \A t \in Requests : db[<<"faq", t>>] = Absent
      /\ \A t \in Requests, n \in Names : db[<<"faq_category", t, n>>] = Absent
  BY <1>5, RowsThereAre DEF RoleRow
<1>7. StoredTraced
  BY <1>2, <1>6 DEF StoredTraced, RatingsTraced, AlertsTraced, ModesTraced, FaqsTraced
<1> QED BY <1>3, <1>4, <1>7 DEF TraceInv

LEMMA TraceInvHolds == Spec => []TraceInv
<1> DEFINE Inv == Foundation /\ TraceInv
<1>1. Init => Inv
  BY InitTypes, InitTraces DEF Foundation
<1>2. Inv /\ [Next]_vars /\ Foundation' => Inv'
  <2> SUFFICES ASSUME Foundation, TraceInv, [Next]_vars
               PROVE  TraceInv'
    OBVIOUS
  <2>1. ASSUME NEW r \in Requests, Step(r)
        PROVE  TraceInv'
    <3>1. Promises'
      BY <2>1, PromisesStep DEF Foundation, TraceInv, DraftsTraced
    <3>2. DraftsTraced'
      BY <2>1, RatingDraftsStep, AlertDraftsStep, CategoryDraftsStep, ModeDraftsStep,
         FaqDraftsStep, AuditDraftsStep DEF Foundation, TraceInv, DraftsTraced
    <3>3. StoredTraced'
      BY <2>1, RatingsTracedStep, AlertsTracedStep, ModesTracedStep, FaqsTracedStep
         DEF Foundation, TraceInv, StoredTraced
    <3> QED BY <3>1, <3>2, <3>3 DEF TraceInv
  <2>2. CASE UNCHANGED vars
    <3>1. Promises'
      BY <2>2 DEF vars, locals, TraceInv, Promises, Promised, Owns, Visible, CategoryRow
    <3>2. DraftsTraced'
      BY <2>2 DEF vars, locals, TraceInv, DraftsTraced, RatingDrafts, AlertDrafts,
         CategoryDrafts, ModeDrafts, FaqDrafts, AuditDrafts, Holds, Owns, Visible
    <3>3. StoredTraced'
      BY <2>2 DEF vars, locals, TraceInv, StoredTraced, RatingsTraced, AlertsTraced,
         ModesTraced, FaqsTraced, Audited, Owns, Visible
    <3> QED BY <3>1, <3>2, <3>3 DEF TraceInv
  <2> QED BY <2>1, <2>2 DEF Next
<1>3. Inv => TraceInv
  OBVIOUS
<1> QED BY <1>1, <1>2, <1>3, FoundationHolds, PTL DEF Spec

\* Whatever is stored is what an audited request of someone entitled to it has
\* asked for, and an FAQ has all of its categories, wherever requests are cut off
\* and in whatever order they come.
THEOREM RecordsAreTraced == Spec => []TracedToAudit
<1>1. TraceInv => TracedToAudit
  BY DEF TraceInv, StoredTraced, RatingsTraced, AlertsTraced, ModesTraced, FaqsTraced,
         TracedToAudit
<1> QED BY <1>1, TraceInvHolds, PTL

------------------------------------------------------------------------------
(* Who waits in a circle *)

\* The rows that the next step of a request waits for, if others hold them.
Awaits(r) ==
    CASE pc[r] = "update_log"        -> LogColumns(r)
      [] pc[r] = "notify"            -> {<<"notice", r>>}
      [] pc[r] = "update_alert"      -> {<<"alert", call[r].item>>}
      [] pc[r] = "insert_category"   -> {CategoryRow(r)}
      [] pc[r] = "insert_faq"        -> {<<"faq", r>>}
      [] pc[r] = "associate"         -> {<<"faq_category", r, n>> : n \in call[r].names}
      [] pc[r] = "write_mode"        -> {ModeRow(r)}
      [] pc[r] = "insert_role"       -> {RoleRow}
      [] pc[r] = "insert_grant"      -> {GrantRow(grant[r])}
      [] pc[r] = "update_membership" -> {MembershipRow(call[r].item)}
      [] pc[r] = "audit"             -> {<<"audit", r>>}
      [] OTHER                       -> {}

\* They are all the rows that it may write.
WritesAreAwaited ==
    \A r \in Requests, k \in RowIds :
        writes'[r][k] \in {Untouched, writes[r][k]} \/ k \in Awaits(r)

\* Only the role and its grants are held by a request that goes on to others' rows.
MayHold(phase, k) ==
    \/ phase \in {"raise", "associate"} \cup Late
    \/ phase \in {"look_for_grant", "insert_grant", "update_membership"} /\ k \in Provision

Holders == \A t \in Requests, k \in RowIds : Holds(t, k) => MayHold(pc[t], k)

\* While a request holds the role there is none, and nobody else inserts it.
RoleOnce ==
    \A t \in Requests : Holds(t, RoleRow) =>
        db[RoleRow] = Absent /\ \A u \in Requests : Holds(u, RoleRow) => u = t

\* What is said of requests that wait in a circle.
OnlyGrantsDeadlock ==
    \A r \in Requests :
        InCircle(r, Awaits) => pc[r] = "insert_grant" /\ InCircle(r, Wanted)

LEMMA WritesAwaitedStep ==
    ASSUME TypeOK, Stages, NEW r \in Requests, Step(r)
    PROVE  WritesAreAwaited
<1> SUFFICES ASSUME NEW t \in Requests, NEW k \in RowIds
             PROVE  writes'[t][k] \in {Untouched, writes[t][k]} \/ k \in Awaits(t)
  BY DEF WritesAreAwaited
<1>1. CASE t # r
  BY <1>1, SessionsStay
<1>2. CASE Quiet(r)
  BY <1>2, QuietFacts
<1>3. CASE t = r /\ (Ends(r) \/ Commits(r))
  BY <1>3, EndsFacts, CommitsFacts
<1>4. CASE t = r /\ RecordsRow(r)
  <2>1. PICK K \in SUBSET RowIds, content \in Contents \cup {Absent}, phase \in Phases :
             /\ \A j \in RowIds : writes'[r][j] = IF j \in K THEN content ELSE writes[r][j]
             /\ RowsOf(r, K, content, phase)
    BY <1>4, RowWritten
  <2>2. pc[r] \notin Designating
    BY <1>4, RecordsIs DEF Records
  <2>3. LogColumn(r) \in LogColumns(r)
    BY DEF LogColumn, LogColumns
  <2>4. K \subseteq Awaits(r)
    BY <2>1, <2>2, <2>3 DEF RowsOf, Awaits
  <2> QED BY <1>4, <2>1, <2>4
<1>5. CASE t = r /\ (AddsRole(r) \/ AddsGrant(r) \/ AddsManager(r))
  <2>1. PICK j : /\ j \in Awaits(r)
                 /\ \E phase \in Phases : Flush(r, {j}, "content_manager", phase)
    BY <1>5, Naming DEF AddsRole, AddsGrant, AddsManager, Awaits
  <2>2. k # j => writes'[r][k] = writes[r][k]
    BY <2>1, Domains DEF Flush, Put, PutEach, Rows, SessionTypes
  <2> QED BY <1>5, <2>1, <2>2
<1> QED BY <1>1, <1>2, <1>3, <1>4, <1>5, StepDoes

\* A request that reads goes where it may keep what it holds.
LEMMA QuietHolds ==
    ASSUME TypeOK, Stages, NEW r \in Requests, Quiet(r), NEW k, MayHold(pc[r], k)
    PROVE  MayHold(pc'[r], k)
<1>0. pc \in [Requests -> Phases]
  BY Domains
<1>1. CASE \/ ReadDenied(r) \/ NotifyFails(r) \/ LoadRating(r) \/ GetLog(r) \/ ListLogs(r)
           \/ LoadAlert(r) \/ NameNotTaken(r) \/ ResolveIds(r) \/ Browse(r) \/ LoadMode(r)
           \/ FindMembership(r) \/ LookForRole(r)
  <2>1. pc[r] \in {"idle", "notify", "look_for_role"}
    BY <1>1 DEF ReadDenied, NotifyFails, LoadRating, GetLog, ListLogs, LoadAlert,
       NameNotTaken, ResolveIds, Browse, LoadMode, FindMembership, LookForRole, Begins
  <2> QED BY <2>1 DEF MayHold, Late
<1>2. CASE (UpdateLog(r) /\ seen[r] = call[r].value)
           \/ (WriteMode(r) /\ seen[r] # Absent /\ seen[r] = call[r].value)
  <2>1. pc[r] \in {"update_log", "write_mode"}
    BY <1>2 DEF UpdateLog, WriteMode
  <2> QED BY <2>1 DEF MayHold, Late
<1>3. CASE LookForGrant(r)
  <2>1. pc[r] = "look_for_grant" /\ pc'[r] \in {"insert_grant", "look_for_grant"}
    BY <1>0, <1>3 DEF LookForGrant, Continue, GoTo
  <2> QED BY <2>1 DEF MayHold, Late
<1>4. CASE Granted(r)
  <2>1. pc[r] = "look_for_grant" /\ pc'[r] = "update_membership"
    BY <1>0, <1>4 DEF Granted, Continue, GoTo
  <2> QED BY <2>1 DEF MayHold, Late
<1>5. CASE (UpdateMembership(r) /\ seen[r] = "content_manager") \/ Respond(r)
  <2>1. pc'[r] \in {"audit", "commit"}
    BY <1>0, <1>5 DEF UpdateMembership, Respond, Continue, Answer, GoTo
  <2> QED BY <2>1 DEF MayHold, Late
<1> QED BY <1>1, <1>2, <1>3, <1>4, <1>5 DEF Quiet

LEMMA HoldersStep ==
    ASSUME TypeOK, Stages, Holders, NEW r \in Requests, Step(r)
    PROVE  Holders'
<1>0. pc \in [Requests -> Phases]
  BY Domains
<1> SUFFICES ASSUME NEW t \in Requests, NEW k \in RowIds, writes'[t][k] # Untouched
             PROVE  MayHold(pc'[t], k)
  BY DEF Holders, Holds, MayHold
<1>1. writes[t][k] # Untouched => MayHold(pc[t], k)
  BY DEF Holders, Holds
<1>2. CASE t # r
  BY <1>1, <1>2, SessionsStay, OthersStay
<1>3. CASE t = r /\ Quiet(r)
  <2>1. writes' = writes
    BY <1>3, QuietFacts
  <2> QED BY <1>1, <1>3, <2>1, QuietHolds
<1>4. CASE t = r /\ (Ends(r) \/ Commits(r))
  BY <1>4, EndsFacts, CommitsFacts
<1>5. CASE t = r /\ RecordsRow(r)
  <2>1. pc'[r] \in {"raise", "audit", "associate", "respond"}
    BY <1>0, <1>5, RecordsIs DEF Records, Flush, GoTo
  <2> QED BY <1>5, <2>1 DEF MayHold, Late
<1>6. CASE t = r /\ (AddsRole(r) \/ AddsGrant(r))
  <2>1. PICK j \in Provision : Flush(r, {j}, "content_manager", "look_for_grant")
    BY <1>6 DEF AddsRole, AddsGrant, Stages, Provision
  <2>2. pc[r] \in {"insert_role", "insert_grant"}
    BY <1>6 DEF AddsRole, AddsGrant
  <2>3. pc'[r] = "look_for_grant" /\ (k # j => writes'[r][k] = writes[r][k])
    BY <1>0, <2>1, Domains DEF Flush, Put, PutEach, GoTo, Rows, SessionTypes
  <2>4. k \in Provision
    BY <1>1, <1>6, <2>1, <2>2, <2>3 DEF MayHold, Late
  <2> QED BY <1>6, <2>3, <2>4 DEF MayHold
<1>7. CASE t = r /\ AddsManager(r)
  <2>1. pc'[r] = "audit"
    BY <1>0, <1>7 DEF AddsManager, Flush, GoTo
  <2> QED BY <1>7, <2>1 DEF MayHold, Late
<1> QED BY <1>2, <1>3, <1>4, <1>5, <1>6, <1>7, StepDoes

LEMMA RoleOnceStep ==
    ASSUME TypeOK, Stages, RoleOnce, NEW r \in Requests, Step(r)
    PROVE  RoleOnce'
<1>0. RoleRow \in RowIds /\ RoleRow \in Provision
  BY RowsThereAre DEF Provision
<1>1. CASE Quiet(r)
  <2>1. db' = db /\ writes' = writes
    BY <1>1, QuietFacts
  <2> QED BY <2>1 DEF RoleOnce, Holds
<1>2. CASE Ends(r) \/ Commits(r)
  <2>1. /\ \A t \in Requests :
              writes'[t][RoleRow] = IF t = r THEN Untouched ELSE writes[t][RoleRow]
        /\ db'[RoleRow] = db[RoleRow] \/ Holds(r, RoleRow)
    BY <1>0, <1>2, EndsFacts, CommitsFacts
  <2> QED BY <2>1 DEF RoleOnce, Holds
<1>3. CASE RecordsRow(r) \/ AddsGrant(r) \/ AddsManager(r)
  <2>1. ASSUME NEW K \in SUBSET RowIds, NEW content, NEW phase \in Phases,
               Flush(r, K, content, phase), RoleRow \notin K
        PROVE  db' = db /\ \A t \in Requests : writes'[t][RoleRow] = writes[t][RoleRow]
    BY <1>0, <2>1, Domains DEF Flush, Put, PutEach, Rows, SessionTypes
  <2>2. CASE RecordsRow(r)
    <3>1. PICK K \in SUBSET RowIds, content \in Contents \cup {Absent},
               phase \in {"raise", "audit", "associate", "respond"} :
               Flush(r, K, content, phase) /\ K \cap Provision = {}
      BY <2>2, RecordsIs DEF Records
    <3>2. RoleRow \notin K /\ phase \in Phases
      BY <1>0, <3>1, Naming
    <3>3. db' = db /\ \A t \in Requests : writes'[t][RoleRow] = writes[t][RoleRow]
      BY <2>1, <3>1, <3>2
    <3> QED BY <3>3 DEF RoleOnce, Holds
  <2>3. CASE AddsGrant(r)
    <3>1. {GrantRow(grant[r])} \in SUBSET RowIds /\ RoleRow # GrantRow(grant[r])
      BY <2>3, RowsThereAre DEF AddsGrant, Stages, RoleRow, GrantRow
    <3>2. db' = db /\ \A t \in Requests : writes'[t][RoleRow] = writes[t][RoleRow]
      BY <1>0, <2>3, <3>1, Domains DEF AddsGrant, Flush, Put, PutEach, Rows, SessionTypes
    <3> QED BY <3>2 DEF RoleOnce, Holds
  <2>4. CASE AddsManager(r)
    <3>1. RoleRow # MembershipRow(call[r].item)
      BY DEF RoleRow, MembershipRow
    <3>2. db' = db /\ \A t \in Requests : writes'[t][RoleRow] = writes[t][RoleRow]
      BY <1>0, <2>4, <3>1, Domains DEF AddsManager, Flush, Put, PutEach, Rows, SessionTypes
    <3> QED BY <3>2 DEF RoleOnce, Holds
  <2> QED BY <1>3, <2>2, <2>3, <2>4
<1>4. CASE AddsRole(r)
  <2>1. db' = db /\ db[RoleRow] = Absent /\ \A t \in Requests \ {r} : ~Holds(t, RoleRow)
    BY <1>4 DEF AddsRole, Flush, Put, PutEach, Free
  <2>2. \A t \in Requests \ {r} : writes'[t][RoleRow] = writes[t][RoleRow]
    BY <1>0, <1>4, Domains DEF AddsRole, Flush, Put, PutEach, Rows, SessionTypes
  <2> QED BY <2>1, <2>2 DEF RoleOnce, Holds
<1> QED BY <1>1, <1>2, <1>3, <1>4, StepDoes

\* Its own rows, a request does not wait for; and where it waits for others' rows and
\* holds rows, it inserts grants, or it makes a manager.
LEMMA WhoHoldsAndWaits ==
    ASSUME TypeOK, Stages, Drafts, FaqDrafts, AuditDrafts, Holders,
           NEW t \in Requests, NEW k \in RowIds, Holds(t, k),
           NEW u \in Requests \ {t}, NEW l \in Awaits(t), Holds(u, l)
    PROVE  \/ pc[t] = "insert_grant" /\ k \in Provision
           \/ pc[t] = "update_membership" /\ pc[u] \in Late
<1>1. MayHold(pc[t], k)
  BY DEF Holders
<1>2. CASE pc[t] \in {"raise", "respond", "commit", "look_for_grant"}
  BY <1>2 DEF Awaits
<1>3. CASE pc[t] = "associate"
  <2>1. PICK n \in call[t].names : l = <<"faq_category", t, n>>
    BY <1>3 DEF Awaits
  <2> QED BY <2>1, CallType DEF FaqDrafts
<1>4. CASE pc[t] = "audit"
  BY <1>4 DEF Awaits, AuditDrafts
<1>5. CASE pc[t] = "insert_grant"
  BY <1>1, <1>5 DEF MayHold, Late
<1>6. CASE pc[t] = "update_membership"
  <2>1. l = MembershipRow(call[t].item) /\ call[t].item \in Users
    BY <1>6, CallType DEF Awaits, Stages, Designating
  <2> QED BY <1>6, <2>1 DEF Drafts, Late
<1> QED BY <1>1, <1>2, <1>3, <1>4, <1>5, <1>6 DEF MayHold, Late

LEMMA AwaitedRows ==
    ASSUME TypeOK, Stages, NEW r \in Requests
    PROVE  Awaits(r) \subseteq RowIds
<1>1. CASE pc[r] = "update_log"
  BY <1>1, RowsThereAre, CallType DEF Awaits, Stages, LogColumns, LogJobs
<1>2. CASE pc[r] \in {"notify", "insert_faq", "audit"}
  BY <1>2, RowsThereAre DEF Awaits
<1>3. CASE pc[r] \in {"update_alert", "insert_category", "write_mode"}
  BY <1>3, RowsThereAre, CallType DEF Awaits, Stages, CategoryRow, ModeRow
<1>4. CASE pc[r] = "associate"
  <2>1. Awaits(r) = {<<"faq_category", r, n>> : n \in call[r].names}
    BY <1>4 DEF Awaits
  <2> QED BY <2>1, RowsThereAre, CallType
<1>5. CASE pc[r] \in {"insert_role", "insert_grant", "update_membership"}
  BY <1>5, RowsThereAre, CallType DEF Awaits, Stages, Designating
<1>6. CASE pc[r] \notin {"update_log", "notify", "insert_faq", "audit", "update_alert",
                         "insert_category", "write_mode", "associate", "insert_role",
                         "insert_grant", "update_membership"}
  BY <1>6 DEF Awaits
<1> QED BY <1>1, <1>2, <1>3, <1>4, <1>5, <1>6

\* In a circle everybody holds rows and waits.  Whoever waits for the role waits for one
\* who has seen none: the others have not got as far as the grants.
LEMMA CirclesAreOfGrants ==
    ASSUME TypeOK, Stages, ManagerInv, FaqDrafts, AuditDrafts, Holders, RoleOnce
    PROVE  OnlyGrantsDeadlock
<1> SUFFICES ASSUME NEW r \in Requests, NEW S \in SUBSET Requests, r \in S,
                    \A s \in S : \E t \in S \ {s} : \E k \in Awaits(s) : Holds(t, k)
             PROVE  pc[r] = "insert_grant" /\ InCircle(r, Wanted)
  BY DEF OnlyGrantsDeadlock, InCircle
<1>0. Drafts /\ Progress
  BY DEF ManagerInv
<1>1. ASSUME NEW s \in S
      PROVE  \E t \in S \ {s}, k \in Awaits(s) : Holds(t, k) /\ k \in RowIds
  BY AwaitedRows
<1>2. ASSUME NEW t \in S, NEW k \in RowIds, Holds(t, k)
      PROVE  pc[t] = "insert_grant" /\ k \in Provision
  <2>1. PICK u \in S \ {t} : \E l \in Awaits(t) : Holds(u, l) /\ l \in RowIds
    BY <1>1
  <2>2. PICK l \in Awaits(t) : Holds(u, l) /\ l \in RowIds
    BY <2>1
  <2>3. CASE pc[t] = "update_membership" /\ pc[u] \in Late
    <3>1. PICK v \in S \ {u} : \E m \in Awaits(u) : Holds(v, m) /\ m \in RowIds
      BY <1>1
    <3>2. PICK m \in Awaits(u) : Holds(v, m) /\ m \in RowIds
      BY <3>1
    <3>3. \/ pc[u] = "insert_grant"
          \/ pc[u] = "update_membership"
      BY <1>0, <2>2, <3>2, WhoHoldsAndWaits
    <3> QED BY <2>3, <3>3 DEF Late
  <2> QED BY <1>0, <1>2, <2>2, <2>3, WhoHoldsAndWaits
<1>3. ASSUME NEW s \in S
      PROVE  \E t \in S \ {s} : Holds(t, GrantRow(grant[s])) /\ pc[s] = "insert_grant"
  <2>1. PICK t \in S \ {s} : \E k \in Awaits(s) : Holds(t, k) /\ k \in RowIds
    BY <1>1
  <2>2. PICK k \in Awaits(s) : Holds(t, k) /\ k \in RowIds
    BY <2>1
  <2>3. pc[t] = "insert_grant" /\ k \in Provision
    BY <1>2, <2>2
  <2>4. k # RoleRow
    <3> SUFFICES ASSUME k = RoleRow
                 PROVE  FALSE
      OBVIOUS
    <3>1. PICK u \in S \ {t} : \E l \in Awaits(t) : Holds(u, l) /\ l \in RowIds
      BY <1>1
    <3>2. pc[u] = "insert_grant"
      BY <1>2, <3>1
    <3>3. Read(u, RoleRow) # Absent
      BY <1>0, <3>2 DEF Progress, Stages, Designating
    <3>4. db[RoleRow] = Absent /\ ~Holds(u, RoleRow)
      BY <2>2, <3>1 DEF RoleOnce
    <3> QED BY <3>3, <3>4 DEF Read
  <2>5. PICK p \in Permissions : k = GrantRow(p)
    BY <2>3, <2>4 DEF Provision
  <2>6. pc[s] = "insert_grant"
    BY <2>5 DEF Awaits, GrantRow, MembershipRow, RoleRow, CategoryRow, ModeRow, LogColumns
  <2>7. k = GrantRow(grant[s])
    BY <2>6 DEF Awaits
  <2> QED BY <2>2, <2>6, <2>7
<1>4. \A s \in S : \E t \in S \ {s} : \E k \in Wanted(s) : Holds(t, k)
  BY <1>3 DEF Wanted, GrantRow
<1> QED BY <1>3, <1>4 DEF InCircle

\* Whatever requests do at the same time, those that wait for each other's rows in a
\* circle insert grants: the database ends one of them, which DeadlockVictim is.
THEOREM OnlyGrantsWaitInACircle ==
    Spec => []OnlyGrantsDeadlock /\ [][WritesAreAwaited]_vars
<1> DEFINE Inv == Foundation /\ ManagerInv /\ TraceInv /\ Holders /\ RoleOnce
<1>1. Init => Holders /\ RoleOnce
  <2> SUFFICES ASSUME Init
               PROVE  Holders /\ RoleOnce
    OBVIOUS
  <2>1. \A t \in Requests, k \in RowIds : ~Holds(t, k)
    BY DEF Init, InitTransactions, NoWrites, Rows, Holds
  <2> QED BY <2>1, RowsThereAre DEF Holders, RoleOnce
<1>2. Foundation /\ Holders /\ RoleOnce /\ [Next]_vars => Holders' /\ RoleOnce'
  <2> SUFFICES ASSUME Foundation, Holders, RoleOnce, [Next]_vars
               PROVE  Holders' /\ RoleOnce'
    OBVIOUS
  <2>1. ASSUME NEW r \in Requests, Step(r)
        PROVE  Holders' /\ RoleOnce'
    BY <2>1, HoldersStep, RoleOnceStep DEF Foundation
  <2>2. CASE UNCHANGED vars
    BY <2>2 DEF vars, Holders, RoleOnce, Holds, MayHold
  <2> QED BY <2>1, <2>2 DEF Next
<1>3. Inv => OnlyGrantsDeadlock
  BY CirclesAreOfGrants DEF Foundation, TraceInv, DraftsTraced
<1>4. Inv /\ [Next]_vars => [WritesAreAwaited]_vars
  <2> SUFFICES ASSUME Foundation, Next
               PROVE  WritesAreAwaited \/ UNCHANGED vars
    OBVIOUS
  <2> QED BY WritesAwaitedStep DEF Next, Foundation
<1> QED BY <1>1, <1>2, <1>3, <1>4, FoundationHolds, ManagerInvHolds, TraceInvHolds,
           PTL DEF Spec
==============================================================================
