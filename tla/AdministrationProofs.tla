------------------------- MODULE AdministrationProofs --------------------------
(***************************************************************************)
(* Proofs about Administration, for every set of requests, users,          *)
(* organisations, keys and remediations, every workload and any number of  *)
(* faults.                                                                 *)
(***************************************************************************)
EXTENDS Administration, TLAPS

AuditRow(t)     == <<"audit", t>>
ScanRow(t)      == <<"scan", t>>
InventoryRow(t) == <<"inventory", t>>
KeyRow(k)       == <<"key", k>>
ProposalRows(p) == {<<"decision", p>>, <<"decider", p>>, <<"decided_at", p>>}

\* The rows there are.
LEMMA RowsThereAre ==
    /\ \A u \in Users : AccountRow(u) \in RowIds
    /\ \A u \in Users, s \in Scopes : RoleRow(u, s) \in RowIds
    /\ \A k \in KeyIds : KeyRow(k) \in RowIds
    /\ \A o \in Orgs : <<"access", o>> \in RowIds
    /\ \A p \in Proposals : ProposalRows(p) \subseteq RowIds
    /\ \A t \in Requests : /\ ScanRow(t) \in RowIds /\ InventoryRow(t) \in RowIds
                           /\ <<"report", t>> \in RowIds /\ AuditRow(t) \in RowIds
<1> DEFINE Tables == {"scan", "inventory", "report", "audit"} \X Requests
           Remedies == {"decision", "decider", "decided_at"} \X Proposals
<1>1. \A p \in Proposals : ProposalRows(p) \subseteq Remedies
  BY DEF ProposalRows
<1>2. \A t \in Requests : /\ ScanRow(t) \in Tables /\ InventoryRow(t) \in Tables
                          /\ <<"report", t>> \in Tables /\ AuditRow(t) \in Tables
  BY DEF ScanRow, InventoryRow, AuditRow
<1>3. Tables \subseteq RowIds /\ Remedies \subseteq RowIds
  BY DEF RowIds
<1>4. /\ \A u \in Users : AccountRow(u) \in RowIds
      /\ \A u \in Users, s \in Scopes : RoleRow(u, s) \in RowIds
      /\ \A k \in KeyIds : KeyRow(k) \in RowIds
      /\ \A o \in Orgs : <<"access", o>> \in RowIds
  BY DEF RowIds, AccountRow, RoleRow, KeyRow
<1> HIDE DEF Tables, Remedies
<1> QED BY <1>1, <1>2, <1>3, <1>4

\* What the assumption on Workloads says of a request.
LEMMA CallType ==
    ASSUME call \in Workloads, NEW r \in Requests
    PROVE  /\ call[r].job \in Jobs
           /\ call[r].user \in Users
           /\ call[r].option \in BOOLEAN
           /\ call[r].valid \in BOOLEAN
           /\ call[r].job \in {"create_user", "deactivate", "reactivate"} =>
                 call[r].item \in Users
           /\ call[r].job = "drop_key" => call[r].item \in KeyIds
           /\ call[r].job = "access" => call[r].item \in Orgs
           /\ call[r].job = "decide" => call[r].item \in Proposals
BY AdministrationAssumption

\* The phases, the answers and the contents that the actions name.
LEMMA Naming ==
    /\ {"idle", "begin", "insert_user", "assign_role", "set_active", "deactivate_keys",
        "insert_key", "drop_key", "insert_access", "update_access", "currency",
        "latest_successful", "findings", "decide", "audit", "early_commit", "respond",
        "commit", "done", "failed"} \subseteq Phases
    /\ {"none", "login", "forbidden", "not_found", "conflict", "bad_request", "error",
        "success"} \subseteq Responses
BY DEF Phases, Responses

LEMMA Marks ==
    /\ {"active", "inactive", "admin", "user", "allowed", "denied", "held", "approved",
        "rejected", "failed", "ok", "partial", "recorded"} \subseteq Contents
    /\ Users \subseteq Contents
    /\ Untouched \notin Contents /\ Absent \notin Contents /\ Absent # Untouched
BY TransactionsAssumption, AdministrationContentsAssumption DEF Contents

SessionTypes == writes \in [Requests -> [RowIds -> Contents \cup {Absent, Untouched}]]

\* The domains that the steps rely on.
LEMMA Domains ==
    ASSUME TypeOK
    PROVE  /\ pc \in [Requests -> Phases] /\ response \in [Requests -> Responses]
           /\ db \in [RowIds -> Contents \cup {Absent}] /\ DOMAIN db = RowIds
           /\ SessionTypes /\ call \in Workloads /\ began \in Seq(Requests)
           /\ loaded \in [Requests -> SUBSET (KeyIds \cup RowIds)]
BY DEF TypeOK, TransactionsTypeOK, SessionTypes

\* A session that has been rolled back has written nothing.
LEMMA NothingWritten ==
    ASSUME TypeOK, NEW r \in Requests, writes' = [writes EXCEPT ![r] = NoWrites]
    PROVE  /\ SessionTypes'
           /\ \A t \in Requests, k \in RowIds :
                 writes'[t][k] = IF t = r THEN Untouched ELSE writes[t][k]
<1>1. DOMAIN db = RowIds /\ SessionTypes
  BY Domains
<1>2. [k \in RowIds |-> Untouched] \in [RowIds -> Contents \cup {Absent, Untouched}]
  OBVIOUS
<1> QED BY <1>1, <1>2 DEF NoWrites, Rows, SessionTypes

\* A commit makes of each row what the session has made of it.
LEMMA CommitShows ==
    ASSUME TypeOK, NEW r \in Requests, CommitRows(r)
    PROVE  /\ db' \in [RowIds -> Contents \cup {Absent}]
           /\ SessionTypes'
           /\ \A k \in RowIds : db'[k] = IF Holds(r, k) THEN writes[r][k] ELSE db[k]
           /\ \A t \in Requests, k \in RowIds :
                 writes'[t][k] = IF t = r THEN Untouched ELSE writes[t][k]
<1>1. DOMAIN db = RowIds /\ SessionTypes /\ db \in [RowIds -> Contents \cup {Absent}]
  BY Domains
<1>2. \A k \in RowIds : Read(r, k) \in Contents \cup {Absent}
  BY <1>1, Marks DEF Read, Holds, SessionTypes
<1>3. db' = [k \in RowIds |-> Read(r, k)]
  BY <1>1 DEF CommitRows, Rows
<1>4. \A k \in RowIds : db'[k] = IF Holds(r, k) THEN writes[r][k] ELSE db[k]
  BY <1>3 DEF Read
<1>5. writes' = [writes EXCEPT ![r] = NoWrites]
  BY DEF CommitRows
<1> QED BY <1>2, <1>3, <1>4, <1>5, NothingWritten

\* A flush makes of some rows what it says, and leaves the others.
LEMMA FlushShows ==
    ASSUME TypeOK, NEW r \in Requests, NEW K \in SUBSET RowIds, NEW f \in [K -> Contents],
           NEW phase \in Phases, FlushEach(r, f, phase)
    PROVE  /\ UNCHANGED <<db, response, faults, call, began, locals>>
           /\ pc' = [pc EXCEPT ![r] = phase]
           /\ SessionTypes'
           /\ \A k \in K : Free(r, k)
           /\ \A t \in Requests, k \in RowIds :
                 writes'[t][k] = IF t = r /\ k \in K THEN f[k] ELSE writes[t][k]
<1>1. DOMAIN db = RowIds /\ SessionTypes /\ DOMAIN f = K
  BY Domains
<1> DEFINE Now == [k \in RowIds |-> IF k \in K THEN f[k] ELSE writes[r][k]]
<1>2. writes' = [writes EXCEPT ![r] = Now]
  BY <1>1 DEF FlushEach, PutEach, Rows
<1>3. Now \in [RowIds -> Contents \cup {Absent, Untouched}]
  BY <1>1 DEF SessionTypes
<1>4. SessionTypes'
  BY <1>1, <1>2, <1>3 DEF SessionTypes
<1>5. \A t \in Requests, k \in RowIds :
         writes'[t][k] = IF t = r /\ k \in K THEN f[k] ELSE writes[t][k]
  BY <1>1, <1>2 DEF SessionTypes
<1> QED BY <1>1, <1>4, <1>5 DEF FlushEach, PutEach, GoTo

------------------------------------------------------------------------------
(* The steps, by what they do *)

\* A request has come this far only with what the phase is for.
Stages ==
    \A t \in Requests :
        /\ pc[t] \in {"insert_user", "assign_role"} => call[t].job = "create_user"
        /\ pc[t] = "set_active" => call[t].job \in {"deactivate", "reactivate"}
        /\ pc[t] \in {"deactivate_keys", "insert_key"} => call[t].job = "set_key"
        /\ pc[t] = "drop_key" => call[t].job = "drop_key"
        /\ pc[t] \in {"insert_access", "update_access"} => call[t].job = "access"
        /\ pc[t] = "currency" => call[t].job = "scan"
        /\ pc[t] \in {"latest_successful", "findings"} => call[t].job = "health"
        /\ pc[t] = "decide" => call[t].job = "decide"
        /\ pc[t] \in {"audit", "early_commit"} => call[t].job # "health"
        /\ pc[t] = "decide" => loaded[t] \subseteq ProposalRows(call[t].item)
        /\ call[t].job = "set_key" => loaded[t] \subseteq KeyIds

\* Steps that write nothing.
Quiet(r) == \/ Resolve(r) \/ UserMissing(r) \/ LoadUser(r) \/ LoadActiveKeys(r) \/ LoadKey(r)
            \/ LookForAccess(r) \/ ReadLatest(r) \/ ReadLatestSuccessful(r)
            \/ ReadFindings(r) \/ LoadProposal(r) \/ Respond(r)

\* Steps that end a request with an error.
Ends(r) == /\ pc[r] \notin {"done", "failed"}
           /\ \E answer \in Responses : Fail(r, answer)
           /\ UNCHANGED <<db, call, began, locals>>
           /\ faults' \in 0..MaxFaults

Commits(r) == EarlyCommit(r) \/ Commit(r)

HasAccount(u) == db[AccountRow(u)] # Absent

\* The rows K that a request writes at each stage, with what, and where it goes then.
RowsOf(r, K, f, phase) ==
    \/ /\ pc[r] = "insert_user" /\ phase = "assign_role" /\ call[r].job = "create_user"
       /\ ~HasAccount(call[r].item)
       /\ K = {AccountRow(call[r].item)} /\ \A k \in K : f[k] = "active"
    \/ /\ pc[r] = "assign_role" /\ phase = "audit" /\ call[r].job = "create_user"
       /\ K = {RoleRow(call[r].item, s) : s \in ScopeOfNewUser(r)}
       /\ \A k \in K : f[k] \in {"admin", "user"}
    \/ /\ pc[r] = "set_active" /\ phase = "audit"
       /\ call[r].job \in {"deactivate", "reactivate"}
       /\ K = {AccountRow(call[r].item)} /\ \A k \in K : f[k] = Wished(r)
    \/ /\ pc[r] = "deactivate_keys" /\ phase = "insert_key" /\ call[r].job = "set_key"
       /\ K = {KeyRow(k) : k \in loaded[r]} /\ \A k \in K : f[k] = "inactive"
    \/ /\ pc[r] = "insert_key" /\ phase = "audit" /\ call[r].job = "set_key"
       /\ K = {KeyRow(r)} /\ \A k \in K : f[k] = "active"
    \/ /\ pc[r] = "drop_key" /\ phase = "audit" /\ call[r].job = "drop_key"
       /\ K = {KeyRow(call[r].item)} /\ \A k \in K : f[k] = "inactive"
    \/ /\ pc[r] \in {"insert_access", "update_access"} /\ phase = "audit"
       /\ call[r].job = "access"
       /\ K = {<<"access", call[r].item>>} /\ \A k \in K : f[k] = Policy(r)
    \/ /\ pc[r] = "begin" /\ call[r].job = "scan" /\ K = {ScanRow(r)}
       /\ \/ phase = "audit" /\ \A k \in K : f[k] = "failed"
          \/ phase = "currency" /\ \A k \in K : f[k] = "ok"
    \/ /\ pc[r] = "currency" /\ phase = "audit" /\ call[r].job = "scan"
       /\ K = {ScanRow(r), InventoryRow(r)} /\ \A k \in K : f[k] \in {"ok", "partial"}
    \/ /\ pc[r] = "decide" /\ phase = "audit" /\ call[r].job = "decide"
       /\ K \subseteq ProposalRows(call[r].item)
       /\ \A k \in K : k = <<"decision", call[r].item>> => f[k] = Decision(r)
    \/ /\ pc[r] = "begin" /\ phase = "audit" /\ call[r].job = "audit_controls"
       /\ K = {<<"report", r>>}
    \/ /\ pc[r] = "audit" /\ phase = "early_commit" /\ K = {AuditRow(r)}
       /\ \A k \in K : f[k] = "recorded"

Writes(r) ==
    \E K \in SUBSET RowIds, phase \in Phases : \E f \in [K -> Contents] :
        FlushEach(r, f, phase) /\ RowsOf(r, K, f, phase)

\* The steps that write rows, with the contents that they write.
WritesUser(r) ==
    \/ InsertUser(r) /\ ~HasAccount(call[r].item)
    \/ AssignRole(r) \/ SetActive(r)
WritesKey(r) ==
    \/ DeactivateExisting(r) \/ InsertKey(r) \/ DeactivateKey(r)
    \/ InsertAccess(r) /\ db[AccessRow(r)] = Absent
    \/ UpdateAccess(r)
WritesRecord(r) ==
    \/ PipAuditFails(r) \/ PipAuditAnswers(r) \/ StoreInventory(r) \/ UpdateProposal(r)
    \/ RunChecks(r) \/ Audit(r)

\* Rows that are all given the same content.
LEMMA FlushWrites ==
    ASSUME NEW r \in Requests, NEW K \in SUBSET RowIds, NEW x \in Contents,
           NEW phase \in Phases, Flush(r, K, x, phase),
           RowsOf(r, K, [k \in K |-> x], phase)
    PROVE  Writes(r)
<1>1. [k \in K |-> x] \in [K -> Contents]
  OBVIOUS
<1> QED BY <1>1 DEF Writes, Flush

LEMMA UserWrites ==
    ASSUME TypeOK, Stages, NEW r \in Requests, WritesUser(r)
    PROVE  Writes(r)
<1>1. CASE InsertUser(r) /\ ~HasAccount(call[r].item)
  <2>1. /\ pc[r] = "insert_user" /\ call[r].job = "create_user"
        /\ Flush(r, {AccountRow(call[r].item)}, "active", "assign_role")
    BY <1>1 DEF InsertUser, Stages, HasAccount
  <2>2. {AccountRow(call[r].item)} \in SUBSET RowIds
    BY <2>1, RowsThereAre, CallType, Domains
  <2>3. PICK K \in SUBSET RowIds, x \in Contents, phase \in Phases :
           /\ K = {AccountRow(call[r].item)} /\ x = "active" /\ phase = "assign_role"
           /\ Flush(r, K, x, phase)
    BY <2>1, <2>2, Marks, Naming
  <2>4. RowsOf(r, K, [k \in K |-> x], phase)
    BY <1>1, <2>1, <2>3 DEF RowsOf
  <2> QED BY <2>3, <2>4, FlushWrites
<1>2. CASE AssignRole(r)
  <2>1. /\ pc[r] = "assign_role" /\ call[r].job = "create_user"
        /\ Flush(r, {RoleRow(call[r].item, s) : s \in ScopeOfNewUser(r)},
                 IF call[r].option THEN "admin" ELSE "user", "audit")
    BY <1>2 DEF AssignRole, Stages
  <2>2. ScopeOfNewUser(r) \subseteq Scopes
    BY DEF ScopeOfNewUser, HomeOf, Scopes
  <2>3. {RoleRow(call[r].item, s) : s \in ScopeOfNewUser(r)} \in SUBSET RowIds
    BY <2>1, <2>2, RowsThereAre, CallType, Domains
  <2>4. PICK K \in SUBSET RowIds, x \in Contents, phase \in Phases :
           /\ K = {RoleRow(call[r].item, s) : s \in ScopeOfNewUser(r)}
           /\ x \in {"admin", "user"} /\ phase = "audit" /\ Flush(r, K, x, phase)
    BY <2>1, <2>3, Marks, Naming
  <2>5. RowsOf(r, K, [k \in K |-> x], phase)
    BY <2>1, <2>4 DEF RowsOf
  <2> QED BY <2>4, <2>5, FlushWrites
<1>3. CASE SetActive(r)
  <2>1. /\ pc[r] = "set_active" /\ call[r].job \in {"deactivate", "reactivate"}
        /\ Flush(r, {AccountRow(call[r].item)}, Wished(r), "audit")
    BY <1>3 DEF SetActive, Stages
  <2>2. {AccountRow(call[r].item)} \in SUBSET RowIds /\ Wished(r) \in Contents
    BY <2>1, RowsThereAre, CallType, Domains, Marks DEF Wished
  <2>3. PICK K \in SUBSET RowIds, x \in Contents, phase \in Phases :
           /\ K = {AccountRow(call[r].item)} /\ x = Wished(r) /\ phase = "audit"
           /\ Flush(r, K, x, phase)
    BY <2>1, <2>2, Naming
  <2>4. RowsOf(r, K, [k \in K |-> x], phase)
    BY <2>1, <2>3 DEF RowsOf
  <2> QED BY <2>3, <2>4, FlushWrites
<1> QED BY <1>1, <1>2, <1>3 DEF WritesUser

LEMMA KeyWrites ==
    ASSUME TypeOK, Stages, NEW r \in Requests, WritesKey(r)
    PROVE  Writes(r)
<1>1. CASE DeactivateExisting(r)
  <2>1. /\ pc[r] = "deactivate_keys" /\ call[r].job = "set_key" /\ loaded[r] \subseteq KeyIds
        /\ Flush(r, {KeyRow(k) : k \in loaded[r]}, "inactive", "insert_key")
    BY <1>1 DEF DeactivateExisting, Stages, KeyRow
  <2>2. {KeyRow(k) : k \in loaded[r]} \in SUBSET RowIds
    BY <2>1, RowsThereAre
  <2>3. PICK K \in SUBSET RowIds, x \in Contents, phase \in Phases :
           /\ K = {KeyRow(k) : k \in loaded[r]} /\ x = "inactive" /\ phase = "insert_key"
           /\ Flush(r, K, x, phase)
    BY <2>1, <2>2, Marks, Naming
  <2>4. RowsOf(r, K, [k \in K |-> x], phase)
    BY <2>1, <2>3 DEF RowsOf
  <2> QED BY <2>3, <2>4, FlushWrites
<1>2. CASE InsertKey(r)
  <2>1. /\ pc[r] = "insert_key" /\ call[r].job = "set_key"
        /\ Flush(r, {KeyRow(r)}, "active", "audit")
    BY <1>2 DEF InsertKey, Stages, KeyRow
  <2>2. {KeyRow(r)} \in SUBSET RowIds
    BY RowsThereAre DEF KeyIds
  <2>3. PICK K \in SUBSET RowIds, x \in Contents, phase \in Phases :
           /\ K = {KeyRow(r)} /\ x = "active" /\ phase = "audit"
           /\ Flush(r, K, x, phase)
    BY <2>1, <2>2, Marks, Naming
  <2>4. RowsOf(r, K, [k \in K |-> x], phase)
    BY <2>1, <2>3 DEF RowsOf
  <2> QED BY <2>3, <2>4, FlushWrites
<1>3. CASE DeactivateKey(r)
  <2>1. /\ pc[r] = "drop_key" /\ call[r].job = "drop_key"
        /\ Flush(r, {KeyRow(call[r].item)}, "inactive", "audit")
    BY <1>3 DEF DeactivateKey, Stages, KeyRow
  <2>2. {KeyRow(call[r].item)} \in SUBSET RowIds
    BY <2>1, RowsThereAre, CallType, Domains
  <2>3. PICK K \in SUBSET RowIds, x \in Contents, phase \in Phases :
           /\ K = {KeyRow(call[r].item)} /\ x = "inactive" /\ phase = "audit"
           /\ Flush(r, K, x, phase)
    BY <2>1, <2>2, Marks, Naming
  <2>4. RowsOf(r, K, [k \in K |-> x], phase)
    BY <2>1, <2>3 DEF RowsOf
  <2> QED BY <2>3, <2>4, FlushWrites
<1>4. CASE (InsertAccess(r) /\ db[AccessRow(r)] = Absent) \/ UpdateAccess(r)
  <2>1. /\ pc[r] \in {"insert_access", "update_access"} /\ call[r].job = "access"
        /\ Flush(r, {<<"access", call[r].item>>}, Policy(r), "audit")
    BY <1>4 DEF InsertAccess, UpdateAccess, Stages, AccessRow
  <2>2. {<<"access", call[r].item>>} \in SUBSET RowIds /\ Policy(r) \in Contents
    BY <2>1, RowsThereAre, CallType, Domains, Marks DEF Policy
  <2>3. PICK K \in SUBSET RowIds, x \in Contents, phase \in Phases :
           /\ K = {<<"access", call[r].item>>} /\ x = Policy(r) /\ phase = "audit"
           /\ Flush(r, K, x, phase)
    BY <2>1, <2>2, Naming
  <2>4. RowsOf(r, K, [k \in K |-> x], phase)
    BY <2>1, <2>3 DEF RowsOf
  <2> QED BY <2>3, <2>4, FlushWrites
<1> QED BY <1>1, <1>2, <1>3, <1>4 DEF WritesKey

LEMMA RecordWrites ==
    ASSUME TypeOK, Stages, NEW r \in Requests, WritesRecord(r)
    PROVE  Writes(r)
<1>0. /\ {ScanRow(r)} \in SUBSET RowIds /\ {ScanRow(r), InventoryRow(r)} \in SUBSET RowIds
      /\ {<<"report", r>>} \in SUBSET RowIds /\ {AuditRow(r)} \in SUBSET RowIds
  BY RowsThereAre
<1>1. CASE PipAuditFails(r)
  <2>1. /\ pc[r] = "begin" /\ call[r].job = "scan"
        /\ Flush(r, {ScanRow(r)}, "failed", "audit")
    BY <1>1 DEF PipAuditFails, Begins, ScanRow
  <2>3. PICK K \in SUBSET RowIds, x \in Contents, phase \in Phases :
           /\ K = {ScanRow(r)} /\ x = "failed" /\ phase = "audit"
           /\ Flush(r, K, x, phase)
    BY <1>0, <2>1, Marks, Naming
  <2>4. RowsOf(r, K, [k \in K |-> x], phase)
    BY <2>1, <2>3 DEF RowsOf
  <2> QED BY <2>3, <2>4, FlushWrites
<1>6. CASE PipAuditAnswers(r)
  <2>1. /\ pc[r] = "begin" /\ call[r].job = "scan"
        /\ Flush(r, {ScanRow(r)}, "ok", "currency")
    BY <1>6 DEF PipAuditAnswers, Begins, ScanRow
  <2>3. PICK K \in SUBSET RowIds, x \in Contents, phase \in Phases :
           /\ K = {ScanRow(r)} /\ x = "ok" /\ phase = "currency"
           /\ Flush(r, K, x, phase)
    BY <1>0, <2>1, Marks, Naming
  <2>4. RowsOf(r, K, [k \in K |-> x], phase)
    BY <2>1, <2>3 DEF RowsOf
  <2> QED BY <2>3, <2>4, FlushWrites
<1>2. CASE StoreInventory(r)
  <2>1. /\ pc[r] = "currency" /\ call[r].job = "scan"
        /\ \E x \in {"ok", "partial"} :
              Flush(r, {ScanRow(r), InventoryRow(r)}, x, "audit")
    BY <1>2 DEF StoreInventory, Stages, ScanRow, InventoryRow
  <2>3. PICK K \in SUBSET RowIds, x \in Contents, phase \in Phases :
           /\ K = {ScanRow(r), InventoryRow(r)} /\ x \in {"ok", "partial"}
           /\ phase = "audit" /\ Flush(r, K, x, phase)
    BY <1>0, <2>1, Marks, Naming
  <2>4. RowsOf(r, K, [k \in K |-> x], phase)
    BY <2>1, <2>3 DEF RowsOf
  <2> QED BY <2>3, <2>4, FlushWrites
<1>3. CASE UpdateProposal(r)
  <2>1. /\ pc[r] = "decide" /\ call[r].job = "decide"
        /\ loaded[r] \subseteq ProposalRows(call[r].item)
        /\ call[r].item \in Proposals /\ call[r].user \in Users
    BY <1>3, CallType, Domains DEF UpdateProposal, Stages
  <2>2. loaded[r] \subseteq RowIds
    BY <2>1, RowsThereAre
  <2> DEFINE f == [k \in loaded[r] |-> CASE k[1] = "decision" -> Decision(r)
                                         [] k[1] = "decider"  -> call[r].user
                                         [] OTHER             -> "recorded"]
  <2>3. Decision(r) \in Contents /\ call[r].user \in Contents /\ "recorded" \in Contents
    BY <2>1, Marks DEF Decision
  <2>4. f \in [loaded[r] -> Contents]
    BY <2>3
  <2>5. \A k \in loaded[r] : k = <<"decision", call[r].item>> => f[k] = Decision(r)
    OBVIOUS
  <2>6. FlushEach(r, f, "audit")
    BY <1>3 DEF UpdateProposal
  <2> HIDE DEF f
  <2>7. PICK K \in SUBSET RowIds, phase \in Phases : K = loaded[r] /\ phase = "audit"
    BY <2>2, Naming
  <2>8. PICK g \in [K -> Contents] : g = f
    BY <2>4, <2>7
  <2>9. RowsOf(r, K, g, phase)
    BY <2>1, <2>5, <2>7, <2>8 DEF RowsOf
  <2> QED BY <2>6, <2>7, <2>8, <2>9 DEF Writes
<1>4. CASE RunChecks(r)
  <2>1. /\ pc[r] = "begin" /\ call[r].job = "audit_controls"
        /\ \E x \in {"ok", "failed"} : Flush(r, {<<"report", r>>}, x, "audit")
    BY <1>4 DEF RunChecks, Begins
  <2>3. PICK K \in SUBSET RowIds, x \in Contents, phase \in Phases :
           /\ K = {<<"report", r>>} /\ phase = "audit" /\ Flush(r, K, x, phase)
    BY <1>0, <2>1, Marks, Naming
  <2>4. RowsOf(r, K, [k \in K |-> x], phase)
    BY <2>1, <2>3 DEF RowsOf
  <2> QED BY <2>3, <2>4, FlushWrites
<1>5. CASE Audit(r)
  <2>1. pc[r] = "audit" /\ Flush(r, {AuditRow(r)}, "recorded", "early_commit")
    BY <1>5 DEF Audit, AuditRow
  <2>3. PICK K \in SUBSET RowIds, x \in Contents, phase \in Phases :
           /\ K = {AuditRow(r)} /\ x = "recorded" /\ phase = "early_commit"
           /\ Flush(r, K, x, phase)
    BY <1>0, <2>1, Marks, Naming
  <2>4. RowsOf(r, K, [k \in K |-> x], phase)
    BY <2>1, <2>3 DEF RowsOf
  <2> QED BY <2>3, <2>4, FlushWrites
<1> QED BY <1>1, <1>2, <1>3, <1>4, <1>5, <1>6 DEF WritesRecord

\* The steps that refuse, and what cuts a request off.
LEMMA Refusals ==
    ASSUME TypeOK, NEW r \in Requests,
           \/ NotLoggedIn(r) \/ NotAuthorized(r) \/ UserExists(r) \/ DeactivatesItself(r)
           \/ UserNotFound(r) \/ SharedKeyForbidden(r) \/ KeyNotAccepted(r)
           \/ NotYourKey(r) \/ InvalidDecision(r)
           \/ InsertUser(r) /\ HasAccount(call[r].item)
           \/ InsertAccess(r) /\ db[AccessRow(r)] # Absent
           \/ CutOff(r)
    PROVE  Ends(r)
<1>0. faults \in 0..MaxFaults /\ faults \in Nat /\ MaxFaults \in Nat
  BY TransactionsAssumption DEF TypeOK, TransactionsTypeOK
<1>1. CASE CutOff(r)
  BY <1>0, <1>1, Naming DEF CutOff, Interrupted, InFlight, Ends
<1>2. CASE ~CutOff(r)
  <2>1. \E answer \in Responses : Refuse(r, answer)
    BY <1>2, Naming
       DEF NotLoggedIn, NotAuthorized, UserExists, DeactivatesItself, UserNotFound,
           SharedKeyForbidden, KeyNotAccepted, NotYourKey, InvalidDecision, InsertUser,
           InsertAccess, HasAccount
  <2>2. pc[r] \notin {"done", "failed"}
    BY <1>2
       DEF NotLoggedIn, NotAuthorized, UserExists, DeactivatesItself, UserNotFound,
           SharedKeyForbidden, KeyNotAccepted, NotYourKey, InvalidDecision, InsertUser,
           InsertAccess, Begins
  <2> QED BY <1>0, <2>1, <2>2 DEF Refuse, Ends
<1> QED BY <1>1, <1>2

LEMMA StepIs ==
    ASSUME TypeOK, Stages, NEW r \in Requests, Step(r)
    PROVE  Quiet(r) \/ Ends(r) \/ Writes(r) \/ Commits(r)
<1>1. CASE Enter(r)
  BY <1>1, Refusals DEF Enter, Quiet
<1>2. CASE People(r)
  BY <1>2, Refusals, UserWrites DEF People, Quiet, WritesUser
<1>3. CASE Keys(r)
  BY <1>3, Refusals, KeyWrites DEF Keys, Quiet, WritesKey
<1>4. CASE Health(r)
  BY <1>4, Refusals, RecordWrites DEF Health, Quiet, WritesRecord
<1>5. CASE Finish(r)
  BY <1>5, Refusals, RecordWrites DEF Finish, Quiet, WritesRecord, Commits
<1> QED BY <1>1, <1>2, <1>3, <1>4, <1>5 DEF Step

------------------------------------------------------------------------------
(* What the steps change *)

\* A step that writes nothing, and where it leads.
QuietMove(r) ==
    \/ Resolve(r) /\ pc[r] = "idle" /\ pc'[r] = "begin"
    \/ UserMissing(r) /\ pc[r] = "begin" /\ pc'[r] = "insert_user"
    \/ LoadUser(r) /\ pc[r] = "begin" /\ pc'[r] \in {"audit", "set_active"}
    \/ LoadActiveKeys(r) /\ pc[r] = "begin" /\ pc'[r] = "deactivate_keys"
    \/ LoadKey(r) /\ pc[r] = "begin" /\ pc'[r] \in {"drop_key", "audit"}
    \/ /\ LookForAccess(r) /\ pc[r] = "begin"
       /\ pc'[r] \in {"insert_access", "audit", "update_access"}
    \/ ReadLatest(r) /\ pc[r] = "begin" /\ pc'[r] = "latest_successful"
    \/ ReadLatestSuccessful(r) /\ pc[r] = "latest_successful" /\ pc'[r] = "findings"
    \/ ReadFindings(r) /\ pc[r] = "findings" /\ pc'[r] = "respond"
    \/ LoadProposal(r) /\ pc[r] = "begin" /\ pc'[r] = "decide"
    \/ Respond(r) /\ pc[r] = "respond" /\ pc'[r] = "commit"

LEMMA QuietFacts ==
    ASSUME TypeOK, NEW r \in Requests, Quiet(r)
    PROVE  /\ UNCHANGED <<db, writes, faults, call>>
           /\ pc' = [pc EXCEPT ![r] = pc'[r]]
           /\ \/ response' = response
              \/ response' = [response EXCEPT ![r] = "success"]
           /\ Resolve(r) \/ began' = began
           /\ QuietMove(r)
<1>0. pc \in [Requests -> Phases]
  BY Domains
<1> USE DEF Continue, GoTo, QuietMove
<1>1. CASE Resolve(r)
  BY <1>0, <1>1 DEF Resolve
<1>2. CASE UserMissing(r) \/ LoadUser(r)
  BY <1>0, <1>2 DEF UserMissing, LoadUser, Begins
<1>3. CASE LoadActiveKeys(r) \/ LoadKey(r)
  BY <1>0, <1>3 DEF LoadActiveKeys, LoadKey, Begins
<1>4. CASE LookForAccess(r)
  BY <1>0, <1>4 DEF LookForAccess, Begins
<1>5. CASE ReadLatest(r) \/ ReadLatestSuccessful(r) \/ ReadFindings(r)
  BY <1>0, <1>5 DEF ReadLatest, ReadLatestSuccessful, ReadFindings, Begins
<1>6. CASE LoadProposal(r)
  BY <1>0, <1>6 DEF LoadProposal, Begins
<1>7. CASE Respond(r)
  BY <1>0, <1>7 DEF Respond, Answer
<1> QED BY <1>1, <1>2, <1>3, <1>4, <1>5, <1>6, <1>7 DEF Quiet

LEMMA EndsFacts ==
    ASSUME TypeOK, NEW r \in Requests, Ends(r)
    PROVE  /\ UNCHANGED <<db, call, began, locals>> /\ faults' \in 0..MaxFaults
           /\ pc[r] \notin {"done", "failed"}
           /\ pc' = [pc EXCEPT ![r] = "failed"]
           /\ response' \in [Requests -> Responses]
           /\ SessionTypes'
           /\ \A t \in Requests, k \in RowIds :
                 writes'[t][k] = IF t = r THEN Untouched ELSE writes[t][k]
<1>1. PICK answer \in Responses : Fail(r, answer)
  BY DEF Ends
<1>2. /\ pc' = [pc EXCEPT ![r] = "failed"] /\ response' = [response EXCEPT ![r] = answer]
      /\ writes' = [writes EXCEPT ![r] = NoWrites]
  BY <1>1 DEF Fail, GoTo
<1>3. response' \in [Requests -> Responses]
  BY <1>2, Domains
<1> QED BY <1>2, <1>3, NothingWritten DEF Ends

\* Phases with something flushed, and those after the early commit.
Writing == {"assign_role", "insert_key", "currency", "audit", "early_commit"}
Last    == {"audit", "early_commit"}
After   == {"respond", "commit", "done", "failed"}

\* The phases that a write comes from, and those that it leads to.
LEMMA WritesFacts ==
    ASSUME TypeOK, NEW r \in Requests, Writes(r)
    PROVE  /\ UNCHANGED <<db, response, faults, call, began, locals>>
           /\ pc' = [pc EXCEPT ![r] = pc'[r]]
           /\ pc[r] \in {"begin", "insert_user", "assign_role", "set_active",
                         "deactivate_keys", "insert_key", "drop_key", "insert_access",
                         "update_access", "currency", "decide", "audit"}
           /\ pc'[r] \in Writing
           /\ pc[r] \in Writing => pc'[r] \in Last
           /\ pc'[r] = "early_commit" <=> pc[r] = "audit"
           /\ SessionTypes'
           /\ \A t \in Requests \ {r}, k \in RowIds : writes'[t][k] = writes[t][k]
<1>1. PICK K \in SUBSET RowIds, phase \in Phases : \E f \in [K -> Contents] :
         FlushEach(r, f, phase) /\ RowsOf(r, K, f, phase)
  BY DEF Writes
<1>2. PICK f \in [K -> Contents] : FlushEach(r, f, phase) /\ RowsOf(r, K, f, phase)
  BY <1>1
<1>3. /\ UNCHANGED <<db, response, faults, call, began, locals>>
      /\ pc' = [pc EXCEPT ![r] = phase] /\ SessionTypes'
      /\ \A t \in Requests \ {r}, k \in RowIds : writes'[t][k] = writes[t][k]
  BY <1>2, FlushShows
<1>4. pc'[r] = phase
  BY <1>3, Domains
<1>5. /\ pc[r] \in {"begin", "insert_user", "assign_role", "set_active",
                    "deactivate_keys", "insert_key", "drop_key", "insert_access",
                    "update_access", "currency", "decide", "audit"}
      /\ phase \in Writing
      /\ pc[r] \in Writing => phase \in Last
      /\ phase = "early_commit" <=> pc[r] = "audit"
  BY <1>2 DEF RowsOf, Writing, Last
<1> QED BY <1>3, <1>4, <1>5

LEMMA CommitsFacts ==
    ASSUME TypeOK, NEW r \in Requests, Commits(r)
    PROVE  /\ UNCHANGED <<response, faults, call, began, locals>>
           /\ \/ pc[r] = "early_commit" /\ pc' = [pc EXCEPT ![r] = "respond"]
              \/ pc[r] = "commit" /\ pc' = [pc EXCEPT ![r] = "done"]
           /\ db' \in [RowIds -> Contents \cup {Absent}]
           /\ SessionTypes'
           /\ \A k \in RowIds : db'[k] = IF Holds(r, k) THEN writes[r][k] ELSE db[k]
           /\ \A t \in Requests, k \in RowIds :
                 writes'[t][k] = IF t = r THEN Untouched ELSE writes[t][k]
BY CommitShows DEF Commits, EarlyCommit, Commit, GoTo

LEMMA CallStays ==
    ASSUME TypeOK, Stages, NEW r \in Requests, Step(r)
    PROVE  call' = call
BY StepIs, QuietFacts, EndsFacts, WritesFacts, CommitsFacts

\* Only a commit changes what is stored.
LEMMA StoredByCommit ==
    ASSUME TypeOK, Stages, NEW r \in Requests, Step(r), ~Commits(r)
    PROVE  db' = db
BY StepIs, QuietFacts, EndsFacts, WritesFacts

\* A step of a request is a step of no other one.
LEMMA OthersStay ==
    ASSUME TypeOK, Stages, NEW r \in Requests, Step(r), NEW t \in Requests, t # r
    PROVE  /\ pc'[t] = pc[t] /\ loaded'[t] = loaded[t] /\ latest'[t] = latest[t]
           /\ successful'[t] = successful[t] /\ inventory'[t] = inventory[t]
           /\ \A k \in RowIds : writes'[t][k] = writes[t][k]
<1>0. /\ pc \in [Requests -> Phases]
      /\ loaded \in [Requests -> SUBSET (KeyIds \cup RowIds)]
      /\ latest \in [Requests -> Requests \cup {Absent}]
      /\ successful \in [Requests -> Requests \cup {Absent}]
      /\ inventory \in [Requests -> SUBSET Requests]
  BY DEF TypeOK, TransactionsTypeOK
<1>1. CASE Quiet(r)
  <2>1. pc'[t] = pc[t] /\ writes' = writes
    BY <1>0, <1>1, QuietFacts
  <2>2. /\ loaded'[t] = loaded[t] /\ latest'[t] = latest[t]
        /\ successful'[t] = successful[t] /\ inventory'[t] = inventory[t]
    <3>1. CASE Resolve(r) \/ UserMissing(r) \/ LoadUser(r) \/ LoadKey(r)
               \/ LookForAccess(r) \/ Respond(r)
      BY <3>1 DEF Resolve, UserMissing, LoadUser, LoadKey, LookForAccess, Respond, locals
    <3>2. CASE LoadActiveKeys(r) \/ LoadProposal(r)
      BY <1>0, <3>2 DEF LoadActiveKeys, LoadProposal
    <3>3. CASE ReadLatest(r) \/ ReadLatestSuccessful(r) \/ ReadFindings(r)
      BY <1>0, <3>3 DEF ReadLatest, ReadLatestSuccessful, ReadFindings
    <3> QED BY <1>1, <3>1, <3>2, <3>3 DEF Quiet
  <2> QED BY <2>1, <2>2
<1>2. CASE Ends(r)
  BY <1>0, <1>2, EndsFacts DEF locals
<1>3. CASE Writes(r)
  <2>1. /\ pc' = [pc EXCEPT ![r] = pc'[r]] /\ UNCHANGED locals
        /\ \A k \in RowIds : writes'[t][k] = writes[t][k]
    BY <1>3, WritesFacts
  <2> QED BY <1>0, <2>1 DEF locals
<1>4. CASE Commits(r)
  BY <1>0, <1>4, CommitsFacts DEF locals
<1> QED BY <1>1, <1>2, <1>3, <1>4, StepIs

LEMMA StagesStep ==
    ASSUME TypeOK, Stages, NEW r \in Requests, Step(r)
    PROVE  Stages'
<1>c. call' = call
  BY CallStays
<1> DEFINE Stage(t) ==
      /\ pc[t] \in {"insert_user", "assign_role"} => call[t].job = "create_user"
      /\ pc[t] = "set_active" => call[t].job \in {"deactivate", "reactivate"}
      /\ pc[t] \in {"deactivate_keys", "insert_key"} => call[t].job = "set_key"
      /\ pc[t] = "drop_key" => call[t].job = "drop_key"
      /\ pc[t] \in {"insert_access", "update_access"} => call[t].job = "access"
      /\ pc[t] = "currency" => call[t].job = "scan"
      /\ pc[t] \in {"latest_successful", "findings"} => call[t].job = "health"
      /\ pc[t] = "decide" => call[t].job = "decide"
      /\ pc[t] \in {"audit", "early_commit"} => call[t].job # "health"
      /\ pc[t] = "decide" => loaded[t] \subseteq ProposalRows(call[t].item)
      /\ call[t].job = "set_key" => loaded[t] \subseteq KeyIds
<1>0. Stage(r)
  BY DEF Stages
<1>l. loaded \in [Requests -> SUBSET (KeyIds \cup RowIds)]
  BY Domains
<1>1. Stage(r)'
  <2>1. CASE Quiet(r)
    <3>1. CASE LoadActiveKeys(r)
      <4>1. pc'[r] = "deactivate_keys" /\ call[r].job = "set_key"
        BY <2>1, <3>1, QuietFacts DEF LoadActiveKeys, Begins, Continue, GoTo, QuietMove
      <4>2. loaded'[r] \subseteq KeyIds
        BY <1>l, <3>1 DEF LoadActiveKeys, ActiveKeys
      <4> QED BY <1>c, <4>1, <4>2
    <3>2. CASE LoadProposal(r)
      <4>1. pc'[r] = "decide" /\ call[r].job = "decide"
        BY <3>2, Domains DEF LoadProposal, Begins, Continue, GoTo
      <4>2. loaded'[r] \subseteq ProposalRows(call[r].item)
        BY <1>l, <3>2 DEF LoadProposal, ProposalRows
      <4> QED BY <1>c, <4>1, <4>2
    <3>3. CASE ReadLatest(r) \/ ReadLatestSuccessful(r) \/ ReadFindings(r)
      <4>1. pc'[r] \in {"latest_successful", "findings", "respond"} /\ loaded' = loaded
        BY <3>3, Domains
           DEF ReadLatest, ReadLatestSuccessful, ReadFindings, Continue, GoTo
      <4>2. call[r].job = "health"
        BY <1>0, <3>3 DEF ReadLatest, ReadLatestSuccessful, ReadFindings, Begins
      <4> QED BY <1>c, <4>1, <4>2
    <3>4. CASE Resolve(r) \/ UserMissing(r) \/ LoadUser(r) \/ LoadKey(r)
               \/ LookForAccess(r) \/ Respond(r)
      <4>1. loaded' = loaded
        BY <3>4 DEF Resolve, UserMissing, LoadUser, LoadKey, LookForAccess, Respond, locals
      <4>2. /\ pc'[r] = "insert_user" => call[r].job = "create_user"
            /\ pc'[r] = "set_active" => call[r].job \in {"deactivate", "reactivate"}
            /\ pc'[r] = "drop_key" => call[r].job = "drop_key"
            /\ pc'[r] \in {"insert_access", "update_access"} => call[r].job = "access"
            /\ pc'[r] = "audit" => call[r].job # "health"
            /\ pc'[r] \in {"begin", "insert_user", "audit", "set_active", "drop_key",
                           "insert_access", "update_access", "commit"}
        BY <3>4, Domains DEF Resolve, UserMissing, LoadUser, LoadKey, LookForAccess,
                             Respond, Begins, Continue, GoTo, Answer
      <4> QED BY <1>0, <1>c, <4>1, <4>2
    <3> QED BY <2>1, <3>1, <3>2, <3>3, <3>4 DEF Quiet
  <2>2. CASE Ends(r)
    BY <1>0, <1>c, <2>2, EndsFacts, Domains DEF locals
  <2>3. CASE Writes(r)
    <3>1. PICK K \in SUBSET RowIds, phase \in Phases : \E f \in [K -> Contents] :
             FlushEach(r, f, phase) /\ RowsOf(r, K, f, phase)
      BY <2>3 DEF Writes
    <3>2. PICK f \in [K -> Contents] : FlushEach(r, f, phase) /\ RowsOf(r, K, f, phase)
      BY <3>1
    <3>3. pc' = [pc EXCEPT ![r] = phase] /\ UNCHANGED locals
      BY <3>2, FlushShows
    <3>5. pc'[r] = phase /\ loaded' = loaded
      BY <3>3, Domains DEF locals
    <3>4. /\ phase = "assign_role" => call[r].job = "create_user"
          /\ phase = "insert_key" => call[r].job = "set_key"
          /\ phase = "currency" => call[r].job = "scan"
          /\ call[r].job # "health"
          /\ phase \in {"assign_role", "audit", "insert_key", "currency", "early_commit"}
      BY <1>0, <3>2 DEF RowsOf
    <3> QED BY <1>0, <1>c, <3>4, <3>5
  <2>4. CASE Commits(r)
    BY <1>0, <1>c, <2>4, CommitsFacts, Domains DEF locals
  <2> QED BY <2>1, <2>2, <2>3, <2>4, StepIs
<1>2. ASSUME NEW t \in Requests
      PROVE  Stage(t)'
  <2>1. CASE t = r
    BY <1>1, <2>1
  <2>2. CASE t # r
    <3>1. Stage(t)
      BY DEF Stages
    <3>2. pc'[t] = pc[t] /\ loaded'[t] = loaded[t]
      BY <2>2, OthersStay
    <3> QED BY <1>c, <3>1, <3>2
  <2> QED BY <2>1, <2>2
<1> QED BY <1>2 DEF Stages, ProposalRows

------------------------------------------------------------------------------
(* What a request holds *)

InAudit(t) == db[AuditRow(t)] # Absent

\* Two requests hold no row in common, and nothing outside the phases of writing.
Sessions ==
    /\ \A s, t \in Requests, k \in RowIds : Holds(s, k) /\ Holds(t, k) => s = t
    /\ \A t \in Requests, k \in RowIds : Holds(t, k) => pc[t] \in Writing

\* The audit record comes last, with everything else.
Audits ==
    /\ \A t \in Requests : InAudit(t) => pc[t] \in After
    /\ \A t \in Requests : pc[t] = "early_commit" => writes[t][AuditRow(t)] = "recorded"
    /\ \A s, t \in Requests : Holds(t, AuditRow(s)) =>
          s = t /\ writes[t][AuditRow(s)] = "recorded"

\* The rows that a step of r may begin to hold, and with what.
Added(r, k) ==
    \/ /\ pc[r] = "insert_user" /\ call[r].job = "create_user" /\ ~HasAccount(call[r].item)
       /\ k = AccountRow(call[r].item) /\ writes'[r][k] = "active"
    \/ /\ pc[r] = "assign_role" /\ pc'[r] = "audit" /\ call[r].job = "create_user"
       /\ \E s \in ScopeOfNewUser(r) : k = RoleRow(call[r].item, s)
       /\ writes'[r][k] \in {"admin", "user"}
    \/ /\ pc[r] = "set_active" /\ call[r].job \in {"deactivate", "reactivate"}
       /\ k = AccountRow(call[r].item) /\ writes'[r][k] = Wished(r)
    \/ /\ pc[r] = "deactivate_keys" /\ call[r].job = "set_key"
       /\ \E key \in loaded[r] : k = KeyRow(key)
       /\ writes'[r][k] = "inactive"
    \/ /\ pc[r] = "insert_key" /\ call[r].job = "set_key"
       /\ k = KeyRow(r) /\ writes'[r][k] = "active"
    \/ /\ pc[r] = "drop_key" /\ call[r].job = "drop_key"
       /\ k = KeyRow(call[r].item) /\ writes'[r][k] = "inactive"
    \/ /\ call[r].job = "access"
       /\ k = <<"access", call[r].item>> /\ writes'[r][k] = Policy(r)
    \/ pc[r] = "begin" /\ call[r].job = "scan" /\ k = ScanRow(r)
    \/ pc[r] = "currency" /\ call[r].job = "scan" /\ k \in {ScanRow(r), InventoryRow(r)}
    \/ /\ call[r].job = "decide" /\ k \in ProposalRows(call[r].item)
       /\ k = <<"decision", call[r].item>> => writes'[r][k] = Decision(r)
    \/ call[r].job = "audit_controls" /\ k = <<"report", r>>
    \/ pc[r] = "audit" /\ k = AuditRow(r) /\ writes'[r][k] = "recorded"

\* A row that a request holds after a step it has held before, or it is one of
\* these.
LEMMA HeldThen ==
    ASSUME TypeOK, Stages, Sessions, NEW r \in Requests, Step(r), NEW t \in Requests,
           NEW k \in RowIds, writes'[t][k] # Untouched
    PROVE  \/ /\ Holds(t, k) /\ writes'[t][k] = writes[t][k]
              /\ pc'[t] \in Writing
              /\ pc[t] \in Last => pc'[t] \in Last
              /\ pc[t] \in Last \cup {"assign_role"} => pc'[t] \in Last \cup {"assign_role"}
           \/ t = r /\ Writes(r) /\ Added(r, k) /\ Free(r, k)
<1>1. CASE t # r
  <2>1. pc'[t] = pc[t] /\ writes'[t][k] = writes[t][k]
    BY <1>1, OthersStay
  <2> QED BY <2>1 DEF Sessions, Holds
<1>2. CASE t = r /\ Quiet(r)
  <2>1. Holds(r, k)
    BY <1>2, QuietFacts DEF Holds
  <2>2. pc[r] \in Writing
    BY <2>1 DEF Sessions
  <2> QED BY <1>2, <2>2, QuietFacts DEF QuietMove, Writing
<1>3. CASE t = r /\ (Ends(r) \/ Commits(r))
  BY <1>3, EndsFacts, CommitsFacts
<1>4. CASE t = r /\ Writes(r)
  <2>1. PICK K \in SUBSET RowIds, phase \in Phases : \E f \in [K -> Contents] :
           FlushEach(r, f, phase) /\ RowsOf(r, K, f, phase)
    BY <1>4 DEF Writes
  <2>2. PICK f \in [K -> Contents] : FlushEach(r, f, phase) /\ RowsOf(r, K, f, phase)
    BY <2>1
  <2>3. /\ pc' = [pc EXCEPT ![r] = phase]
        /\ \A j \in K : Free(r, j)
        /\ \A j \in RowIds : writes'[r][j] = IF j \in K THEN f[j] ELSE writes[r][j]
    BY <2>2, FlushShows
  <2>4. pc'[r] = phase
    BY <2>3, Domains
  <2>5. CASE k \notin K
    <3>1. Holds(r, k) /\ writes'[r][k] = writes[r][k]
      BY <1>4, <2>3, <2>5 DEF Holds
    <3>2. pc[r] \in Writing
      BY <3>1 DEF Sessions
    <3>3. pc'[r] \in Last
      BY <1>4, <3>2, WritesFacts
    <3> QED BY <1>4, <3>1, <3>3 DEF Last, Writing
  <2>6. CASE k \in K
    <3>1. writes'[r][k] = f[k]
      BY <2>3, <2>6
    <3>2. Added(r, k)
      BY <2>2, <2>4, <2>6, <3>1 DEF RowsOf, Added
    <3> QED BY <1>4, <2>3, <2>6, <3>2
  <2> QED BY <2>5, <2>6
<1> QED BY <1>1, <1>2, <1>3, <1>4, StepIs

\* What a request has written when it goes on.
LEMMA Written ==
    ASSUME TypeOK, NEW r \in Requests, Writes(r)
    PROVE  /\ pc[r] = "insert_user" => writes'[r][AccountRow(call[r].item)] = "active"
           /\ pc[r] = "deactivate_keys" => pc'[r] = "insert_key"
           /\ pc[r] = "insert_key" => writes'[r][KeyRow(r)] = "active"
           /\ pc[r] = "audit" => writes'[r][AuditRow(r)] = "recorded"
           /\ pc[r] = "begin" /\ call[r].job = "scan" =>
                 \/ pc'[r] = "currency"
                 \/ writes'[r][ScanRow(r)] = "failed"
           /\ pc[r] = "currency" => /\ writes'[r][ScanRow(r)] \in {"ok", "partial"}
                                    /\ writes'[r][InventoryRow(r)] \in {"ok", "partial"}
<1>1. PICK K \in SUBSET RowIds, phase \in Phases : \E f \in [K -> Contents] :
         FlushEach(r, f, phase) /\ RowsOf(r, K, f, phase)
  BY DEF Writes
<1>2. PICK f \in [K -> Contents] : FlushEach(r, f, phase) /\ RowsOf(r, K, f, phase)
  BY <1>1
<1>3. /\ pc' = [pc EXCEPT ![r] = phase]
      /\ \A k \in RowIds : k \in K => writes'[r][k] = f[k]
  BY <1>2, FlushShows
<1>4. pc'[r] = phase /\ \A k \in K : writes'[r][k] = f[k]
  BY <1>3, Domains
<1> QED BY <1>2, <1>4 DEF RowsOf

LEMMA SessionsStep ==
    ASSUME TypeOK, Stages, Sessions, NEW r \in Requests, Step(r)
    PROVE  Sessions'
<1>1. ASSUME NEW t \in Requests, NEW k \in RowIds, writes'[t][k] # Untouched
      PROVE  pc'[t] \in Writing /\ (Holds(t, k) \/ (t = r /\ Free(r, k)))
  <2>1. CASE Holds(t, k) /\ pc'[t] \in Writing
    BY <2>1
  <2>2. CASE t = r /\ Writes(r) /\ Free(r, k)
    BY <2>2, WritesFacts
  <2> QED BY <1>1, <2>1, <2>2, HeldThen
<1>2. ASSUME NEW s \in Requests, NEW t \in Requests, NEW k \in RowIds,
             writes'[s][k] # Untouched, writes'[t][k] # Untouched
      PROVE  s = t
  BY <1>1, <1>2 DEF Sessions, Free
<1> QED BY <1>1, <1>2 DEF Sessions, Holds

\* Somebody's audit record is a row of its own.
LEMMA AuditAdded ==
    ASSUME NEW r \in Requests, NEW s \in Requests, Added(r, AuditRow(s))
    PROVE  pc[r] = "audit" /\ s = r /\ writes'[r][AuditRow(s)] = "recorded"
BY DEF Added, AccountRow, RoleRow, KeyRow, ScanRow, InventoryRow, ProposalRows, AuditRow

LEMMA AuditsStep ==
    ASSUME TypeOK, Stages, Sessions, Audits, NEW r \in Requests, Step(r)
    PROVE  Audits'
<1>0. \A s \in Requests : AuditRow(s) \in RowIds
  BY RowsThereAre
<1>1. ASSUME NEW t \in Requests, db'[AuditRow(t)] # Absent
      PROVE  pc'[t] \in After
  <2>1. CASE InAudit(t)
    <3>1. pc[t] \in After
      BY <2>1 DEF Audits
    <3>2. CASE t # r
      BY <3>1, <3>2, OthersStay
    <3>3. CASE t = r
      <4>1. CASE Quiet(r)
        BY <3>1, <3>3, <4>1, QuietFacts DEF QuietMove, After
      <4>2. CASE Ends(r) \/ Commits(r)
        BY <3>3, <4>2, EndsFacts, CommitsFacts, Domains DEF After
      <4>3. CASE Writes(r)
        BY <3>1, <3>3, <4>3, WritesFacts DEF After
      <4> QED BY <4>1, <4>2, <4>3, StepIs
    <3> QED BY <3>2, <3>3
  <2>2. CASE ~InAudit(t)
    <3>1. Commits(r)
      BY <1>1, <2>2, StoredByCommit DEF InAudit
    <3>2. Holds(r, AuditRow(t))
      BY <1>0, <1>1, <2>2, <3>1, CommitsFacts DEF InAudit
    <3>3. r = t
      BY <3>2 DEF Audits
    <3> QED BY <3>1, <3>3, CommitsFacts, Domains DEF After
  <2> QED BY <2>1, <2>2
<1>2. ASSUME NEW t \in Requests, pc'[t] = "early_commit"
      PROVE  writes'[t][AuditRow(t)] = "recorded"
  <2>1. CASE t # r
    BY <1>0, <1>2, <2>1, OthersStay DEF Audits
  <2>2. CASE t = r /\ Quiet(r)
    BY <1>2, <2>2, QuietFacts DEF QuietMove
  <2>3. CASE t = r /\ (Ends(r) \/ Commits(r))
    BY <1>2, <2>3, EndsFacts, CommitsFacts, Domains
  <2>4. CASE t = r /\ Writes(r)
    BY <1>2, <2>4, WritesFacts, Written
  <2> QED BY <2>1, <2>2, <2>3, <2>4, StepIs
<1>3. ASSUME NEW s \in Requests, NEW t \in Requests, writes'[t][AuditRow(s)] # Untouched
      PROVE  s = t /\ writes'[t][AuditRow(s)] = "recorded"
  <2>1. CASE Holds(t, AuditRow(s)) /\ writes'[t][AuditRow(s)] = writes[t][AuditRow(s)]
    BY <2>1 DEF Audits
  <2>2. CASE t = r /\ Added(r, AuditRow(s))
    BY <2>2, AuditAdded
  <2> QED BY <1>0, <1>3, <2>1, <2>2, HeldThen
<1> QED BY <1>1, <1>2, <1>3 DEF Audits, InAudit, Holds, AuditRow

\* Who has been audited stays so.
LEMMA AuditedStays ==
    ASSUME TypeOK, Stages, Audits, NEW r \in Requests, Step(r),
           NEW t \in Requests, InAudit(t)
    PROVE  db'[AuditRow(t)] # Absent
<1>1. AuditRow(t) \in RowIds
  BY RowsThereAre
<1>2. CASE Commits(r)
  BY <1>1, <1>2, CommitsFacts, Marks DEF InAudit, Audits
<1>3. CASE ~Commits(r)
  BY <1>3, StoredByCommit DEF InAudit
<1> QED BY <1>2, <1>3

\* What is stored when r changes a row, and the rows that do not change.
LEMMA Stored ==
    ASSUME TypeOK, Stages, Sessions, Audits, NEW r \in Requests, Step(r),
           NEW k \in RowIds, db'[k] # db[k]
    PROVE  /\ Commits(r) /\ pc[r] = "early_commit"
           /\ Holds(r, k) /\ db'[k] = writes[r][k]
           /\ db'[AuditRow(r)] # Absent
<1>1. Commits(r)
  BY StoredByCommit
<1>2. Holds(r, k) /\ db'[k] = writes[r][k]
  BY <1>1, CommitsFacts
<1>3. pc[r] = "early_commit"
  BY <1>1, <1>2, CommitsFacts DEF Sessions, Writing
<1>4. AuditRow(r) \in RowIds /\ writes[r][AuditRow(r)] = "recorded"
  BY <1>3, RowsThereAre DEF Audits
<1>5. Holds(r, AuditRow(r)) /\ "recorded" # Absent
  BY <1>4, Marks DEF Holds
<1> QED BY <1>1, <1>2, <1>3, <1>4, <1>5, CommitsFacts

\* The other rows of a session stay as they are.
LEMMA WritesKeep ==
    ASSUME TypeOK, NEW r \in Requests, Writes(r), NEW k \in RowIds, ~Added(r, k)
    PROVE  writes'[r][k] = writes[r][k]
<1>1. PICK K \in SUBSET RowIds, phase \in Phases : \E f \in [K -> Contents] :
         FlushEach(r, f, phase) /\ RowsOf(r, K, f, phase)
  BY DEF Writes
<1>2. PICK f \in [K -> Contents] : FlushEach(r, f, phase) /\ RowsOf(r, K, f, phase)
  BY <1>1
<1>3. /\ pc' = [pc EXCEPT ![r] = phase]
      /\ \A j \in RowIds : writes'[r][j] = IF j \in K THEN f[j] ELSE writes[r][j]
  BY <1>2, FlushShows
<1>4. pc'[r] = phase
  BY <1>3, Domains
<1>5. CASE k \in K
  <2>1. writes'[r][k] = f[k]
    BY <1>3, <1>5
  <2>2. Added(r, k)
    BY <1>2, <1>4, <1>5, <2>1 DEF RowsOf, Added
  <2> QED BY <2>2
<1> QED BY <1>3, <1>5

\* What a request has been asked for when it writes.
LEMMA WritesJob ==
    ASSUME TypeOK, NEW r \in Requests, Writes(r)
    PROVE  /\ pc[r] \notin {"insert_user", "assign_role", "audit"} =>
                 call[r].job # "create_user"
           /\ pc[r] \notin {"deactivate_keys", "insert_key", "audit"} =>
                 call[r].job # "set_key"
           /\ pc[r] \notin {"drop_key", "audit"} => call[r].job # "drop_key"
           /\ pc[r] \notin {"begin", "currency", "audit"} => call[r].job # "scan"
<1>1. PICK K \in SUBSET RowIds, phase \in Phases : \E f \in [K -> Contents] :
         FlushEach(r, f, phase) /\ RowsOf(r, K, f, phase)
  BY DEF Writes
<1>2. PICK f \in [K -> Contents] : RowsOf(r, K, f, phase)
  BY <1>1
<1> QED BY <1>2 DEF RowsOf

------------------------------------------------------------------------------
(* Who may do what *)

Entitled(t) ==
    /\ HasAccount(call[t].user)
    /\ \/ IsPlatform(call[t].user)
       \/ call[t].job \notin PlatformJobs /\ IsOrgAdmin(call[t].user)

\* Who has got past _resolve.
Entries ==
    \A t \in Requests : pc[t] \notin {"idle", "failed"} \/ InAudit(t) => Entitled(t)

\* An account comes with its roles, in one organisation at most.
Roots ==
    /\ \A u \in Users, s \in Scopes : ~HasAccount(u) => db[RoleRow(u, s)] = Absent
    /\ \A u \in Users \ Accounts, o, p \in Orgs : MemberOf(u, o) /\ MemberOf(u, p) => o = p

MayDeactivate(t) ==
    call[t].job = "deactivate" => call[t].item # call[t].user /\ Reaches(t, call[t].item)

\* An account is created once; or there is one to be changed.
Creates(t, u) ==
    /\ call[t].job = "create_user" /\ ~HasAccount(u)
    /\ writes[t][AccountRow(u)] = "active"

Changes(t, u) ==
    /\ call[t].job \in {"deactivate", "reactivate"} /\ HasAccount(u)
    /\ writes[t][AccountRow(u)] = Wished(t) /\ MayDeactivate(t)

AccountDrafts ==
    /\ \A t \in Requests :
          pc[t] = "set_active" => HasAccount(call[t].item) /\ MayDeactivate(t)
    /\ \A t \in Requests :
          pc[t] \in Last \cup {"assign_role"} /\ call[t].job = "create_user" =>
             Holds(t, AccountRow(call[t].item))
    /\ \A t \in Requests, u \in Users :
          Holds(t, AccountRow(u)) => call[t].item = u /\ (Creates(t, u) \/ Changes(t, u))

\* The roles that an account is created with.
RoleDrafts ==
    \A t \in Requests, u \in Users, s \in Scopes : Holds(t, RoleRow(u, s)) =>
        /\ call[t].job = "create_user" /\ call[t].item = u /\ pc[t] \in Last
        /\ s \in ScopeOfNewUser(t) /\ writes[t][RoleRow(u, s)] \in {"admin", "user"}

RightsInv == Entries /\ Roots /\ AccountDrafts /\ RoleDrafts

LEMMA AccountAdded ==
    ASSUME NEW r \in Requests, NEW u \in Users, Added(r, AccountRow(u))
    PROVE  /\ call[r].item = u
           /\ \/ /\ pc[r] = "insert_user" /\ call[r].job = "create_user" /\ ~HasAccount(u)
                 /\ writes'[r][AccountRow(u)] = "active"
              \/ /\ pc[r] = "set_active" /\ call[r].job \in {"deactivate", "reactivate"}
                 /\ writes'[r][AccountRow(u)] = Wished(r)
BY DEF Added, AccountRow, RoleRow, KeyRow, ScanRow, InventoryRow, ProposalRows, AuditRow

LEMMA RoleAdded ==
    ASSUME NEW r \in Requests, NEW u \in Users, NEW s \in Scopes, Added(r, RoleRow(u, s))
    PROVE  /\ pc'[r] = "audit" /\ call[r].job = "create_user" /\ call[r].item = u
           /\ s \in ScopeOfNewUser(r) /\ writes'[r][RoleRow(u, s)] \in {"admin", "user"}
BY DEF Added, AccountRow, RoleRow, KeyRow, ScanRow, InventoryRow, ProposalRows, AuditRow

\* An account stays, with its roles.
LEMMA AccountsStay ==
    ASSUME TypeOK, Stages, Sessions, Audits, RightsInv, NEW r \in Requests, Step(r),
           NEW u \in Users, HasAccount(u)
    PROVE  /\ db'[AccountRow(u)] # Absent
           /\ \A s \in Scopes : db'[RoleRow(u, s)] = db[RoleRow(u, s)]
<1>0. AccountRow(u) \in RowIds /\ \A s \in Scopes : RoleRow(u, s) \in RowIds
  BY RowsThereAre
<1>1. db'[AccountRow(u)] # Absent
  <2>1. CASE db'[AccountRow(u)] = db[AccountRow(u)]
    BY <2>1 DEF HasAccount
  <2>2. CASE db'[AccountRow(u)] # db[AccountRow(u)]
    <3>1. Holds(r, AccountRow(u)) /\ db'[AccountRow(u)] = writes[r][AccountRow(u)]
      BY <1>0, <2>2, Stored
    <3>2. writes[r][AccountRow(u)] \in {"active", "inactive"}
      BY <3>1 DEF RightsInv, AccountDrafts, Creates, Changes, Wished
    <3> QED BY <3>1, <3>2, Marks
  <2> QED BY <2>1, <2>2
<1>2. ASSUME NEW s \in Scopes, db'[RoleRow(u, s)] # db[RoleRow(u, s)]
      PROVE  FALSE
  <2>1. Holds(r, RoleRow(u, s)) /\ pc[r] = "early_commit"
    BY <1>0, <1>2, Stored
  <2>2. call[r].job = "create_user" /\ call[r].item = u
    BY <2>1 DEF RightsInv, RoleDrafts
  <2>3. Holds(r, AccountRow(u))
    BY <2>1, <2>2 DEF RightsInv, AccountDrafts, Last
  <2> QED BY <2>2, <2>3 DEF RightsInv, AccountDrafts, Creates, Changes
<1> QED BY <1>1, <1>2

LEMMA RightsStay ==
    ASSUME TypeOK, Stages, Sessions, Audits, RightsInv, NEW r \in Requests, Step(r),
           NEW u \in Users, HasAccount(u)
    PROVE  /\ HasAccount(u)'
           /\ IsPlatform(u)' <=> IsPlatform(u)
           /\ \A o \in Orgs : MemberOf(u, o)' <=> MemberOf(u, o)
           /\ HomeOf(u)' = HomeOf(u)
           /\ IsOrgAdmin(u)' <=> IsOrgAdmin(u)
<1>1. /\ db'[AccountRow(u)] # Absent
      /\ \A s \in Scopes : db'[RoleRow(u, s)] = db[RoleRow(u, s)]
  BY AccountsStay
<1>2. Platform \in Scopes /\ Orgs \subseteq Scopes
  BY DEF Scopes
<1>3. HasAccount(u)'
  BY <1>1 DEF HasAccount, AccountRow
<1>4. IsPlatform(u)' <=> IsPlatform(u)
  BY <1>1, <1>2 DEF IsPlatform, RoleRow
<1>5. \A o \in Orgs : MemberOf(u, o)' <=> MemberOf(u, o)
  BY <1>1, <1>2 DEF MemberOf, RoleRow
<1>6. HomeOf(u)' = HomeOf(u)
  BY <1>5 DEF HomeOf
<1>7. HomeOf(u) \subseteq Scopes
  BY <1>2 DEF HomeOf
<1>8. IsOrgAdmin(u)' <=> IsOrgAdmin(u)
  BY <1>1, <1>6, <1>7 DEF IsOrgAdmin, RoleRow
<1> QED BY <1>3, <1>4, <1>5, <1>6, <1>8

\* What a request may do stays what it was when its user has an account.
LEMMA CallerStays ==
    ASSUME TypeOK, Stages, Sessions, Audits, RightsInv, NEW r \in Requests, Step(r),
           NEW t \in Requests, HasAccount(call[t].user)
    PROVE  /\ IsPlatform(call[t].user)' <=> IsPlatform(call[t].user)
           /\ Entitled(t) => Entitled(t)'
           /\ ScopeOfCall(t)' = ScopeOfCall(t)
           /\ ScopeOfNewUser(t)' = ScopeOfNewUser(t)
           /\ \A s \in Scopes : db'[RoleRow(call[t].user, s)] = db[RoleRow(call[t].user, s)]
           /\ \A u \in Users : HasAccount(u) => (Reaches(t, u)' <=> Reaches(t, u))
<1>c. call' = call
  BY CallStays
<1>1. PICK v \in Users : v = call[t].user
  BY CallType, Domains
<1>2. HasAccount(v) /\ v = call'[t].user
  BY <1>c, <1>1
<1>3. /\ HasAccount(v)'
      /\ IsPlatform(v)' <=> IsPlatform(v)
      /\ HomeOf(v)' = HomeOf(v)
      /\ IsOrgAdmin(v)' <=> IsOrgAdmin(v)
  BY <1>2, RightsStay
<1>4. \A s \in Scopes : db'[RoleRow(v, s)] = db[RoleRow(v, s)]
  BY <1>2, AccountsStay
<1>5. /\ HasAccount(call[t].user)' <=> HasAccount(v)'
      /\ IsPlatform(call[t].user)' <=> IsPlatform(v)'
      /\ HomeOf(call[t].user)' = HomeOf(v)'
      /\ IsOrgAdmin(call[t].user)' <=> IsOrgAdmin(v)'
  BY <1>2 DEF HasAccount, IsPlatform, HomeOf, MemberOf, IsOrgAdmin
<1>6. Entitled(t) => Entitled(t)'
  BY <1>c, <1>1, <1>3, <1>5 DEF Entitled, PlatformJobs
<1>7. ScopeOfCall(t)' = ScopeOfCall(t)
  BY <1>c, <1>1, <1>3, <1>5 DEF ScopeOfCall
<1>8. ScopeOfNewUser(t)' = ScopeOfNewUser(t)
  BY <1>1, <1>3, <1>5 DEF ScopeOfNewUser
<1>9. ASSUME NEW u \in Users, HasAccount(u)
      PROVE  Reaches(t, u)' <=> Reaches(t, u)
  <2>1. \A o \in Orgs : MemberOf(u, o)' <=> MemberOf(u, o)
    BY <1>9, RightsStay
  <2>2. HomeOf(v) \subseteq Orgs
    BY DEF HomeOf
  <2> QED BY <1>1, <1>3, <1>5, <2>1, <2>2 DEF Reaches
<1> QED BY <1>1, <1>3, <1>4, <1>5, <1>6, <1>7, <1>8, <1>9

LEMMA EntriesStep ==
    ASSUME TypeOK, Stages, Sessions, Audits, RightsInv, NEW r \in Requests, Step(r)
    PROVE  Entries'
<1>1. ASSUME NEW t \in Requests, Entitled(t)
      PROVE  Entitled(t)'
  BY <1>1, CallerStays DEF Entitled
<1>2. ASSUME NEW t \in Requests, pc'[t] \notin {"idle", "failed"}
      PROVE  Entitled(t)'
  <2>1. CASE pc[t] \notin {"idle", "failed"}
    BY <1>1, <2>1 DEF RightsInv, Entries
  <2>2. CASE pc[t] \in {"idle", "failed"}
    <3>1. t = r
      BY <1>2, <2>2, OthersStay
    <3>2. Resolve(r)
      <4>1. CASE Quiet(r)
        BY <2>2, <3>1, <4>1, QuietFacts DEF QuietMove
      <4>2. CASE Ends(r)
        BY <1>2, <3>1, <4>2, EndsFacts, Domains
      <4>3. CASE Writes(r) \/ Commits(r)
        BY <2>2, <3>1, <4>3, WritesFacts, CommitsFacts
      <4> QED BY <4>1, <4>2, <4>3, StepIs
    <3>3. Entitled(r)
      BY <3>2, Marks DEF Resolve, Authorized, Entitled, HasAccount
    <3> QED BY <1>1, <3>1, <3>3
  <2> QED BY <2>1, <2>2
<1>3. ASSUME NEW t \in Requests, db'[AuditRow(t)] # Absent
      PROVE  Entitled(t)'
  <2>1. CASE InAudit(t)
    BY <1>1, <2>1 DEF RightsInv, Entries
  <2>2. CASE ~InAudit(t)
    <3>1. AuditRow(t) \in RowIds /\ db'[AuditRow(t)] # db[AuditRow(t)]
      BY <1>3, <2>2, RowsThereAre DEF InAudit
    <3>2. Holds(r, AuditRow(t)) /\ pc[r] = "early_commit"
      BY <3>1, Stored
    <3>3. t = r
      BY <3>2 DEF Audits
    <3> QED BY <1>1, <3>2, <3>3 DEF RightsInv, Entries
  <2> QED BY <2>1, <2>2
<1> QED BY <1>2, <1>3 DEF Entries, InAudit, AuditRow

\* A user is at home in one organisation at most.
LEMMA OneHome ==
    ASSUME Roots, NEW u \in Users, NEW o \in HomeOf(u), NEW p \in HomeOf(u)
    PROVE  o = p
BY DEF Roots, HomeOf

LEMMA RootsStep ==
    ASSUME TypeOK, Stages, Sessions, Audits, RightsInv, NEW r \in Requests, Step(r)
    PROVE  Roots'
<1>0. /\ \A u \in Users, s \in Scopes : RoleRow(u, s) \in RowIds
      /\ \A u \in Users : AccountRow(u) \in RowIds
      /\ Orgs \subseteq Scopes
  BY RowsThereAre DEF Scopes
<1>1. ASSUME NEW u \in Users, NEW s \in Scopes, db'[AccountRow(u)] = Absent
      PROVE  db'[RoleRow(u, s)] = Absent
  <2>1. ~HasAccount(u)
    BY <1>1, AccountsStay
  <2>2. db[RoleRow(u, s)] = Absent
    BY <2>1 DEF RightsInv, Roots
  <2>3. CASE db'[RoleRow(u, s)] # db[RoleRow(u, s)]
    <3>1. /\ Holds(r, RoleRow(u, s)) /\ pc[r] = "early_commit" /\ Commits(r)
      BY <1>0, <2>3, Stored
    <3>2. call[r].job = "create_user" /\ call[r].item = u
      BY <3>1 DEF RightsInv, RoleDrafts
    <3>3. Holds(r, AccountRow(u))
      BY <3>1, <3>2 DEF RightsInv, AccountDrafts, Last
    <3>4. writes[r][AccountRow(u)] = "active"
      BY <2>1, <3>3 DEF RightsInv, AccountDrafts, Creates, Changes
    <3>5. db'[AccountRow(u)] = "active"
      BY <1>0, <3>1, <3>3, <3>4, CommitsFacts
    <3> QED BY <1>1, <3>5, Marks
  <2> QED BY <2>2, <2>3
<1>2. ASSUME NEW u \in Users \ Accounts, NEW o \in Orgs, NEW p \in Orgs,
             MemberOf(u, o)', MemberOf(u, p)'
      PROVE  o = p
  <2>1. CASE HasAccount(u)
    <3>1. MemberOf(u, o) /\ MemberOf(u, p)
      BY <1>2, <2>1, RightsStay
    <3> QED BY <3>1 DEF RightsInv, Roots
  <2>2. CASE ~HasAccount(u)
    <3>1. ASSUME NEW q \in Orgs, MemberOf(u, q)'
          PROVE  q \in ScopeOfNewUser(r)
      <4>1. db[RoleRow(u, q)] = Absent /\ db'[RoleRow(u, q)] # Absent
        BY <1>0, <2>2, <3>1 DEF RightsInv, Roots, MemberOf, RoleRow
      <4>2. Holds(r, RoleRow(u, q))
        BY <1>0, <4>1, Stored
      <4> QED BY <1>0, <4>2 DEF RightsInv, RoleDrafts
    <3>2. o \in ScopeOfNewUser(r) /\ p \in ScopeOfNewUser(r)
      BY <1>2, <3>1
    <3>3. CASE IsPlatform(call[r].user)
      BY <3>2, <3>3 DEF ScopeOfNewUser
    <3>4. CASE ~IsPlatform(call[r].user)
      <4>1. PICK v \in Users : v = call[r].user
        BY CallType, Domains
      <4>2. o \in HomeOf(v) /\ p \in HomeOf(v)
        BY <3>2, <3>4, <4>1 DEF ScopeOfNewUser
      <4> QED BY <4>2, OneHome DEF RightsInv
    <3> QED BY <3>3, <3>4
  <2> QED BY <2>1, <2>2
<1> QED BY <1>1, <1>2 DEF Roots, HasAccount, AccountRow, RoleRow

LEMMA AccountDraftsStep ==
    ASSUME TypeOK, Stages, Sessions, Audits, RightsInv, NEW r \in Requests, Step(r)
    PROVE  AccountDrafts'
<1>c. call' = call
  BY CallStays
<1>0. \A u \in Users : AccountRow(u) \in RowIds
  BY RowsThereAre
\* What has been checked of a deactivation goes on being so.
<1>a. ASSUME NEW t \in Requests, NEW u \in Users, call[t].item = u, HasAccount(u),
             HasAccount(call[t].user), MayDeactivate(t)
      PROVE  HasAccount(u)' /\ MayDeactivate(t)'
  <2>1. HasAccount(u)' /\ (Reaches(t, u)' <=> Reaches(t, u))
    BY <1>a, RightsStay, CallerStays
  <2>2. Reaches(t, call[t].item)' <=> Reaches(t, u)'
    BY <1>a, <1>c DEF Reaches, MemberOf
  <2> QED BY <1>a, <1>c, <2>1, <2>2 DEF MayDeactivate
<1>1. ASSUME NEW t \in Requests, pc'[t] = "set_active"
      PROVE  HasAccount(call[t].item)' /\ MayDeactivate(t)'
  <2>1. /\ HasAccount(call[t].item) /\ MayDeactivate(t) /\ Entitled(t)
        /\ call[t].job \in {"deactivate", "reactivate"}
    <3>1. CASE pc[t] = "set_active"
      BY <3>1 DEF RightsInv, AccountDrafts, Entries, Stages
    <3>2. CASE pc[t] # "set_active"
      <4>1. t = r
        BY <1>1, <3>2, OthersStay
      <4>2. LoadUser(r)
        <5>1. CASE Quiet(r)
          BY <1>1, <4>1, <5>1, QuietFacts DEF QuietMove
        <5>2. CASE Ends(r) \/ Writes(r) \/ Commits(r)
          BY <1>1, <4>1, <5>2, EndsFacts, WritesFacts, CommitsFacts, Domains DEF Writing
        <5> QED BY <5>1, <5>2, StepIs
      <4>3. Entitled(r)
        BY <4>2 DEF LoadUser, Begins, RightsInv, Entries
      <4> QED BY <4>1, <4>2, <4>3
              DEF LoadUser, Begins, HasAccount, MayDeactivate, OwnAccount
    <3> QED BY <3>1, <3>2
  <2>2. PICK u \in Users : u = call[t].item
    BY <2>1, CallType, Domains
  <2>3. HasAccount(u)' /\ MayDeactivate(t)'
    BY <1>a, <2>1, <2>2 DEF Entitled
  <2> QED BY <1>c, <2>2, <2>3 DEF HasAccount
<1>2. ASSUME NEW t \in Requests, pc'[t] \in Last \cup {"assign_role"},
             call[t].job = "create_user"
      PROVE  writes'[t][AccountRow(call[t].item)] # Untouched
  <2>0. call[t].item \in Users
    BY <1>2, CallType, Domains
  <2>1. CASE t # r
    BY <1>0, <1>2, <2>0, <2>1, OthersStay DEF RightsInv, AccountDrafts, Holds
  <2>2. CASE t = r /\ Quiet(r)
    BY <1>2, <2>2, QuietFacts
       DEF QuietMove, Last, LoadUser, LoadKey, LookForAccess, Begins
  <2>3. CASE t = r /\ (Ends(r) \/ Commits(r))
    BY <1>2, <2>3, EndsFacts, CommitsFacts, Domains DEF Last
  <2>4. CASE t = r /\ Writes(r)
    <3>1. CASE pc[r] = "insert_user"
      BY <2>4, <3>1, Written, Marks
    <3>2. CASE pc[r] \in Last \cup {"assign_role"}
      <4>1. Holds(r, AccountRow(call[r].item))
        BY <1>2, <2>4, <3>2 DEF RightsInv, AccountDrafts
      <4>2. PICK u \in Users : u = call[r].item
        BY <2>0, <2>4
      <4>3. ~Added(r, AccountRow(u))
        BY <3>2, AccountAdded DEF Last
      <4>4. writes'[r][AccountRow(u)] = writes[r][AccountRow(u)]
        BY <1>0, <2>4, <4>3, WritesKeep
      <4> QED BY <2>4, <4>1, <4>2, <4>4 DEF Holds
    <3>3. CASE pc[r] \notin Last \cup {"insert_user", "assign_role"}
      BY <1>2, <2>4, <3>3, WritesJob DEF Last
    <3> QED BY <3>1, <3>2, <3>3
  <2> QED BY <2>1, <2>2, <2>3, <2>4, StepIs
<1>3. ASSUME NEW t \in Requests, NEW u \in Users, writes'[t][AccountRow(u)] # Untouched
      PROVE  call[t].item = u /\ (Creates(t, u)' \/ Changes(t, u)')
  <2>0. pc'[t] \in Writing /\ Sessions'
    BY <1>0, <1>3, SessionsStep DEF Sessions, Holds
  <2>1. CASE Holds(t, AccountRow(u)) /\ writes'[t][AccountRow(u)] = writes[t][AccountRow(u)]
    <3>1. call[t].item = u /\ (Creates(t, u) \/ Changes(t, u)) /\ Entitled(t)
      BY <1>0, <2>1 DEF RightsInv, AccountDrafts, Sessions, Entries, Writing
    <3>2. CASE Creates(t, u)
      <4>1. CASE db'[AccountRow(u)] # db[AccountRow(u)]
        <5>1. Holds(r, AccountRow(u)) /\ Commits(r)
          BY <1>0, <4>1, Stored
        <5>2. t = r
          BY <1>0, <2>1, <5>1 DEF Sessions
        <5>3. writes'[t][AccountRow(u)] = Untouched
          BY <1>0, <5>1, <5>2, CommitsFacts
        <5> QED BY <1>3, <5>3
      <4>2. CASE db'[AccountRow(u)] = db[AccountRow(u)]
        BY <1>c, <2>1, <3>1, <3>2, <4>2 DEF Creates, HasAccount, AccountRow
      <4> QED BY <4>1, <4>2
    <3>3. CASE Changes(t, u)
      <4>1. HasAccount(u)' /\ MayDeactivate(t)'
        BY <1>a, <3>1, <3>3 DEF Changes, Entitled
      <4>2. Wished(t)' = Wished(t) /\ AccountRow(u)' = AccountRow(u)
        BY <1>c DEF Wished, AccountRow
      <4> QED BY <1>c, <2>1, <3>1, <3>3, <4>1, <4>2 DEF Changes
    <3> QED BY <3>1, <3>2, <3>3
  <2>2. CASE t = r /\ Writes(r) /\ Added(r, AccountRow(u))
    <3>0. db' = db
      BY <2>2, WritesFacts
    <3>1. CASE /\ call[r].item = u
               /\ pc[r] = "insert_user" /\ call[r].job = "create_user" /\ ~HasAccount(u)
               /\ writes'[r][AccountRow(u)] = "active"
      BY <1>c, <2>2, <3>0, <3>1 DEF Creates, HasAccount, AccountRow
    <3>2. CASE /\ call[r].item = u
               /\ pc[r] = "set_active" /\ call[r].job \in {"deactivate", "reactivate"}
               /\ writes'[r][AccountRow(u)] = Wished(r)
      <4>1. HasAccount(u) /\ MayDeactivate(r) /\ Entitled(r)
        BY <3>2 DEF RightsInv, AccountDrafts, Entries
      <4>2. HasAccount(u)' /\ MayDeactivate(r)'
        BY <1>a, <3>2, <4>1 DEF Entitled
      <4>3. Wished(r)' = Wished(r) /\ AccountRow(u)' = AccountRow(u)
        BY <1>c DEF Wished, AccountRow
      <4> QED BY <1>c, <2>2, <3>2, <4>2, <4>3 DEF Changes
    <3> QED BY <2>2, <3>1, <3>2, AccountAdded
  <2> QED BY <1>0, <1>3, <2>1, <2>2, HeldThen
<1> QED BY <1>c, <1>1, <1>2, <1>3 DEF AccountDrafts, Holds, AccountRow

LEMMA RoleDraftsStep ==
    ASSUME TypeOK, Stages, Sessions, Audits, RightsInv, NEW r \in Requests, Step(r)
    PROVE  RoleDrafts'
<1>c. call' = call
  BY CallStays
<1> SUFFICES ASSUME NEW t \in Requests, NEW u \in Users, NEW s \in Scopes,
                    writes'[t][RoleRow(u, s)] # Untouched
             PROVE  /\ call[t].job = "create_user" /\ call[t].item = u /\ pc'[t] \in Last
                    /\ s \in ScopeOfNewUser(t)'
                    /\ writes'[t][RoleRow(u, s)] \in {"admin", "user"}
  BY <1>c DEF RoleDrafts, Holds, RoleRow
<1>0. RoleRow(u, s) \in RowIds
  BY RowsThereAre
<1>1. CASE /\ Holds(t, RoleRow(u, s)) /\ writes'[t][RoleRow(u, s)] = writes[t][RoleRow(u, s)]
           /\ pc[t] \in Last => pc'[t] \in Last
  <2>1. /\ call[t].job = "create_user" /\ call[t].item = u /\ pc[t] \in Last
        /\ s \in ScopeOfNewUser(t) /\ writes[t][RoleRow(u, s)] \in {"admin", "user"}
    BY <1>1 DEF RightsInv, RoleDrafts
  <2>2. Entitled(t)
    BY <2>1 DEF RightsInv, Entries, Last
  <2>3. ScopeOfNewUser(t)' = ScopeOfNewUser(t)
    BY <2>2, CallerStays DEF Entitled
  <2> QED BY <1>1, <2>1, <2>3
<1>2. CASE t = r /\ Writes(r) /\ Added(r, RoleRow(u, s))
  <2>1. /\ pc'[r] = "audit" /\ call[r].job = "create_user" /\ call[r].item = u
        /\ s \in ScopeOfNewUser(r) /\ writes'[r][RoleRow(u, s)] \in {"admin", "user"}
    BY <1>2, RoleAdded
  <2>2. Entitled(r)
    BY <1>2, WritesFacts DEF RightsInv, Entries
  <2>3. ScopeOfNewUser(r)' = ScopeOfNewUser(r)
    BY <2>2, CallerStays DEF Entitled
  <2> QED BY <1>2, <2>1, <2>3 DEF Last
<1> QED BY <1>0, <1>1, <1>2, HeldThen

LEMMA RightsStep ==
    ASSUME TypeOK, Stages, Sessions, Audits, RightsInv, NEW r \in Requests, Step(r)
    PROVE  RightsInv'
BY EntriesStep, RootsStep, AccountDraftsStep, RoleDraftsStep DEF RightsInv

\* A role beyond those that there are at first, as the administrator has it who gave
\* it.
Granted(u, s, t) ==
    /\ call[t].item = u
    /\ IF s = Platform THEN IsPlatform(call[t].user)
       ELSE db[RoleRow(call[t].user, s)] = "admin"

RolesReached ==
    \A u \in Users, s \in Scopes :
        (db[RoleRow(u, s)] # Absent /\ \A g \in Roles : <<g[1], g[2]>> # <<u, s>>) =>
            \E t \in Done({"create_user"}) : Granted(u, s, t)

AccountsReached ==
    \A u \in Users : db[AccountRow(u)] = "inactive" =>
        \E t \in Done({"deactivate"}) :
           call[t].item = u /\ call[t].user # u /\ Reaches(t, u)

\* What has been done stays done, and the last step of it is the audit record.
LEMMA DoneStays ==
    ASSUME TypeOK, Stages, Audits, NEW r \in Requests, Step(r), NEW jobs,
           NEW t \in Done(jobs)
    PROVE  t \in Done(jobs)'
<1>1. t \in Requests /\ call[t].job \in jobs /\ InAudit(t)
  BY DEF Done, InAudit, AuditRow
<1>2. db'[AuditRow(t)] # Absent /\ call' = call
  BY <1>1, AuditedStays, CallStays
<1> QED BY <1>1, <1>2 DEF Done, AuditRow

LEMMA DoneThen ==
    ASSUME TypeOK, Stages, Sessions, Audits, NEW r \in Requests, Step(r), NEW jobs,
           NEW k \in RowIds, db'[k] # db[k], call[r].job \in jobs
    PROVE  r \in Done(jobs)'
<1>1. db'[AuditRow(r)] # Absent /\ call' = call
  BY Stored, CallStays
<1> QED BY <1>1 DEF Done, AuditRow

\* Whoever is in Done has an account.
LEMMA DoneEntitled ==
    ASSUME Entries, NEW jobs, NEW t \in Done(jobs)
    PROVE  t \in Requests /\ call[t].job \in jobs /\ Entitled(t)
BY DEF Entries, Done, InAudit, AuditRow

LEMMA RolesReachedStep ==
    ASSUME TypeOK, Stages, Sessions, Audits, RightsInv, RolesReached,
           NEW r \in Requests, Step(r)
    PROVE  RolesReached'
<1>c. call' = call
  BY CallStays
<1> SUFFICES ASSUME NEW u \in Users, NEW s \in Scopes, db'[RoleRow(u, s)] # Absent,
                    \A g \in Roles : <<g[1], g[2]>> # <<u, s>>
             PROVE  \E t \in Done({"create_user"})' : Granted(u, s, t)'
  BY DEF RolesReached, RoleRow
<1>0. RoleRow(u, s) \in RowIds
  BY RowsThereAre
<1>g. ASSUME NEW t \in Requests, Entitled(t), Granted(u, s, t)
      PROVE  Granted(u, s, t)'
  <2>1. /\ IsPlatform(call[t].user)' <=> IsPlatform(call[t].user)
        /\ db'[RoleRow(call[t].user, s)] = db[RoleRow(call[t].user, s)]
    BY <1>g, CallerStays DEF Entitled
  <2> QED BY <1>c, <1>g, <2>1 DEF Granted, RoleRow
<1>1. CASE db'[RoleRow(u, s)] = db[RoleRow(u, s)]
  <2>1. PICK t \in Done({"create_user"}) : Granted(u, s, t)
    BY <1>1 DEF RolesReached
  <2>2. t \in Done({"create_user"})'
    BY DoneStays
  <2>3. t \in Requests /\ Entitled(t)
    BY DoneEntitled DEF RightsInv
  <2> QED BY <1>g, <2>1, <2>2, <2>3
<1>2. CASE db'[RoleRow(u, s)] # db[RoleRow(u, s)]
  <2>1. Holds(r, RoleRow(u, s)) /\ pc[r] = "early_commit"
    BY <1>0, <1>2, Stored
  <2>2. call[r].job = "create_user" /\ call[r].item = u /\ s \in ScopeOfNewUser(r)
    BY <2>1 DEF RightsInv, RoleDrafts
  <2>3. r \in Done({"create_user"})'
    BY <1>0, <1>2, <2>2, DoneThen
  <2>4. Entitled(r)
    BY <2>1 DEF RightsInv, Entries
  <2>5. Granted(u, s, r)
    <3>1. CASE IsPlatform(call[r].user)
      BY <2>2, <3>1 DEF ScopeOfNewUser, Granted
    <3>2. CASE ~IsPlatform(call[r].user)
      <4>1. PICK v \in Users : v = call[r].user
        BY CallType, Domains
      <4>2. s \in HomeOf(v) /\ IsOrgAdmin(v)
        BY <2>2, <2>4, <3>2, <4>1 DEF ScopeOfNewUser, Entitled
      <4>3. PICK o \in HomeOf(v) : db[RoleRow(v, o)] = "admin"
        BY <4>2 DEF IsOrgAdmin
      <4>4. o = s
        BY <4>2, OneHome DEF RightsInv
      <4>5. s \in Orgs /\ Platform \notin Orgs
        BY <4>2, AdministrationAssumption DEF HomeOf
      <4> QED BY <2>2, <4>1, <4>3, <4>4, <4>5 DEF Granted
    <3> QED BY <3>1, <3>2
  <2> QED BY <1>g, <2>3, <2>4, <2>5
<1> QED BY <1>1, <1>2

LEMMA AccountsReachedStep ==
    ASSUME TypeOK, Stages, Sessions, Audits, RightsInv, AccountsReached,
           NEW r \in Requests, Step(r)
    PROVE  AccountsReached'
<1>c. call' = call
  BY CallStays
<1> SUFFICES ASSUME NEW u \in Users, db'[AccountRow(u)] = "inactive"
             PROVE  \E t \in Done({"deactivate"})' :
                       call[t].item = u /\ call[t].user # u /\ Reaches(t, u)'
  BY <1>c DEF AccountsReached, AccountRow
<1>0. AccountRow(u) \in RowIds
  BY RowsThereAre
<1>h. HasAccount(u)
  <2>1. CASE db'[AccountRow(u)] = db[AccountRow(u)]
    BY <2>1, Marks DEF HasAccount
  <2>2. CASE db'[AccountRow(u)] # db[AccountRow(u)]
    <3>1. Holds(r, AccountRow(u)) /\ writes[r][AccountRow(u)] = "inactive"
      BY <1>0, <2>2, Stored
    <3> QED BY <3>1 DEF RightsInv, AccountDrafts, Creates, Changes
  <2> QED BY <2>1, <2>2
<1>1. CASE db'[AccountRow(u)] = db[AccountRow(u)]
  <2>1. PICK t \in Done({"deactivate"}) :
           call[t].item = u /\ call[t].user # u /\ Reaches(t, u)
    BY <1>1 DEF AccountsReached
  <2>2. t \in Done({"deactivate"})'
    BY DoneStays
  <2>3. t \in Requests /\ Entitled(t)
    BY DoneEntitled DEF RightsInv
  <2>4. Reaches(t, u)'
    BY <1>h, <2>1, <2>3, CallerStays DEF Entitled
  <2> QED BY <2>1, <2>2, <2>4
<1>2. CASE db'[AccountRow(u)] # db[AccountRow(u)]
  <2>1. /\ Holds(r, AccountRow(u)) /\ writes[r][AccountRow(u)] = "inactive"
        /\ pc[r] = "early_commit"
    BY <1>0, <1>2, Stored
  <2>2. call[r].item = u /\ Changes(r, u) /\ Wished(r) = "inactive"
    BY <2>1 DEF RightsInv, AccountDrafts, Creates, Changes
  <2>3. /\ call[r].job = "deactivate" /\ call[r].user # u /\ Reaches(r, u)
    BY <2>2 DEF Changes, Wished, MayDeactivate
  <2>4. r \in Done({"deactivate"})'
    BY <1>0, <1>2, <2>3, DoneThen
  <2>5. Entitled(r)
    BY <2>1 DEF RightsInv, Entries
  <2>6. Reaches(r, u)'
    BY <1>h, <2>3, <2>5, CallerStays DEF Entitled
  <2> QED BY <2>2, <2>3, <2>4, <2>6
<1> QED BY <1>1, <1>2

------------------------------------------------------------------------------
(* What only the administrators of the platform decide *)

AccessDrafts ==
    \A t \in Requests, o \in Orgs : Holds(t, <<"access", o>>) =>
        call[t].job = "access" /\ call[t].item = o /\ writes[t][<<"access", o>>] = Policy(t)

DecisionDrafts ==
    \A t \in Requests, p \in Proposals : Holds(t, <<"decision", p>>) =>
        /\ call[t].job = "decide" /\ call[t].item = p
        /\ writes[t][<<"decision", p>>] = Decision(t)

TableDrafts ==
    \A s, t \in Requests, table \in {"scan", "report"} : Holds(t, <<table, s>>) =>
        s = t /\ call[t].job \in {"scan", "audit_controls"}

PoliciesDecided ==
    \A o \in Orgs : db[<<"access", o>>] # Absent =>
        \E t \in Done({"access"}) : call[t].item = o /\ Policy(t) = db[<<"access", o>>]

ProposalsDecided ==
    \A p \in Proposals : db[<<"decision", p>>] # "held" =>
        \E t \in Done({"decide"}) : call[t].item = p /\ Decision(t) = db[<<"decision", p>>]

TablesAudited ==
    \A t \in Requests, table \in {"scan", "report"} :
        db[<<table, t>>] # Absent => t \in Done({"scan", "audit_controls"})

PlatformInv == /\ AccessDrafts /\ DecisionDrafts /\ TableDrafts
               /\ PoliciesDecided /\ ProposalsDecided /\ TablesAudited

LEMMA PlatformRowAdded ==
    ASSUME NEW r \in Requests
    PROVE  /\ \A o \in Orgs : Added(r, <<"access", o>>) =>
                 /\ call[r].job = "access" /\ call[r].item = o
                 /\ writes'[r][<<"access", o>>] = Policy(r)
           /\ \A p \in Proposals : Added(r, <<"decision", p>>) =>
                 /\ call[r].job = "decide" /\ call[r].item = p
                 /\ writes'[r][<<"decision", p>>] = Decision(r)
           /\ \A s \in Requests : Added(r, <<"scan", s>>) => s = r /\ call[r].job = "scan"
           /\ \A s \in Requests :
                 Added(r, <<"report", s>>) => s = r /\ call[r].job = "audit_controls"
BY DEF Added, AccountRow, RoleRow, KeyRow, ScanRow, InventoryRow, ProposalRows, AuditRow

LEMMA AccessDraftsStep ==
    ASSUME TypeOK, Stages, Sessions, AccessDrafts, NEW r \in Requests, Step(r)
    PROVE  AccessDrafts'
<1>c. call' = call
  BY CallStays
<1> SUFFICES ASSUME NEW t \in Requests, NEW o \in Orgs,
                    writes'[t][<<"access", o>>] # Untouched
             PROVE  /\ call[t].job = "access" /\ call[t].item = o
                    /\ writes'[t][<<"access", o>>] = Policy(t)
  BY <1>c DEF AccessDrafts, Holds, Policy
<1>0. <<"access", o>> \in RowIds
  BY RowsThereAre
<1>1. CASE /\ Holds(t, <<"access", o>>)
           /\ writes'[t][<<"access", o>>] = writes[t][<<"access", o>>]
  BY <1>1 DEF AccessDrafts
<1>2. CASE t = r /\ Added(r, <<"access", o>>)
  BY <1>2, PlatformRowAdded
<1> QED BY <1>0, <1>1, <1>2, HeldThen

LEMMA DecisionDraftsStep ==
    ASSUME TypeOK, Stages, Sessions, DecisionDrafts, NEW r \in Requests, Step(r)
    PROVE  DecisionDrafts'
<1>c. call' = call
  BY CallStays
<1> SUFFICES ASSUME NEW t \in Requests, NEW p \in Proposals,
                    writes'[t][<<"decision", p>>] # Untouched
             PROVE  /\ call[t].job = "decide" /\ call[t].item = p
                    /\ writes'[t][<<"decision", p>>] = Decision(t)
  BY <1>c DEF DecisionDrafts, Holds, Decision
<1>0. <<"decision", p>> \in RowIds
  BY RowsThereAre DEF ProposalRows
<1>1. CASE /\ Holds(t, <<"decision", p>>)
           /\ writes'[t][<<"decision", p>>] = writes[t][<<"decision", p>>]
  BY <1>1 DEF DecisionDrafts
<1>2. CASE t = r /\ Added(r, <<"decision", p>>)
  BY <1>2, PlatformRowAdded
<1> QED BY <1>0, <1>1, <1>2, HeldThen

LEMMA TableDraftsStep ==
    ASSUME TypeOK, Stages, Sessions, TableDrafts, NEW r \in Requests, Step(r)
    PROVE  TableDrafts'
<1>c. call' = call
  BY CallStays
<1>1. ASSUME NEW s \in Requests, NEW t \in Requests, writes'[t][<<"scan", s>>] # Untouched
      PROVE  s = t /\ call[t].job \in {"scan", "audit_controls"}
  <2>0. <<"scan", s>> \in RowIds
    BY RowsThereAre DEF ScanRow
  <2>1. CASE Holds(t, <<"scan", s>>)
    BY <2>1 DEF TableDrafts
  <2>2. CASE t = r /\ Added(r, <<"scan", s>>)
    BY <2>2, PlatformRowAdded
  <2> QED BY <1>1, <2>0, <2>1, <2>2, HeldThen
<1>2. ASSUME NEW s \in Requests, NEW t \in Requests, writes'[t][<<"report", s>>] # Untouched
      PROVE  s = t /\ call[t].job \in {"scan", "audit_controls"}
  <2>0. <<"report", s>> \in RowIds
    BY RowsThereAre
  <2>1. CASE Holds(t, <<"report", s>>)
    BY <2>1 DEF TableDrafts
  <2>2. CASE t = r /\ Added(r, <<"report", s>>)
    BY <2>2, PlatformRowAdded
  <2> QED BY <1>2, <2>0, <2>1, <2>2, HeldThen
<1> QED BY <1>c, <1>1, <1>2 DEF TableDrafts, Holds

LEMMA PoliciesStep ==
    ASSUME TypeOK, Stages, Sessions, Audits, AccessDrafts, PoliciesDecided,
           NEW r \in Requests, Step(r)
    PROVE  PoliciesDecided'
<1>c. call' = call
  BY CallStays
<1> SUFFICES ASSUME NEW o \in Orgs, db'[<<"access", o>>] # Absent
             PROVE  \E t \in Done({"access"})' :
                       call[t].item = o /\ Policy(t) = db'[<<"access", o>>]
  BY <1>c DEF PoliciesDecided, Policy
<1>0. <<"access", o>> \in RowIds
  BY RowsThereAre
<1>1. CASE db'[<<"access", o>>] = db[<<"access", o>>]
  <2>1. PICK t \in Done({"access"}) : call[t].item = o /\ Policy(t) = db[<<"access", o>>]
    BY <1>1 DEF PoliciesDecided
  <2>2. t \in Done({"access"})'
    BY DoneStays
  <2> QED BY <1>1, <2>1, <2>2
<1>2. CASE db'[<<"access", o>>] # db[<<"access", o>>]
  <2>1. Holds(r, <<"access", o>>) /\ db'[<<"access", o>>] = writes[r][<<"access", o>>]
    BY <1>0, <1>2, Stored
  <2>2. call[r].job = "access" /\ call[r].item = o /\ Policy(r) = db'[<<"access", o>>]
    BY <2>1 DEF AccessDrafts
  <2>3. r \in Done({"access"})'
    BY <1>0, <1>2, <2>2, DoneThen
  <2> QED BY <2>2, <2>3
<1> QED BY <1>1, <1>2

LEMMA ProposalsStep ==
    ASSUME TypeOK, Stages, Sessions, Audits, DecisionDrafts, ProposalsDecided,
           NEW r \in Requests, Step(r)
    PROVE  ProposalsDecided'
<1>c. call' = call
  BY CallStays
<1> SUFFICES ASSUME NEW p \in Proposals, db'[<<"decision", p>>] # "held"
             PROVE  \E t \in Done({"decide"})' :
                       call[t].item = p /\ Decision(t) = db'[<<"decision", p>>]
  BY <1>c DEF ProposalsDecided, Decision
<1>0. <<"decision", p>> \in RowIds
  BY RowsThereAre DEF ProposalRows
<1>1. CASE db'[<<"decision", p>>] = db[<<"decision", p>>]
  <2>1. PICK t \in Done({"decide"}) :
           call[t].item = p /\ Decision(t) = db[<<"decision", p>>]
    BY <1>1 DEF ProposalsDecided
  <2>2. t \in Done({"decide"})'
    BY DoneStays
  <2> QED BY <1>1, <2>1, <2>2
<1>2. CASE db'[<<"decision", p>>] # db[<<"decision", p>>]
  <2>1. /\ Holds(r, <<"decision", p>>)
        /\ db'[<<"decision", p>>] = writes[r][<<"decision", p>>]
    BY <1>0, <1>2, Stored
  <2>2. call[r].job = "decide" /\ call[r].item = p /\ Decision(r) = db'[<<"decision", p>>]
    BY <2>1 DEF DecisionDrafts
  <2>3. r \in Done({"decide"})'
    BY <1>0, <1>2, <2>2, DoneThen
  <2> QED BY <2>2, <2>3
<1> QED BY <1>1, <1>2

LEMMA TablesStep ==
    ASSUME TypeOK, Stages, Sessions, Audits, TableDrafts, TablesAudited,
           NEW r \in Requests, Step(r)
    PROVE  TablesAudited'
<1> DEFINE Both == {"scan", "audit_controls"}
<1>1. ASSUME NEW t \in Requests, NEW k \in RowIds, db'[k] # Absent,
             db[k] # Absent => t \in Done(Both),
             Holds(r, k) => t = r /\ call[r].job \in Both
      PROVE  t \in Done(Both)'
  <2>1. CASE db'[k] = db[k]
    BY <1>1, <2>1, DoneStays
  <2>2. CASE db'[k] # db[k]
    <3>1. t = r /\ call[r].job \in Both
      BY <1>1, <2>2, Stored
    <3>2. r \in Done(Both)'
      BY <1>1, <2>2, <3>1, DoneThen
    <3> QED BY <3>1, <3>2
  <2> QED BY <2>1, <2>2
<1>2. ASSUME NEW t \in Requests, NEW table \in {"scan", "report"}, db'[<<table, t>>] # Absent
      PROVE  t \in Done(Both)'
  <2>1. <<table, t>> \in RowIds
    BY RowsThereAre DEF ScanRow
  <2>2. db[<<table, t>>] # Absent => t \in Done(Both)
    BY DEF TablesAudited
  <2>3. Holds(r, <<table, t>>) => t = r /\ call[r].job \in Both
    BY DEF TableDrafts
  <2> HIDE DEF Both
  <2> QED BY <1>1, <1>2, <2>1, <2>2, <2>3
<1> QED BY <1>2 DEF TablesAudited

LEMMA PlatformStep ==
    ASSUME TypeOK, Stages, Sessions, Audits, PlatformInv, NEW r \in Requests, Step(r)
    PROVE  PlatformInv'
BY AccessDraftsStep, DecisionDraftsStep, TableDraftsStep, PoliciesStep, ProposalsStep,
   TablesStep DEF PlatformInv

------------------------------------------------------------------------------
(* Keys *)

\* What a request has loaded of the keys, and what it has made of them.
KeysLoaded ==
    \A t \in Requests :
        pc[t] \in {"deactivate_keys", "insert_key"} \cup Last /\ call[t].job = "set_key" =>
            \A k \in loaded[t] : db[KeyRow(k)] # Absent /\ ScopeOf(k) = ScopeOfCall(t)

KeysInserted ==
    \A t \in Requests :
        pc[t] \in Last /\ call[t].job = "set_key" => writes[t][KeyRow(t)] = "active"

KeysDropped ==
    \A t \in Requests :
        (pc[t] \in {"drop_key"} \cup Last \/ InAudit(t)) /\ call[t].job = "drop_key" =>
            db[KeyRow(call[t].item)] # Absent

KeyDrafts ==
    \A t \in Requests, k \in KeyIds : Holds(t, KeyRow(k)) =>
        /\ writes[t][KeyRow(k)] \in {"active", "inactive"}
        /\ \/ call[t].job = "set_key" /\ (k = t \/ k \in loaded[t])
           \/ call[t].job = "drop_key" /\ k = call[t].item

KeyOwners ==
    \A k \in Requests : db[KeyRow(k)] # Absent => call[k].job = "set_key" /\ InAudit(k)

KeyInv == KeysLoaded /\ KeysInserted /\ KeysDropped /\ KeyDrafts /\ KeyOwners

LEMMA KeyAdded ==
    ASSUME NEW r \in Requests, NEW k \in KeyIds, Added(r, KeyRow(k))
    PROVE  \/ /\ pc[r] = "deactivate_keys" /\ call[r].job = "set_key" /\ k \in loaded[r]
              /\ writes'[r][KeyRow(k)] = "inactive"
           \/ /\ pc[r] = "insert_key" /\ call[r].job = "set_key" /\ k = r
              /\ writes'[r][KeyRow(k)] = "active"
           \/ /\ pc[r] = "drop_key" /\ call[r].job = "drop_key" /\ k = call[r].item
              /\ writes'[r][KeyRow(k)] = "inactive"
BY DEF Added, AccountRow, RoleRow, KeyRow, ScanRow, InventoryRow, ProposalRows, AuditRow

\* A key stays, active or not, and so does the scope that it is for.
LEMMA KeysStay ==
    ASSUME TypeOK, Stages, Sessions, Audits, RightsInv, KeyInv, NEW r \in Requests, Step(r),
           NEW k \in KeyIds, db[KeyRow(k)] # Absent
    PROVE  /\ db'[KeyRow(k)] # Absent
           /\ ScopeOf(k)' = ScopeOf(k)
<1>0. KeyRow(k) \in RowIds
  BY RowsThereAre
<1>1. db'[KeyRow(k)] # Absent
  <2>1. CASE db'[KeyRow(k)] = db[KeyRow(k)]
    BY <2>1
  <2>2. CASE db'[KeyRow(k)] # db[KeyRow(k)]
    <3>1. Holds(r, KeyRow(k)) /\ db'[KeyRow(k)] = writes[r][KeyRow(k)]
      BY <1>0, <2>2, Stored
    <3>2. writes[r][KeyRow(k)] \in {"active", "inactive"}
      BY <3>1 DEF KeyInv, KeyDrafts
    <3> QED BY <3>1, <3>2, Marks
  <2> QED BY <2>1, <2>2
<1>2. CASE k \in OldKeys
  BY <1>1, <1>2 DEF ScopeOf
<1>3. CASE k \notin OldKeys
  <2>1. k \in Requests
    BY <1>3 DEF KeyIds
  <2>2. Entitled(k)
    BY <2>1 DEF KeyInv, KeyOwners, RightsInv, Entries
  <2>3. ScopeOfCall(k)' = ScopeOfCall(k)
    BY <2>1, <2>2, CallerStays DEF Entitled
  <2> QED BY <1>1, <1>3, <2>3 DEF ScopeOf
<1> QED BY <1>2, <1>3

LEMMA KeysLoadedStep ==
    ASSUME TypeOK, Stages, Sessions, Audits, RightsInv, KeyInv, NEW r \in Requests, Step(r)
    PROVE  KeysLoaded'
<1>c. call' = call
  BY CallStays
<1>1. ASSUME NEW t \in Requests, NEW k \in KeyIds, Entitled(t),
             db[KeyRow(k)] # Absent, ScopeOf(k) = ScopeOfCall(t)
      PROVE  db'[KeyRow(k)] # Absent /\ ScopeOf(k)' = ScopeOfCall(t)'
  <2>1. ScopeOfCall(t)' = ScopeOfCall(t)
    BY <1>1, CallerStays DEF Entitled
  <2>2. db'[KeyRow(k)] # Absent /\ ScopeOf(k)' = ScopeOf(k)
    BY <1>1, KeysStay
  <2> QED BY <1>1, <2>1, <2>2
<1>2. ASSUME NEW t \in Requests, call[t].job = "set_key",
             pc'[t] \in {"deactivate_keys", "insert_key"} \cup Last, NEW k \in loaded'[t]
      PROVE  /\ k \in KeyIds /\ Entitled(t)
             /\ db[KeyRow(k)] # Absent /\ ScopeOf(k) = ScopeOfCall(t)
  <2>1. CASE /\ pc[t] \in {"deactivate_keys", "insert_key"} \cup Last
             /\ loaded'[t] = loaded[t]
    <3>1. k \in KeyIds
      BY <1>2, <2>1 DEF Stages
    <3>2. Entitled(t)
      BY <2>1 DEF RightsInv, Entries, Last
    <3> QED BY <1>2, <2>1, <3>1, <3>2 DEF KeyInv, KeysLoaded
  <2>2. CASE t = r /\ Quiet(r)
    <3>1. LoadActiveKeys(r)
      BY <1>2, <2>2, QuietFacts
         DEF QuietMove, Last, LoadUser, LoadKey, LookForAccess, Begins
    <3>2. k \in ActiveKeys(r)
      BY <1>2, <2>2, <3>1, Domains DEF LoadActiveKeys
    <3>3. Entitled(r)
      BY <3>1 DEF LoadActiveKeys, Begins, RightsInv, Entries
    <3>4. k \in KeyIds /\ db[KeyRow(k)] = "active" /\ ScopeOf(k) = ScopeOfCall(r)
      BY <3>2 DEF ActiveKeys, KeyRow
    <3> QED BY <2>2, <3>3, <3>4, Marks
  <2>3. CASE t = r /\ (Ends(r) \/ Commits(r))
    BY <1>2, <2>3, EndsFacts, CommitsFacts, Domains DEF Last
  <2>4. CASE t = r /\ Writes(r)
    <3>1. pc[r] \in {"deactivate_keys", "insert_key", "audit"} /\ loaded' = loaded
      BY <1>2, <2>4, WritesJob, WritesFacts DEF locals
    <3> QED BY <2>1, <2>4, <3>1 DEF Last
  <2>5. CASE t # r
    BY <1>2, <2>1, <2>5, OthersStay
  <2> QED BY <2>2, <2>3, <2>4, <2>5, StepIs
<1>3. ASSUME NEW t \in Requests, call[t].job = "set_key",
             pc'[t] \in {"deactivate_keys", "insert_key"} \cup Last, NEW k \in loaded'[t]
      PROVE  db'[KeyRow(k)] # Absent /\ ScopeOf(k)' = ScopeOfCall(t)'
  BY <1>1, <1>2, <1>3
<1> QED BY <1>c, <1>3 DEF KeysLoaded, KeyRow, Last

LEMMA KeysInsertedStep ==
    ASSUME TypeOK, Stages, Sessions, KeyInv, NEW r \in Requests, Step(r)
    PROVE  KeysInserted'
<1>c. call' = call
  BY CallStays
<1>0. \A t \in Requests : KeyRow(t) \in RowIds /\ t \in KeyIds
  BY RowsThereAre DEF KeyIds
<1> SUFFICES ASSUME NEW t \in Requests, pc'[t] \in Last, call[t].job = "set_key"
             PROVE  writes'[t][KeyRow(t)] = "active"
  BY <1>c DEF KeysInserted, KeyRow, Last
<1>1. CASE t # r
  BY <1>0, <1>1, OthersStay DEF KeyInv, KeysInserted
<1>2. CASE t = r /\ Quiet(r)
  BY <1>2, QuietFacts DEF QuietMove, Last, LoadUser, LoadKey, LookForAccess, Begins
<1>3. CASE t = r /\ (Ends(r) \/ Commits(r))
  BY <1>3, EndsFacts, CommitsFacts, Domains DEF Last
<1>4. CASE t = r /\ Writes(r)
  <2>1. CASE pc[r] = "insert_key"
    BY <1>4, <2>1, Written
  <2>2. CASE pc[r] = "audit"
    <3>1. ~Added(r, KeyRow(r))
      BY <1>0, <2>2, KeyAdded
    <3> QED BY <1>0, <1>4, <2>2, <3>1, WritesKeep DEF KeyInv, KeysInserted, Last
  <2>3. CASE pc[r] \notin {"insert_key", "audit"}
    <3>1. pc[r] = "deactivate_keys"
      BY <1>4, <2>3, WritesJob
    <3> QED BY <1>4, <3>1, Written DEF Last
  <2> QED BY <2>1, <2>2, <2>3
<1> QED BY <1>1, <1>2, <1>3, <1>4, StepIs

LEMMA KeysDroppedStep ==
    ASSUME TypeOK, Stages, Sessions, Audits, RightsInv, KeyInv, NEW r \in Requests, Step(r)
    PROVE  KeysDropped'
<1>c. call' = call
  BY CallStays
<1> SUFFICES ASSUME NEW t \in Requests, call[t].job = "drop_key",
                    pc'[t] \in {"drop_key"} \cup Last \/ db'[AuditRow(t)] # Absent
             PROVE  db'[KeyRow(call[t].item)] # Absent
  BY <1>c DEF KeysDropped, InAudit, AuditRow, KeyRow, Last
<1>0. PICK k \in KeyIds : k = call[t].item
  BY CallType, Domains
<1>1. db[KeyRow(k)] # Absent
  <2>1. CASE pc[t] \in {"drop_key"} \cup Last \/ InAudit(t)
    BY <1>0, <2>1 DEF KeyInv, KeysDropped
  <2>2. CASE ~InAudit(t) /\ db'[AuditRow(t)] # Absent
    <3>1. AuditRow(t) \in RowIds /\ db'[AuditRow(t)] # db[AuditRow(t)]
      BY <2>2, RowsThereAre DEF InAudit
    <3>2. Holds(r, AuditRow(t)) /\ pc[r] = "early_commit"
      BY <3>1, Stored
    <3>3. t = r
      BY <3>2 DEF Audits
    <3> QED BY <2>1, <3>2, <3>3 DEF Last
  <2>3. CASE pc[t] \notin {"drop_key"} \cup Last /\ pc'[t] \in {"drop_key"} \cup Last
    <3>1. t = r
      BY <2>3, OthersStay
    <3>2. CASE Quiet(r)
      <4>1. LoadKey(r)
        BY <2>3, <3>1, <3>2, QuietFacts
           DEF QuietMove, Last, LoadUser, LookForAccess, Begins
      <4> QED BY <1>0, <3>1, <4>1 DEF LoadKey, MayDrop, KeyRow
    <3>3. CASE Ends(r) \/ Commits(r)
      BY <2>3, <3>1, <3>3, EndsFacts, CommitsFacts, Domains DEF Last
    <3>4. CASE Writes(r)
      BY <2>3, <3>1, <3>4, WritesJob DEF Last
    <3> QED BY <3>2, <3>3, <3>4, StepIs
  <2> QED BY <2>1, <2>2, <2>3
<1>2. db'[KeyRow(k)] # Absent
  BY <1>1, KeysStay
<1> QED BY <1>0, <1>2

LEMMA KeyDraftsStep ==
    ASSUME TypeOK, Stages, Sessions, KeyInv, NEW r \in Requests, Step(r)
    PROVE  KeyDrafts'
<1>c. call' = call
  BY CallStays
<1> SUFFICES ASSUME NEW t \in Requests, NEW k \in KeyIds, writes'[t][KeyRow(k)] # Untouched
             PROVE  /\ writes'[t][KeyRow(k)] \in {"active", "inactive"}
                    /\ \/ call[t].job = "set_key" /\ (k = t \/ k \in loaded'[t])
                       \/ call[t].job = "drop_key" /\ k = call[t].item
  BY <1>c DEF KeyDrafts, Holds, KeyRow
<1>0. KeyRow(k) \in RowIds
  BY RowsThereAre
<1>1. CASE Holds(t, KeyRow(k)) /\ writes'[t][KeyRow(k)] = writes[t][KeyRow(k)]
  <2>1. pc[t] \in Writing
    BY <1>0, <1>1 DEF Sessions
  <2>2. loaded'[t] = loaded[t]
    <3>1. CASE t # r
      BY <3>1, OthersStay
    <3>2. CASE t = r
      <4>1. ~Quiet(r)
        BY <2>1, <3>2, QuietFacts DEF QuietMove, Writing
      <4> QED BY <3>2, <4>1, StepIs, EndsFacts, WritesFacts, CommitsFacts DEF locals
    <3> QED BY <3>1, <3>2
  <2> QED BY <1>1, <2>2 DEF KeyInv, KeyDrafts
<1>2. CASE t = r /\ Writes(r) /\ Added(r, KeyRow(k))
  <2>1. loaded' = loaded
    BY <1>2, WritesFacts DEF locals
  <2> QED BY <1>2, <2>1, KeyAdded
<1> QED BY <1>0, <1>1, <1>2, HeldThen

\* A key that is stored by a commit, and that was not there.
LEMMA KeyStored ==
    ASSUME TypeOK, Stages, Sessions, Audits, KeyInv, NEW r \in Requests, Step(r),
           NEW k \in KeyIds, db[KeyRow(k)] = Absent, db'[KeyRow(k)] # Absent
    PROVE  /\ k = r /\ call[r].job = "set_key"
           /\ db'[KeyRow(k)] = "active" /\ db'[AuditRow(r)] # Absent
<1>1. /\ Holds(r, KeyRow(k)) /\ db'[KeyRow(k)] = writes[r][KeyRow(k)]
      /\ pc[r] = "early_commit" /\ db'[AuditRow(r)] # Absent
  BY RowsThereAre, Stored
<1>2. \/ call[r].job = "set_key" /\ (k = r \/ k \in loaded[r])
      \/ call[r].job = "drop_key" /\ k = call[r].item
  BY <1>1 DEF KeyInv, KeyDrafts
<1>3. ~(call[r].job = "drop_key" /\ k = call[r].item)
  BY <1>1 DEF KeyInv, KeysDropped, Last
<1>4. ~(call[r].job = "set_key" /\ k \in loaded[r])
  BY <1>1 DEF KeyInv, KeysLoaded, Last
<1> QED BY <1>1, <1>2, <1>3, <1>4 DEF KeyInv, KeysInserted, Last

LEMMA KeyOwnersStep ==
    ASSUME TypeOK, Stages, Sessions, Audits, RightsInv, KeyInv, NEW r \in Requests, Step(r)
    PROVE  KeyOwners'
<1>c. call' = call
  BY CallStays
<1> SUFFICES ASSUME NEW k \in Requests, db'[KeyRow(k)] # Absent
             PROVE  call[k].job = "set_key" /\ db'[AuditRow(k)] # Absent
  BY <1>c DEF KeyOwners, InAudit, AuditRow, KeyRow
<1>0. k \in KeyIds
  BY DEF KeyIds
<1>1. CASE db[KeyRow(k)] # Absent
  <2>1. call[k].job = "set_key" /\ InAudit(k)
    BY <1>1 DEF KeyInv, KeyOwners
  <2> QED BY <2>1, AuditedStays
<1>2. CASE db[KeyRow(k)] = Absent
  BY <1>0, <1>2, KeyStored
<1> QED BY <1>1, <1>2

LEMMA KeysStep ==
    ASSUME TypeOK, Stages, Sessions, Audits, RightsInv, KeyInv, NEW r \in Requests, Step(r)
    PROVE  KeyInv'
BY KeysLoadedStep, KeysInsertedStep, KeysDroppedStep, KeyDraftsStep, KeyOwnersStep
   DEF KeyInv

LEMMA UsableStep ==
    ASSUME TypeOK, Stages, Sessions, Audits, RightsInv, KeyInv, KeysStayUsable,
           NEW r \in Requests, Step(r)
    PROVE  KeysStayUsable'
<1>c. call' = call
  BY CallStays
<1> SUFFICES ASSUME NEW s \in Scopes, NEW n \in KeyIds, ScopeOf(n)' = {s},
                    db'[KeyRow(n)] # Absent,
                    \A t \in Done({"drop_key"})' : ScopeOf(call[t].item)' # {s}
             PROVE  \E k \in KeyIds : ScopeOf(k)' = {s} /\ db'[KeyRow(k)] = "active"
  BY DEF KeysStayUsable, KeyRow
<1>0. \A k \in KeyIds : KeyRow(k) \in RowIds
  BY RowsThereAre
<1>1. CASE db[KeyRow(n)] = Absent
  BY <1>1, KeyStored
<1>2. CASE db[KeyRow(n)] # Absent
  <2>1. ScopeOf(n) = {s}
    BY <1>2, KeysStay
  <2>2. ASSUME NEW t \in Done({"drop_key"})
        PROVE  ScopeOf(call[t].item) # {s}
    <3>1. t \in Requests /\ call[t].job = "drop_key" /\ InAudit(t)
      BY DEF Done, InAudit, AuditRow
    <3>2. PICK k \in KeyIds : k = call[t].item
      BY <3>1, CallType, Domains
    <3>3. db[KeyRow(k)] # Absent
      BY <3>1, <3>2 DEF KeyInv, KeysDropped
    <3>4. ScopeOf(k)' = ScopeOf(k)
      BY <3>3, KeysStay
    <3>5. t \in Done({"drop_key"})'
      BY DoneStays
    <3>6. ScopeOf(call[t].item)' = ScopeOf(k)'
      BY <1>c, <3>2 DEF ScopeOf, ScopeOfCall, HomeOf, MemberOf
    <3> QED BY <3>2, <3>4, <3>5, <3>6
  <2>3. PICK a \in KeyIds : ScopeOf(a) = {s} /\ db[KeyRow(a)] = "active"
    BY <1>2, <2>1, <2>2 DEF KeysStayUsable, KeyRow
  <2>4. ScopeOf(a)' = {s}
    BY <2>3, KeysStay, Marks
  <2>5. CASE db'[KeyRow(a)] = db[KeyRow(a)]
    BY <2>3, <2>4, <2>5
  <2>6. CASE db'[KeyRow(a)] # db[KeyRow(a)]
    <3>1. /\ Holds(r, KeyRow(a)) /\ pc[r] = "early_commit" /\ Commits(r)
          /\ db'[AuditRow(r)] # Absent
      BY <1>0, <2>6, Stored
    <3>2. CASE call[r].job = "set_key" /\ (a = r \/ a \in loaded[r])
      <4>1. r \in KeyIds /\ r \notin OldKeys
        BY AdministrationAssumption DEF KeyIds
      <4>2. writes[r][KeyRow(r)] = "active"
        BY <3>1, <3>2 DEF KeyInv, KeysInserted, Last
      <4>3. db'[KeyRow(r)] = "active"
        BY <1>0, <3>1, <4>1, <4>2, CommitsFacts, Marks DEF Holds
      <4>4. ScopeOfCall(r) = {s}
        <5>1. CASE a = r
          BY <2>3, <4>1, <5>1 DEF ScopeOf
        <5>2. CASE a \in loaded[r]
          BY <2>3, <3>1, <3>2, <5>2 DEF KeyInv, KeysLoaded, Last
        <5> QED BY <3>2, <5>1, <5>2
      <4>5. Entitled(r)
        BY <3>1 DEF RightsInv, Entries
      <4>6. ScopeOfCall(r)' = {s}
        BY <4>4, <4>5, CallerStays DEF Entitled
      <4>7. ScopeOf(r)' = {s}
        BY <4>1, <4>6 DEF ScopeOf
      <4> QED BY <4>1, <4>3, <4>7
    <3>3. CASE call[r].job = "drop_key" /\ a = call[r].item
      <4>1. r \in Done({"drop_key"})'
        BY <1>c, <3>1, <3>3 DEF Done, AuditRow
      <4>2. ScopeOf(call[r].item)' = ScopeOf(a)'
        BY <1>c, <3>3 DEF ScopeOf, ScopeOfCall, HomeOf, MemberOf
      <4> QED BY <2>4, <4>1, <4>2
    <3> QED BY <3>1, <3>2, <3>3 DEF KeyInv, KeyDrafts
  <2> QED BY <2>5, <2>6
<1> QED BY <1>1, <1>2

------------------------------------------------------------------------------
(* Scans *)

Started(t) == \E i \in DOMAIN began : began[i] = t

\* i is the last one of S in the sequence b.
LastOf(b, S, i) ==
    /\ i \in DOMAIN b /\ b[i] \in S
    /\ \A j \in DOMAIN b : b[j] \in S => j <= i

\* A transaction begins once, and of those that have begun one is the last.
Beginnings ==
    /\ \A i, j \in DOMAIN began : began[i] = began[j] => i = j
    /\ \A t \in Requests : pc[t] = "idle" => ~Started(t)
    /\ \A t \in Requests :
          call[t].job = "scan" /\ pc[t] \in {"begin", "currency"} \cup Last => Started(t)
    /\ \A S \in SUBSET Requests :
          (\E t \in S : Started(t)) => \E i \in DOMAIN began : LastOf(began, S, i)

ScanDrafts ==
    /\ \A s, t \in Requests : Holds(t, ScanRow(s)) \/ Holds(t, InventoryRow(s)) =>
          s = t /\ call[t].job = "scan"
    /\ \A t \in Requests : pc[t] = "currency" => ~Holds(t, InventoryRow(t))
    /\ \A t \in Requests : pc[t] \in Last /\ call[t].job = "scan" =>
          /\ writes[t][ScanRow(t)] \in {"failed", "ok", "partial"}
          /\ IF writes[t][ScanRow(t)] = "failed" THEN ~Holds(t, InventoryRow(t))
             ELSE writes[t][InventoryRow(t)] \in Contents

ScansStored ==
    /\ \A t \in Requests : db[ScanRow(t)] # Absent \/ db[InventoryRow(t)] # Absent =>
          InAudit(t) /\ Started(t)
    /\ \A t \in Requests :
          db[InventoryRow(t)] # Absent <=> db[ScanRow(t)] \in {"ok", "partial"}

ScanInv == Beginnings /\ ScanDrafts /\ ScansStored

\* What CHOOSE finds is the last one.
LEMMA LastIs ==
    ASSUME NEW b \in Seq(Requests), NEW S \in SUBSET Requests, NEW i, LastOf(b, S, i)
    PROVE  LET Starts == {j \in DOMAIN b : b[j] \in S}
           IN  b[CHOOSE j \in Starts : \A n \in Starts : n <= j] = b[i]
<1> DEFINE Starts == {j \in DOMAIN b : b[j] \in S}
           c == CHOOSE j \in Starts : \A n \in Starts : n <= j
<1>1. i \in Starts /\ \A n \in Starts : n <= i
  BY DEF LastOf
<1>2. c \in Starts /\ \A n \in Starts : n <= c
  BY <1>1
<1>3. i \in Nat /\ c \in Nat
  BY <1>1, <1>2
<1>4. c = i
  BY <1>1, <1>2, <1>3
<1> QED BY <1>4

\* The latest of some scans that are stored is one of them.
LEMMA LatestOf ==
    ASSUME TypeOK, Beginnings, ScansStored, NEW S \in SUBSET Requests,
           \A s \in S : db[ScanRow(s)] # Absent
    PROVE  /\ Latest(S) \in S \cup {Absent}
           /\ S # {} => \E i \in DOMAIN began : LastOf(began, S, i) /\ Latest(S) = began[i]
           /\ S # {} => Latest(S) \in S
<1>1. CASE S = {}
  BY <1>1 DEF Latest
<1>2. CASE S # {}
  <2>1. PICK i \in DOMAIN began : LastOf(began, S, i)
    BY <1>2 DEF ScansStored, Beginnings
  <2>2. PICK b \in Seq(Requests) : b = began
    BY Domains
  <2>3. Latest(S) = began[i]
    BY <1>2, <2>1, <2>2, LastIs DEF Latest
  <2>4. began[i] \in S
    BY <2>1 DEF LastOf
  <2> QED BY <1>2, <2>1, <2>3, <2>4
<1> QED BY <1>1, <1>2

\* A scan begins at the end of the sequence, once.
LEMMA BeganMoves ==
    ASSUME TypeOK, Stages, NEW r \in Requests, Step(r)
    PROVE  /\ began' \in Seq(Requests)
           /\ \/ began' = began
              \/ pc[r] = "idle" /\ pc'[r] = "begin" /\ began' = Append(began, r)
           /\ pc[r] = "idle" /\ pc'[r] = "begin" /\ call[r].job = "scan" =>
                 began' = Append(began, r)
<1>0. began \in Seq(Requests)
  BY Domains
<1>1. CASE Resolve(r)
  BY <1>0, <1>1, Domains DEF Resolve, GoTo
<1>2. CASE ~Resolve(r)
  <2>1. began' = began
    BY <1>2, StepIs, QuietFacts, EndsFacts, WritesFacts, CommitsFacts
  <2>2. ~(pc[r] = "idle" /\ pc'[r] = "begin")
    <3>1. CASE Quiet(r)
      BY <1>2, <3>1, QuietFacts DEF QuietMove
    <3>2. CASE Ends(r) \/ Writes(r) \/ Commits(r)
      BY <3>2, EndsFacts, WritesFacts, CommitsFacts, Domains
    <3> QED BY <3>1, <3>2, StepIs
  <2> QED BY <1>0, <2>1, <2>2
<1> QED BY <1>1, <1>2

LEMMA AppendShows ==
    ASSUME NEW b \in Seq(Requests), NEW r \in Requests
    PROVE  /\ DOMAIN b = 1..Len(b) /\ Len(b) \in Nat
           /\ DOMAIN Append(b, r) = 1..(Len(b) + 1)
           /\ \A i \in DOMAIN b : i \in DOMAIN Append(b, r) /\ Append(b, r)[i] = b[i]
           /\ Len(b) + 1 \in DOMAIN Append(b, r) /\ Append(b, r)[Len(b) + 1] = r
           /\ \A i \in DOMAIN Append(b, r) : i \in DOMAIN b \/ i = Len(b) + 1
OBVIOUS

\* The last of some that have begun stays so when another begins.
LEMMA LastStays ==
    ASSUME NEW b \in Seq(Requests), NEW r \in Requests, NEW S \in SUBSET Requests,
           r \notin S, NEW i, LastOf(b, S, i)
    PROVE  LastOf(Append(b, r), S, i)
BY AppendShows DEF LastOf

LEMMA LastAppended ==
    ASSUME NEW b \in Seq(Requests), NEW r \in Requests, NEW S \in SUBSET Requests, r \in S
    PROVE  LastOf(Append(b, r), S, Len(b) + 1)
<1>1. /\ DOMAIN Append(b, r) = 1..(Len(b) + 1) /\ Len(b) \in Nat
      /\ Append(b, r)[Len(b) + 1] = r
  BY AppendShows
<1> QED BY <1>1 DEF LastOf

\* Who has begun has begun.
LEMMA StartedStays ==
    ASSUME TypeOK, Stages, NEW r \in Requests, Step(r), NEW t \in Requests, Started(t)
    PROVE  Started(t)'
<1>1. PICK b \in Seq(Requests) : b = began
  BY Domains
<1>2. CASE began' = began
  BY <1>2 DEF Started
<1>3. CASE began' = Append(began, r)
  <2>1. PICK i \in DOMAIN b : b[i] = t
    BY <1>1 DEF Started
  <2>2. i \in DOMAIN began' /\ began'[i] = t
    BY <1>1, <1>3, <2>1, AppendShows
  <2> QED BY <2>2 DEF Started
<1> QED BY <1>2, <1>3, BeganMoves

LEMMA BeginningsStep ==
    ASSUME TypeOK, Stages, Sessions, Beginnings, NEW r \in Requests, Step(r)
    PROVE  Beginnings'
<1>c. call' = call
  BY CallStays
<1>b. PICK b \in Seq(Requests) : b = began
  BY Domains
<1>a. \/ began' = b
      \/ pc[r] = "idle" /\ pc'[r] = "begin" /\ began' = Append(b, r)
  BY <1>b, BeganMoves
<1>n. pc[r] = "idle" => \A i \in DOMAIN b : b[i] # r
  BY <1>b DEF Beginnings, Started
<1>1. \A i, j \in DOMAIN began' : began'[i] = began'[j] => i = j
  <2>1. CASE began' = b
    BY <1>b, <2>1 DEF Beginnings
  <2>2. CASE pc[r] = "idle" /\ began' = Append(b, r)
    <3>1. \A i, j \in DOMAIN b : b[i] = b[j] => i = j
      BY <1>b DEF Beginnings
    <3> QED BY <1>n, <2>2, <3>1, AppendShows
  <2> QED BY <1>a, <2>1, <2>2
<1>2. ASSUME NEW t \in Requests, pc'[t] = "idle", Started(t)'
      PROVE  FALSE
  <2>1. t # r
    <3>1. CASE Quiet(r)
      BY <1>2, <3>1, QuietFacts DEF QuietMove
    <3>2. CASE Ends(r) \/ Writes(r) \/ Commits(r)
      BY <1>2, <3>2, EndsFacts, WritesFacts, CommitsFacts, Domains DEF Writing
    <3> QED BY <3>1, <3>2, StepIs
  <2>2. pc[t] = "idle"
    BY <1>2, <2>1, OthersStay
  <2>3. \A i \in DOMAIN b : b[i] # t
    BY <1>b, <2>2 DEF Beginnings, Started
  <2>4. \A i \in DOMAIN began' : began'[i] # t
    BY <1>a, <2>1, <2>3, AppendShows
  <2> QED BY <1>2, <2>4 DEF Started
<1>3. ASSUME NEW t \in Requests, call[t].job = "scan",
             pc'[t] \in {"begin", "currency"} \cup Last
      PROVE  Started(t)'
  <2>1. CASE pc[t] \in {"begin", "currency"} \cup Last
    BY <1>3, <2>1, StartedStays DEF Beginnings
  <2>2. CASE pc[t] \notin {"begin", "currency"} \cup Last
    <3>1. t = r
      BY <1>3, <2>2, OthersStay
    <3>2. pc[r] = "idle" /\ pc'[r] = "begin"
      <4>1. CASE Quiet(r)
        BY <1>3, <2>2, <3>1, <4>1, QuietFacts DEF QuietMove, Last
      <4>2. CASE Ends(r) \/ Commits(r)
        BY <1>3, <3>1, <4>2, EndsFacts, CommitsFacts, Domains DEF Last
      <4>3. CASE Writes(r)
        BY <1>3, <2>2, <3>1, <4>3, WritesJob DEF Last
      <4> QED BY <4>1, <4>2, <4>3, StepIs
    <3>3. began' = Append(b, r)
      BY <1>3, <1>b, <3>1, <3>2, BeganMoves
    <3>4. Len(b) + 1 \in DOMAIN began' /\ began'[Len(b) + 1] = r
      BY <3>3, AppendShows
    <3> QED BY <3>1, <3>4 DEF Started
  <2> QED BY <2>1, <2>2
<1>4. ASSUME NEW S \in SUBSET Requests, NEW t \in S, Started(t)'
      PROVE  \E i \in DOMAIN began' : LastOf(began', S, i)
  <2>1. CASE began' = b
    <3>1. Started(t)
      BY <1>4, <1>b, <2>1 DEF Started
    <3> QED BY <1>b, <2>1, <3>1 DEF Beginnings
  <2>2. CASE began' = Append(b, r) /\ r \in S
    BY <2>2, LastAppended, AppendShows
  <2>3. CASE began' = Append(b, r) /\ r \notin S
    <3>1. Started(t)
      <4>1. PICK i \in DOMAIN began' : began'[i] = t
        BY <1>4 DEF Started
      <4>2. i \in DOMAIN b /\ b[i] = t
        BY <1>4, <2>3, <4>1, AppendShows
      <4> QED BY <1>b, <4>2 DEF Started
    <3>2. PICK i \in DOMAIN b : LastOf(b, S, i)
      BY <1>b, <3>1 DEF Beginnings
    <3>3. LastOf(Append(b, r), S, i) /\ i \in DOMAIN Append(b, r)
      BY <2>3, <3>2, LastStays, AppendShows
    <3> QED BY <2>3, <3>3
  <2> QED BY <1>a, <2>1, <2>2, <2>3
<1> QED BY <1>c, <1>1, <1>2, <1>3, <1>4 DEF Beginnings, Last

LEMMA ScanAdded ==
    ASSUME NEW r \in Requests, NEW s \in Requests
    PROVE  /\ Added(r, ScanRow(s)) =>
                 s = r /\ call[r].job = "scan" /\ pc[r] \in {"begin", "currency"}
           /\ Added(r, InventoryRow(s)) =>
                 s = r /\ call[r].job = "scan" /\ pc[r] = "currency"
BY DEF Added, AccountRow, RoleRow, KeyRow, ScanRow, InventoryRow, ProposalRows, AuditRow

\* PyPI is asked once pip-audit has answered.
LEMMA Leads ==
    ASSUME TypeOK, NEW r \in Requests, Writes(r), pc'[r] = "currency"
    PROVE  pc[r] = "begin"
<1>1. PICK K \in SUBSET RowIds, phase \in Phases : \E f \in [K -> Contents] :
         FlushEach(r, f, phase) /\ RowsOf(r, K, f, phase)
  BY DEF Writes
<1>2. PICK f \in [K -> Contents] : FlushEach(r, f, phase) /\ RowsOf(r, K, f, phase)
  BY <1>1
<1>3. pc' = [pc EXCEPT ![r] = phase]
  BY <1>2, FlushShows
<1>4. pc'[r] = phase
  BY <1>3, Domains
<1> QED BY <1>2, <1>4 DEF RowsOf

LEMMA ScanDraftsStep ==
    ASSUME TypeOK, Stages, Sessions, ScanDrafts, NEW r \in Requests, Step(r)
    PROVE  ScanDrafts'
<1>c. call' = call
  BY CallStays
<1>0. \A s \in Requests : ScanRow(s) \in RowIds /\ InventoryRow(s) \in RowIds
  BY RowsThereAre
<1>1. ASSUME NEW s \in Requests, NEW t \in Requests,
             NEW k \in {ScanRow(s), InventoryRow(s)}, writes'[t][k] # Untouched
      PROVE  s = t /\ call[t].job = "scan"
  <2>0. k \in RowIds
    BY <1>0
  <2>1. CASE Holds(t, k)
    BY <2>1 DEF ScanDrafts
  <2>2. CASE t = r /\ Added(r, k)
    BY <2>2, ScanAdded
  <2> QED BY <1>1, <2>0, <2>1, <2>2, HeldThen
<1>w. ASSUME Writes(r), NEW k \in {ScanRow(r), InventoryRow(r)}, pc[r] = "audit"
      PROVE  writes'[r][k] = writes[r][k]
  <2>1. ~Added(r, k)
    BY <1>w, ScanAdded
  <2> QED BY <1>0, <1>w, <2>1, WritesKeep
<1>n. ASSUME Writes(r), pc[r] = "begin"
      PROVE  writes'[r][InventoryRow(r)] = Untouched
  <2>1. ~Added(r, InventoryRow(r))
    BY <1>n, ScanAdded
  <2>2. ~Holds(r, InventoryRow(r))
    BY <1>0, <1>n DEF Sessions, Writing
  <2> QED BY <1>0, <1>n, <2>1, <2>2, WritesKeep DEF Holds
<1>2. ASSUME NEW t \in Requests, pc'[t] = "currency"
      PROVE  writes'[t][InventoryRow(t)] = Untouched
  <2>1. CASE t # r
    BY <1>0, <1>2, <2>1, OthersStay DEF ScanDrafts, Holds
  <2>2. CASE t = r /\ ~Writes(r)
    <3>1. CASE Quiet(r)
      BY <1>2, <2>2, <3>1, QuietFacts DEF QuietMove
    <3>2. CASE Ends(r) \/ Commits(r)
      BY <1>2, <2>2, <3>2, EndsFacts, CommitsFacts, Domains
    <3> QED BY <2>2, <3>1, <3>2, StepIs
  <2>3. CASE t = r /\ Writes(r)
    <3>1. pc[r] = "begin"
      BY <1>2, <2>3, Leads
    <3> QED BY <1>n, <2>3, <3>1
  <2> QED BY <2>1, <2>2, <2>3
<1>3. ASSUME NEW t \in Requests, pc'[t] \in Last, call[t].job = "scan"
      PROVE  /\ writes'[t][ScanRow(t)] \in {"failed", "ok", "partial"}
             /\ IF writes'[t][ScanRow(t)] = "failed"
                THEN writes'[t][InventoryRow(t)] = Untouched
                ELSE writes'[t][InventoryRow(t)] \in Contents
  <2>1. CASE t # r
    <3>1. /\ pc[t] \in Last /\ writes'[t][ScanRow(t)] = writes[t][ScanRow(t)]
          /\ writes'[t][InventoryRow(t)] = writes[t][InventoryRow(t)]
      BY <1>0, <1>3, <2>1, OthersStay
    <3> QED BY <1>3, <3>1 DEF ScanDrafts, Holds
  <2>2. CASE t = r /\ ~Writes(r)
    <3>1. CASE Quiet(r)
      BY <1>3, <2>2, <3>1, QuietFacts
         DEF QuietMove, Last, LoadUser, LoadKey, LookForAccess, Begins
    <3>2. CASE Ends(r) \/ Commits(r)
      BY <1>3, <2>2, <3>2, EndsFacts, CommitsFacts, Domains DEF Last
    <3> QED BY <2>2, <3>1, <3>2, StepIs
  <2>3. CASE t = r /\ Writes(r)
    <3>1. pc[r] \in {"begin", "currency", "audit"}
      BY <1>3, <2>3, WritesJob
    <3>2. CASE pc[r] = "begin"
      <4>1. writes'[r][ScanRow(r)] = "failed"
        BY <1>3, <2>3, <3>2, Written DEF Last
      <4> QED BY <1>n, <2>3, <3>2, <4>1
    <3>3. CASE pc[r] = "currency"
      BY <2>3, <3>3, Written, Marks
    <3>4. CASE pc[r] = "audit"
      <4>1. /\ writes'[r][ScanRow(r)] = writes[r][ScanRow(r)]
            /\ writes'[r][InventoryRow(r)] = writes[r][InventoryRow(r)]
        BY <1>w, <2>3, <3>4
      <4> QED BY <1>3, <2>3, <3>4, <4>1 DEF ScanDrafts, Holds, Last
    <3> QED BY <3>1, <3>2, <3>3, <3>4
  <2> QED BY <2>1, <2>2, <2>3
<1> QED BY <1>c, <1>1, <1>2, <1>3
        DEF ScanDrafts, Holds, ScanRow, InventoryRow, Last

\* A scan is stored once, with its inventory.
LEMMA ScansStay ==
    ASSUME TypeOK, Stages, Sessions, Audits, ScanDrafts, ScansStored,
           NEW r \in Requests, Step(r), NEW t \in Requests, db[ScanRow(t)] # Absent
    PROVE  /\ db'[ScanRow(t)] = db[ScanRow(t)]
           /\ db'[InventoryRow(t)] = db[InventoryRow(t)]
<1>1. pc[t] \in After
  BY DEF ScansStored, Audits
<1>2. ScanRow(t) \in RowIds /\ InventoryRow(t) \in RowIds
  BY RowsThereAre
<1>3. ~Holds(r, ScanRow(t)) /\ ~Holds(r, InventoryRow(t))
  BY <1>1, <1>2 DEF ScanDrafts, Sessions, Writing, After
<1> QED BY <1>2, <1>3, Stored

LEMMA ScansStoredStep ==
    ASSUME TypeOK, Stages, Sessions, Audits, ScanInv, NEW r \in Requests, Step(r)
    PROVE  ScansStored'
<1>0. \A s \in Requests : ScanRow(s) \in RowIds /\ InventoryRow(s) \in RowIds
  BY RowsThereAre
<1>1. ASSUME NEW t \in Requests
      PROVE  /\ db'[ScanRow(t)] # Absent \/ db'[InventoryRow(t)] # Absent =>
                   db'[AuditRow(t)] # Absent /\ Started(t)'
             /\ db'[InventoryRow(t)] # Absent <=> db'[ScanRow(t)] \in {"ok", "partial"}
  <2>1. CASE /\ db'[ScanRow(t)] = db[ScanRow(t)]
             /\ db'[InventoryRow(t)] = db[InventoryRow(t)]
    BY <2>1, AuditedStays, StartedStays DEF ScanInv, ScansStored
  <2>2. CASE \/ db'[ScanRow(t)] # db[ScanRow(t)]
             \/ db'[InventoryRow(t)] # db[InventoryRow(t)]
    <3>1. /\ Commits(r) /\ pc[r] = "early_commit" /\ db'[AuditRow(r)] # Absent
          /\ Holds(r, ScanRow(t)) \/ Holds(r, InventoryRow(t))
      BY <1>0, <2>2, Stored
    <3>2. r = t /\ call[r].job = "scan"
      BY <3>1 DEF ScanInv, ScanDrafts
    <3>3. Started(t)'
      BY <3>1, <3>2, StartedStays DEF ScanInv, Beginnings, Last
    <3>4. db[ScanRow(t)] = Absent /\ db[InventoryRow(t)] = Absent
      BY <3>1, <3>2 DEF ScanInv, ScansStored, Audits, After
    <3>5. /\ writes[r][ScanRow(r)] \in {"failed", "ok", "partial"}
          /\ IF writes[r][ScanRow(r)] = "failed" THEN ~Holds(r, InventoryRow(r))
             ELSE writes[r][InventoryRow(r)] \in Contents
      BY <3>1, <3>2 DEF ScanInv, ScanDrafts, Last
    <3>6. db'[ScanRow(r)] = writes[r][ScanRow(r)]
      BY <1>0, <3>1, <3>5, CommitsFacts, Marks DEF Holds
    <3>7. CASE writes[r][ScanRow(r)] = "failed"
      <4>1. db'[InventoryRow(r)] = Absent
        BY <1>0, <3>1, <3>2, <3>4, <3>5, <3>7, CommitsFacts
      <4> QED BY <3>1, <3>2, <3>3, <3>6, <3>7, <4>1
    <3>8. CASE writes[r][ScanRow(r)] # "failed"
      <4>1. db'[InventoryRow(r)] # Absent
        BY <1>0, <3>1, <3>5, <3>8, CommitsFacts, Marks DEF Holds
      <4> QED BY <3>1, <3>2, <3>3, <3>5, <3>6, <3>8, <4>1
    <3> QED BY <3>7, <3>8
  <2> QED BY <2>1, <2>2
<1> QED BY <1>1 DEF ScansStored, InAudit, AuditRow, ScanRow, InventoryRow

LEMMA ScansStep ==
    ASSUME TypeOK, Stages, Sessions, Audits, ScanInv, NEW r \in Requests, Step(r)
    PROVE  ScanInv'
BY BeginningsStep, ScanDraftsStep, ScansStoredStep DEF ScanInv

------------------------------------------------------------------------------
(* The pages of platform health *)

Shown == {"respond", "commit", "done"}

\* x is the one of S whose transaction began last.
Newest(x, S) == \E i \in DOMAIN began : LastOf(began, S, i) /\ began[i] = x

LatestRead(t) == latest[t] # Absent => db[ScanRow(latest[t])] # Absent

SuccessfulRead(t) ==
    /\ successful[t] # Absent => successful[t] \in Successful
    /\ latest[t] \in Successful => Newest(successful[t], {latest[t], successful[t]})

FindingsRead(t) == inventory[t] = {successful[t]} \ {Absent}

Pages ==
    \A t \in Requests : call[t].job = "health" =>
        /\ pc[t] \in {"latest_successful", "findings"} \cup Shown => LatestRead(t)
        /\ pc[t] \in {"findings"} \cup Shown => SuccessfulRead(t)
        /\ pc[t] \in Shown => FindingsRead(t)

\* The one that began last of some scans began last of fewer, if it is one of them.
LEMMA NewestOfFewer ==
    ASSUME NEW S, NEW U \in SUBSET S, NEW x \in U, Newest(x, S)
    PROVE  Newest(x, U)
BY DEF Newest, LastOf

LEMMA NewestIsLatest ==
    ASSUME TypeOK, NEW S \in SUBSET Requests, NEW x, Newest(x, S)
    PROVE  Latest(S) = x
<1>1. PICK i \in DOMAIN began : LastOf(began, S, i) /\ began[i] = x
  BY DEF Newest
<1>2. PICK b \in Seq(Requests) : b = began
  BY Domains
<1>3. S # {}
  BY <1>1 DEF LastOf
<1> QED BY <1>1, <1>2, <1>3, LastIs DEF Latest

\* Scans that are stored have begun, and those that begin come after them.
LEMMA NewestStays ==
    ASSUME TypeOK, Stages, Sessions, ScanInv, NEW r \in Requests, Step(r),
           NEW S \in SUBSET Requests, \A s \in S : db[ScanRow(s)] # Absent,
           NEW x, Newest(x, S)
    PROVE  Newest(x, S)'
<1>1. PICK i \in DOMAIN began : LastOf(began, S, i) /\ began[i] = x
  BY DEF Newest
<1>2. PICK b \in Seq(Requests) : b = began
  BY Domains
<1>3. CASE began' = b
  BY <1>1, <1>2, <1>3 DEF Newest, LastOf
<1>4. CASE pc[r] = "idle" /\ began' = Append(b, r)
  <2>1. r \notin S
    BY <1>4 DEF ScanInv, ScansStored, Beginnings
  <2>2. LastOf(Append(b, r), S, i)
    BY <1>1, <1>2, <2>1, LastStays
  <2>3. i \in DOMAIN Append(b, r) /\ Append(b, r)[i] = x
    BY <1>1, <1>2, AppendShows
  <2> QED BY <1>4, <2>2, <2>3 DEF Newest, LastOf
<1> QED BY <1>2, <1>3, <1>4, BeganMoves

\* What a page has read stays so.
LEMMA ReadStays ==
    ASSUME TypeOK, Stages, Sessions, Audits, ScanInv, NEW r \in Requests, Step(r),
           NEW t \in Requests, latest'[t] = latest[t], LatestRead(t)
    PROVE  /\ LatestRead(t)'
           /\ successful'[t] = successful[t] /\ SuccessfulRead(t) => SuccessfulRead(t)'
<1>1. \A s \in Requests : db[ScanRow(s)] # Absent => db'[ScanRow(s)] = db[ScanRow(s)]
  BY ScansStay DEF ScanInv
<1>2. latest[t] \in Requests \cup {Absent} /\ successful[t] \in Requests \cup {Absent}
  BY DEF TypeOK
<1>3. LatestRead(t)'
  BY <1>1, <1>2 DEF LatestRead, ScanRow
<1>4. \A s \in Requests : s \in Successful => db[ScanRow(s)] # Absent
  BY Marks DEF Successful, ScanRow
<1>5. \A s \in Requests : db[ScanRow(s)] # Absent => (s \in Successful' <=> s \in Successful)
  BY <1>1 DEF Successful, ScanRow
<1>6. ASSUME successful'[t] = successful[t], SuccessfulRead(t)
      PROVE  SuccessfulRead(t)'
  <2>1. successful'[t] # Absent => successful'[t] \in Successful'
    BY <1>2, <1>4, <1>5, <1>6 DEF SuccessfulRead
  <2>2. ASSUME latest'[t] \in Successful'
        PROVE  Newest(successful[t], {latest[t], successful[t]})'
    <3>1. latest[t] \in Requests /\ db[ScanRow(latest[t])] # Absent
      BY <1>2, <2>2, AdministrationAssumption DEF LatestRead, Successful
    <3>2. latest[t] \in Successful
      BY <1>5, <2>2, <3>1
    <3>3. Newest(successful[t], {latest[t], successful[t]})
      BY <1>6, <3>2 DEF SuccessfulRead
    <3>4. successful[t] \in Requests
      BY <3>3, Domains DEF Newest
    <3>5. successful[t] \in Successful
      BY <1>6, <3>4, AdministrationAssumption DEF SuccessfulRead
    <3>6. PICK S \in SUBSET Requests : S = {latest[t], successful[t]}
      BY <3>1, <3>4
    <3>7. \A s \in S : db[ScanRow(s)] # Absent
      BY <1>4, <3>1, <3>4, <3>5, <3>6
    <3>8. PICK x \in Requests : x = successful[t]
      BY <3>4
    <3>9. Newest(x, S)'
      BY <3>3, <3>6, <3>7, <3>8, NewestStays
    <3> QED BY <1>6, <3>6, <3>8, <3>9
  <2> QED BY <2>1, <2>2 DEF SuccessfulRead
<1> QED BY <1>3, <1>6

\* A request that has come so far in reading has made no other step.
LEMMA ReadingMoves ==
    ASSUME TypeOK, Stages, Sessions, NEW r \in Requests, Step(r), call[r].job = "health",
           pc'[r] \in {"latest_successful", "findings"} \cup Shown
    PROVE  \/ ReadLatest(r) /\ pc'[r] = "latest_successful"
           \/ ReadLatestSuccessful(r) /\ pc'[r] = "findings"
           \/ ReadFindings(r) /\ pc'[r] = "respond"
           \/ pc[r] \in Shown /\ pc'[r] \in Shown /\ UNCHANGED locals
<1>1. CASE Quiet(r)
  BY <1>1, QuietFacts DEF QuietMove, Shown, Respond
<1>2. CASE Ends(r)
  BY <1>2, EndsFacts, Domains DEF Shown
<1>3. CASE Writes(r)
  BY <1>3, WritesFacts DEF Writing, Shown
<1>4. CASE Commits(r)
  <2>1. pc[r] # "early_commit"
    BY DEF Stages
  <2>2. pc[r] = "commit" /\ pc' = [pc EXCEPT ![r] = "done"] /\ UNCHANGED locals
    BY <1>4, <2>1, CommitsFacts
  <2> QED BY <2>2, Domains DEF Shown
<1> QED BY <1>1, <1>2, <1>3, <1>4, StepIs

LEMMA PagesStep ==
    ASSUME TypeOK, Stages, Sessions, Audits, ScanInv, Pages, NEW r \in Requests, Step(r)
    PROVE  Pages'
<1>c. call' = call
  BY CallStays
<1>d. /\ latest \in [Requests -> Requests \cup {Absent}]
      /\ successful \in [Requests -> Requests \cup {Absent}]
      /\ inventory \in [Requests -> SUBSET Requests]
  BY DEF TypeOK
<1> SUFFICES ASSUME NEW t \in Requests, call[t].job = "health",
                    pc'[t] \in {"latest_successful", "findings"} \cup Shown
             PROVE  /\ LatestRead(t)'
                    /\ pc'[t] \in {"findings"} \cup Shown => SuccessfulRead(t)'
                    /\ pc'[t] \in Shown => FindingsRead(t)'
  BY <1>c DEF Pages, Shown
<1>1. CASE t # r \/ (pc[r] \in Shown /\ pc'[r] \in Shown /\ UNCHANGED locals)
  <2>1. /\ latest'[t] = latest[t] /\ successful'[t] = successful[t]
        /\ inventory'[t] = inventory[t]
    BY <1>1, OthersStay DEF locals
  <2>2. /\ LatestRead(t)
        /\ pc'[t] \in {"findings"} \cup Shown => SuccessfulRead(t)
        /\ pc'[t] \in Shown => FindingsRead(t)
    BY <1>1, OthersStay DEF Pages
  <2> QED BY <2>1, <2>2, ReadStays DEF FindingsRead
<1>2. CASE t = r /\ ReadLatest(r) /\ pc'[r] = "latest_successful"
  <2>1. PICK S \in SUBSET Requests : /\ S = {s \in Requests : db[ScanRow(s)] # Absent}
                                     /\ latest'[r] = Latest(S)
    BY <1>2, <1>d DEF ReadLatest, ScanRow
  <2>2. Latest(S) \in S \cup {Absent}
    BY <2>1, LatestOf DEF ScanInv
  <2>3. db' = db
    BY <1>2 DEF ReadLatest, Continue
  <2>4. LatestRead(r)'
    BY <2>1, <2>2, <2>3 DEF LatestRead, ScanRow
  <2> QED BY <1>2, <2>4 DEF Shown
<1>3. CASE t = r /\ ReadLatestSuccessful(r) /\ pc'[r] = "findings"
  <2>1. LatestRead(r) /\ latest'[r] = latest[r] /\ db' = db /\ began' = began
    BY <1>3 DEF ReadLatestSuccessful, Continue, Pages
  <2>2. PICK S \in SUBSET Requests : S = Successful /\ successful'[r] = Latest(S)
    BY <1>3, <1>d DEF ReadLatestSuccessful, Successful
  <2>3. \A s \in S : db[ScanRow(s)] # Absent
    BY <2>2, Marks DEF Successful, ScanRow
  <2>4. /\ Latest(S) \in S \cup {Absent}
        /\ S # {} => Latest(S) \in S /\ Newest(Latest(S), S)
    BY <2>3, LatestOf DEF ScanInv, Newest
  <2>5. Successful' = S
    BY <2>1, <2>2 DEF Successful
  <2>6. ASSUME latest'[r] \in S
        PROVE  Newest(successful[r], {latest[r], successful[r]})'
    <3>1. successful'[r] \in S /\ Newest(successful'[r], S)
      BY <2>2, <2>4, <2>6
    <3>2. PICK U \in SUBSET S : U = {latest'[r], successful'[r]}
      BY <2>6, <3>1
    <3>3. PICK x \in U : x = successful'[r]
      BY <3>2
    <3>4. Newest(x, U)
      BY <3>1, <3>3, NewestOfFewer
    <3> QED BY <2>1, <3>2, <3>3, <3>4 DEF Newest
  <2>7. SuccessfulRead(r)'
    BY <2>2, <2>4, <2>5, <2>6 DEF SuccessfulRead
  <2> QED BY <1>3, <2>1, <2>7, ReadStays DEF Shown
<1>4. CASE t = r /\ ReadFindings(r) /\ pc'[r] = "respond"
  <2>1. /\ LatestRead(r) /\ SuccessfulRead(r) /\ latest' = latest
        /\ successful' = successful
        /\ inventory'[r] = {s \in {successful[r]} \ {Absent} : db[InventoryRow(s)] # Absent}
    BY <1>4, <1>d DEF ReadFindings, Continue, Pages, InventoryRow
  <2>2. successful[r] # Absent => db[InventoryRow(successful[r])] # Absent
    BY <2>1 DEF SuccessfulRead, Successful, ScanInv, ScansStored, ScanRow
  <2>3. FindingsRead(r)'
    BY <2>1, <2>2 DEF FindingsRead
  <2> QED BY <1>4, <2>1, <2>3, ReadStays
<1> QED BY <1>1, <1>2, <1>3, <1>4, ReadingMoves

------------------------------------------------------------------------------
(* The theorems *)

ReadTypes ==
    /\ loaded \in [Requests -> SUBSET (KeyIds \cup RowIds)]
    /\ latest \in [Requests -> Requests \cup {Absent}]
    /\ successful \in [Requests -> Requests \cup {Absent}]
    /\ inventory \in [Requests -> SUBSET Requests]

LEMMA ReadTypesStep ==
    ASSUME TypeOK, Stages, Sessions, Audits, ScanInv, NEW r \in Requests, Quiet(r)
    PROVE  ReadTypes'
<1>0. ReadTypes
  BY DEF TypeOK, ReadTypes
<1>1. CASE LoadActiveKeys(r)
  <2>1. ActiveKeys(r) \in SUBSET (KeyIds \cup RowIds)
    BY DEF ActiveKeys
  <2> QED BY <1>0, <1>1, <2>1 DEF ReadTypes, LoadActiveKeys
<1>2. CASE LoadProposal(r)
  <2>1. call[r].item \in Proposals
    BY <1>2, CallType, Domains DEF LoadProposal, Begins
  <2>2. ProposalRows(call[r].item) \subseteq RowIds
    BY <2>1, RowsThereAre
  <2>3. /\ {<<"decided_at", call[r].item>>}
             \cup {k \in {<<"decision", call[r].item>>} : db[k] # Decision(r)}
             \cup {k \in {<<"decider", call[r].item>>} : db[k] # call[r].user}
           \in SUBSET (KeyIds \cup RowIds)
    BY <2>2 DEF ProposalRows
  <2> QED BY <1>0, <1>2, <2>3 DEF ReadTypes, LoadProposal
<1>3. CASE ReadLatest(r)
  <2>1. PICK S \in SUBSET Requests : S = {s \in Requests : db[ScanRow(s)] # Absent}
    OBVIOUS
  <2>2. Latest(S) \in Requests \cup {Absent}
    BY <2>1, LatestOf DEF ScanInv
  <2>3. latest' = [latest EXCEPT ![r] = Latest(S)]
    BY <1>3, <2>1 DEF ReadLatest, ScanRow
  <2> QED BY <1>0, <1>3, <2>2, <2>3 DEF ReadTypes, ReadLatest
<1>4. CASE ReadLatestSuccessful(r)
  <2>1. PICK S \in SUBSET Requests : S = Successful
    BY DEF Successful
  <2>2. \A s \in S : db[ScanRow(s)] # Absent
    BY <2>1, Marks DEF Successful, ScanRow
  <2>3. Latest(S) \in Requests \cup {Absent}
    BY <2>2, LatestOf DEF ScanInv
  <2>4. successful' = [successful EXCEPT ![r] = Latest(S)]
    BY <1>4, <2>1 DEF ReadLatestSuccessful
  <2> QED BY <1>0, <1>4, <2>3, <2>4 DEF ReadTypes, ReadLatestSuccessful
<1>5. CASE ReadFindings(r)
  <2>1. {s \in {successful[r]} \ {Absent} : db[<<"inventory", s>>] # Absent} \subseteq Requests
    BY <1>0 DEF ReadTypes
  <2> QED BY <1>0, <1>5, <2>1 DEF ReadTypes, ReadFindings
<1>6. CASE Resolve(r) \/ UserMissing(r) \/ LoadUser(r) \/ LoadKey(r)
           \/ LookForAccess(r) \/ Respond(r)
  BY <1>0, <1>6
     DEF ReadTypes, Resolve, UserMissing, LoadUser, LoadKey, LookForAccess, Respond, locals
<1> QED BY <1>1, <1>2, <1>3, <1>4, <1>5, <1>6 DEF Quiet

LEMMA TypeStep ==
    ASSUME TypeOK, Stages, Sessions, Audits, ScanInv, NEW r \in Requests, Step(r)
    PROVE  TypeOK'
<1>0. /\ pc \in [Requests -> Phases] /\ response \in [Requests -> Responses]
      /\ db \in [RowIds -> Contents \cup {Absent}] /\ faults \in 0..MaxFaults
      /\ SessionTypes /\ ReadTypes
  BY DEF TypeOK, TransactionsTypeOK, SessionTypes, ReadTypes
<1>1. call' \in Workloads /\ began' \in Seq(Requests)
  BY CallStays, Domains, BeganMoves
<1>2. /\ pc' \in [Requests -> Phases] /\ response' \in [Requests -> Responses]
      /\ db' \in [RowIds -> Contents \cup {Absent}] /\ faults' \in 0..MaxFaults
      /\ SessionTypes' /\ ReadTypes'
  <2>1. CASE Quiet(r)
    <3>1. pc'[r] \in Phases
      BY <2>1, QuietFacts, Naming DEF QuietMove
    <3>2. pc' = [pc EXCEPT ![r] = pc'[r]] /\ UNCHANGED <<db, writes, faults>>
      BY <2>1, QuietFacts
    <3>3. response' \in [Requests -> Responses]
      BY <1>0, <2>1, QuietFacts, Naming
    <3> QED BY <1>0, <2>1, <3>1, <3>2, <3>3, ReadTypesStep DEF SessionTypes
  <2>2. CASE Ends(r)
    <3>1. /\ UNCHANGED <<db, locals>> /\ faults' \in 0..MaxFaults
          /\ pc' = [pc EXCEPT ![r] = "failed"]
          /\ response' \in [Requests -> Responses] /\ SessionTypes'
      BY <2>2, EndsFacts
    <3> QED BY <1>0, <3>1, Naming DEF locals, ReadTypes
  <2>3. CASE Writes(r)
    <3>1. /\ UNCHANGED <<db, response, faults, locals>> /\ SessionTypes'
          /\ pc' = [pc EXCEPT ![r] = pc'[r]] /\ pc'[r] \in Writing
      BY <2>3, WritesFacts
    <3>2. pc'[r] \in Phases
      BY <3>1, Naming DEF Writing
    <3> QED BY <1>0, <3>1, <3>2 DEF locals, ReadTypes
  <2>4. CASE Commits(r)
    <3>1. /\ UNCHANGED <<response, faults, locals>> /\ SessionTypes'
          /\ \/ pc' = [pc EXCEPT ![r] = "respond"]
             \/ pc' = [pc EXCEPT ![r] = "done"]
          /\ db' \in [RowIds -> Contents \cup {Absent}]
      BY <2>4, CommitsFacts
    <3> QED BY <1>0, <3>1, Naming DEF locals, ReadTypes
  <2> QED BY <2>1, <2>2, <2>3, <2>4, StepIs
<1> QED BY <1>1, <1>2 DEF TypeOK, TransactionsTypeOK, SessionTypes, ReadTypes

\* The rows there are at first.
LEMMA FirstRows ==
    ASSUME Init
    PROVE  /\ db \in [RowIds -> Contents \cup {Absent}]
           /\ \A u \in Users : db[AccountRow(u)] = IF u \in Accounts THEN "active" ELSE Absent
           /\ \A u \in Users, s \in Scopes : db[RoleRow(u, s)] # Absent =>
                 \E g \in Roles : <<g[1], g[2]>> = <<u, s>>
           /\ \A k \in KeyIds : db[KeyRow(k)] = IF k \in OldKeys THEN "active" ELSE Absent
           /\ \A o \in Orgs : db[<<"access", o>>] = Absent
           /\ \A p \in Proposals : db[<<"decision", p>>] = "held"
           /\ \A t \in Requests : /\ db[ScanRow(t)] = Absent /\ db[InventoryRow(t)] = Absent
                                  /\ db[<<"report", t>>] = Absent
                                  /\ db[AuditRow(t)] = Absent
<1> DEFINE First(k) ==
      CASE \E u \in Accounts : k = AccountRow(u)                   -> "active"
        [] \E g \in Roles : k = RoleRow(g[1], g[2]) /\ g[3] = "admin" -> "admin"
        [] \E g \in Roles : k = RoleRow(g[1], g[2]) /\ g[3] = "user"  -> "user"
        [] \E key \in OldKeys : k = <<"key", key>>                 -> "active"
        [] \E p \in Proposals : k = <<"decision", p>>              -> "held"
        [] OTHER                                                   -> Absent
<1>1. db = [k \in RowIds |-> First(k)]
  BY DEF Init, InitTransactions
<1>2. \A k \in RowIds : First(k) \in Contents \cup {Absent}
  BY Marks
<1>3. \A k \in RowIds : db[k] = First(k)
  BY <1>1
<1>4. \A u \in Users : First(AccountRow(u)) = IF u \in Accounts THEN "active" ELSE Absent
  BY DEF AccountRow, RoleRow
<1>5. ASSUME NEW u \in Users, NEW s \in Scopes, First(RoleRow(u, s)) # Absent
      PROVE  \E g \in Roles : <<g[1], g[2]>> = <<u, s>>
  BY <1>5 DEF AccountRow, RoleRow
<1>6. \A k : First(KeyRow(k)) = IF k \in OldKeys THEN "active" ELSE Absent
  BY DEF AccountRow, RoleRow, KeyRow
<1>7. \A o : First(<<"access", o>>) = Absent
  BY DEF AccountRow, RoleRow
<1>8. \A p \in Proposals : First(<<"decision", p>>) = "held"
  BY DEF AccountRow, RoleRow
<1>9. \A t : /\ First(ScanRow(t)) = Absent /\ First(InventoryRow(t)) = Absent
             /\ First(<<"report", t>>) = Absent /\ First(AuditRow(t)) = Absent
  BY DEF AccountRow, RoleRow, ScanRow, InventoryRow, AuditRow
<1>10. \A p \in Proposals : <<"decision", p>> \in RowIds
  BY RowsThereAre DEF ProposalRows
<1> HIDE DEF First
<1>11. db \in [RowIds -> Contents \cup {Absent}]
  BY <1>1, <1>2
<1>12. /\ \A u \in Users : db[AccountRow(u)] = IF u \in Accounts THEN "active" ELSE Absent
       /\ \A u \in Users, s \in Scopes : db[RoleRow(u, s)] # Absent =>
             \E g \in Roles : <<g[1], g[2]>> = <<u, s>>
       /\ \A k \in KeyIds : db[KeyRow(k)] = IF k \in OldKeys THEN "active" ELSE Absent
  BY <1>3, <1>4, <1>5, <1>6, RowsThereAre
<1> QED BY <1>3, <1>7, <1>8, <1>9, <1>10, <1>11, <1>12, RowsThereAre

LEMMA NothingAtFirst ==
    ASSUME Init
    PROVE  /\ \A t \in Requests : pc[t] = "idle" /\ ~InAudit(t)
           /\ \A t \in Requests, k \in RowIds : ~Holds(t, k)
           /\ TypeOK
<1>1. /\ pc = [t \in Requests |-> "idle"] /\ response = [t \in Requests |-> "none"]
      /\ writes = [t \in Requests |-> NoWrites] /\ faults = 0 /\ DOMAIN db = RowIds
      /\ call \in Workloads /\ began = <<>>
      /\ loaded = [t \in Requests |-> {}] /\ latest = [t \in Requests |-> Absent]
      /\ successful = [t \in Requests |-> Absent] /\ inventory = [t \in Requests |-> {}]
  BY DEF Init, InitTransactions
<1>2. NoWrites = [k \in RowIds |-> Untouched]
  BY <1>1 DEF NoWrites, Rows
<1>3. writes \in [Requests -> [RowIds -> Contents \cup {Absent, Untouched}]]
  BY <1>1, <1>2
<1>4. /\ pc \in [Requests -> Phases] /\ response \in [Requests -> Responses]
  BY <1>1, Naming
<1>5. faults \in 0..MaxFaults
  BY <1>1, TransactionsAssumption
<1>6. TransactionsTypeOK(RowIds, Contents, Phases, Responses)
  BY <1>3, <1>4, <1>5, FirstRows DEF TransactionsTypeOK
<1>7. TypeOK
  BY <1>1, <1>6 DEF TypeOK
<1> QED BY <1>1, <1>2, <1>7, FirstRows DEF InAudit, Holds

Foundation == TypeOK /\ Stages /\ Sessions /\ Audits /\ ScanInv

LEMMA FoundationAtFirst ==
    ASSUME Init
    PROVE  Foundation
<1>1. Stages
  BY NothingAtFirst DEF Stages, Init
<1>2. Sessions /\ Audits
  BY NothingAtFirst, RowsThereAre DEF Sessions, Audits
<1>3. Beginnings
  BY NothingAtFirst DEF Beginnings, Started, Init, Last
<1>4. ScanDrafts
  BY NothingAtFirst, RowsThereAre DEF ScanDrafts, Last
<1>5. ScansStored
  <2>1. Absent \notin {"ok", "partial"}
    BY Marks
  <2>2. \A t \in Requests : db[ScanRow(t)] = Absent /\ db[InventoryRow(t)] = Absent
    BY FirstRows
  <2> QED BY <2>1, <2>2 DEF ScansStored
<1> QED BY <1>1, <1>2, <1>3, <1>4, <1>5, NothingAtFirst DEF Foundation, ScanInv

LEMMA FoundationStep ==
    ASSUME Foundation, [Next]_vars
    PROVE  Foundation'
<1>1. ASSUME NEW r \in Requests, Step(r)
      PROVE  Foundation'
  BY <1>1, TypeStep, StagesStep, SessionsStep, AuditsStep, ScansStep DEF Foundation
<1>2. CASE UNCHANGED vars
  <2>1. TypeOK' /\ Stages' /\ Sessions' /\ Audits'
    BY <1>2 DEF vars, locals, Foundation, TypeOK, TransactionsTypeOK, Stages, ProposalRows,
                Sessions, Audits, Holds, InAudit, AuditRow
  <2>2. ScanInv'
    BY <1>2 DEF vars, Foundation, ScanInv, Beginnings, ScanDrafts, ScansStored, Started,
                LastOf, Holds, InAudit, AuditRow, ScanRow, InventoryRow, Last
  <2> QED BY <2>1, <2>2 DEF Foundation
<1> QED BY <1>1, <1>2 DEF Next

\* A request is where its job leads, no two hold a row in common, the audit record
\* is committed with what it records, and scans are stored once, with their
\* inventory, after their transaction has begun.
THEOREM FoundationHolds == Spec => []Foundation
<1>1. Init => Foundation
  BY FoundationAtFirst
<1>2. Foundation /\ [Next]_vars => Foundation'
  BY FoundationStep
<1> QED BY <1>1, <1>2, PTL DEF Spec

\* Every variable keeps its type.
THEOREM TypeCorrect == Spec => []TypeOK
<1>1. Foundation => TypeOK
  BY DEF Foundation
<1> QED BY <1>1, FoundationHolds, PTL

RightsHold == RightsInv /\ RolesReached /\ AccountsReached /\ PlatformInv

LEMMA RightsAtFirst ==
    ASSUME Init
    PROVE  RightsHold
<1>0. /\ \A u \in Users : AccountRow(u) \in RowIds
      /\ \A u \in Users, s \in Scopes : RoleRow(u, s) \in RowIds
      /\ \A o \in Orgs : <<"access", o>> \in RowIds
      /\ \A p \in Proposals : <<"decision", p>> \in RowIds
      /\ \A s \in Requests, table \in {"scan", "report"} : <<table, s>> \in RowIds
  BY RowsThereAre DEF ProposalRows, ScanRow
<1>1. Entries
  BY NothingAtFirst DEF Entries
<1>2. Roots
  <2>1. ASSUME NEW u \in Users, NEW s \in Scopes, db[RoleRow(u, s)] # Absent
        PROVE  u \in Accounts
    <3>1. PICK g \in Roles : <<g[1], g[2]>> = <<u, s>>
      BY <2>1, FirstRows
    <3>2. g \in Accounts \X Scopes \X {"admin", "user"}
      BY <3>1, AdministrationAssumption
    <3> QED BY <3>1, <3>2
  <2>2. \A u \in Users : u \in Accounts => HasAccount(u)
    BY FirstRows, Marks DEF HasAccount
  <2>3. Orgs \subseteq Scopes
    BY DEF Scopes
  <2> QED BY <2>1, <2>2, <2>3 DEF Roots, MemberOf
<1>3. AccountDrafts
  BY <1>0, NothingAtFirst DEF AccountDrafts, Last
<1>4. RoleDrafts
  BY <1>0, NothingAtFirst DEF RoleDrafts
<1>5. RolesReached
  BY FirstRows DEF RolesReached
<1>6. AccountsReached
  <2>1. \A u \in Users : db[AccountRow(u)] \in {"active", Absent}
    BY FirstRows
  <2>2. "inactive" # Absent
    BY Marks
  <2> QED BY <2>1, <2>2 DEF AccountsReached
<1>7. AccessDrafts /\ DecisionDrafts /\ TableDrafts
  BY <1>0, NothingAtFirst DEF AccessDrafts, DecisionDrafts, TableDrafts
<1>8. PoliciesDecided /\ ProposalsDecided
  BY FirstRows DEF PoliciesDecided, ProposalsDecided
<1>9. TablesAudited
  BY FirstRows DEF TablesAudited, ScanRow
<1> QED BY <1>1, <1>2, <1>3, <1>4, <1>5, <1>6, <1>7, <1>8, <1>9
        DEF RightsHold, RightsInv, PlatformInv

LEMMA RightsHoldStep ==
    ASSUME Foundation, RightsHold, [Next]_vars
    PROVE  RightsHold'
<1>1. ASSUME NEW r \in Requests, Step(r)
      PROVE  RightsHold'
  BY <1>1, RightsStep, RolesReachedStep, AccountsReachedStep, PlatformStep
     DEF Foundation, RightsHold
<1>2. CASE UNCHANGED vars
  <2>1. RightsInv'
    BY <1>2 DEF vars, RightsHold, RightsInv, Entries, Entitled, HasAccount, IsPlatform,
                IsOrgAdmin, HomeOf, MemberOf, InAudit, Roots, AccountDrafts, RoleDrafts,
                Creates, Changes, MayDeactivate, Reaches, Wished, ScopeOfNewUser, Holds,
                AccountRow, RoleRow, AuditRow, Last, PlatformJobs
  <2>2. RolesReached' /\ AccountsReached'
    BY <1>2 DEF vars, RightsHold, RolesReached, AccountsReached, Done, Granted, IsPlatform,
                HomeOf, MemberOf, Reaches, AccountRow, RoleRow
  <2>3. PlatformInv'
    BY <1>2 DEF vars, RightsHold, PlatformInv, AccessDrafts, DecisionDrafts, TableDrafts,
                PoliciesDecided, ProposalsDecided, TablesAudited, Done, Policy, Decision,
                Holds
  <2> QED BY <2>1, <2>2, <2>3 DEF RightsHold
<1> QED BY <1>1, <1>2 DEF Next

\* FR-ADM-2: nobody becomes an administrator beyond the reach of who made them one;
\* an account is deactivated by an administrator who reaches it, and by another
\* user; and what the platform stores its administrators have asked for.
THEOREM NobodyOutreaches == Spec => []WithinReach
<1> DEFINE Inv == Foundation /\ RightsHold
<1>1. Init => Inv
  BY FoundationAtFirst, RightsAtFirst
<1>2. Inv /\ [Next]_vars /\ Foundation' => Inv'
  BY RightsHoldStep
<1>3. Inv => WithinReach
  <2> SUFFICES ASSUME RightsHold
               PROVE  WithinReach
    OBVIOUS
  <2>1. RolesReached /\ AccountsReached /\ PoliciesDecided /\ ProposalsDecided /\ TablesAudited
    BY DEF RightsHold, PlatformInv
  <2>2. ASSUME NEW t \in Done(PlatformJobs)
        PROVE  IsPlatform(call[t].user)
    BY DoneEntitled DEF RightsHold, RightsInv, Entitled
  <2> QED BY <2>1, <2>2 DEF WithinReach, RolesReached, Granted, AccountsReached,
                            PoliciesDecided, ProposalsDecided, TablesAudited
<1> QED BY <1>1, <1>2, <1>3, FoundationHolds, PTL DEF Spec

KeysHold == RightsHold /\ KeyInv /\ KeysStayUsable

LEMMA KeysAtFirst ==
    ASSUME Init
    PROVE  KeysHold
<1>0. \A k \in KeyIds : KeyRow(k) \in RowIds
  BY RowsThereAre
<1>1. \A k \in KeyIds : db[KeyRow(k)] # Absent => k \in OldKeys /\ db[KeyRow(k)] = "active"
  BY FirstRows
<1>2. KeyOwners
  <2>1. \A k \in Requests : k \in KeyIds /\ k \notin OldKeys
    BY AdministrationAssumption DEF KeyIds
  <2> QED BY <1>1, <2>1 DEF KeyOwners
<1>3. KeysLoaded /\ KeysInserted /\ KeysDropped /\ KeyDrafts
  BY <1>0, NothingAtFirst DEF KeysLoaded, KeysInserted, KeysDropped, KeyDrafts, Last
<1>4. KeysStayUsable
  BY <1>1 DEF KeysStayUsable, KeyRow
<1> QED BY <1>2, <1>3, <1>4, RightsAtFirst DEF KeysHold, KeyInv

LEMMA KeysHoldStep ==
    ASSUME Foundation, KeysHold, [Next]_vars
    PROVE  KeysHold'
<1>0. RightsHold'
  BY RightsHoldStep DEF KeysHold
<1>1. ASSUME NEW r \in Requests, Step(r)
      PROVE  KeyInv' /\ KeysStayUsable'
  BY <1>1, KeysStep, UsableStep DEF Foundation, KeysHold, RightsHold
<1>2. CASE UNCHANGED vars
  <2>1. \A t : ScopeOfCall(t)' = ScopeOfCall(t)
    BY <1>2 DEF vars, ScopeOfCall, IsPlatform, HomeOf, MemberOf, RoleRow
  <2>2. \A k : ScopeOf(k)' = ScopeOf(k)
    BY <2>1 DEF ScopeOf
  <2>3. /\ pc' = pc /\ db' = db /\ writes' = writes /\ call' = call /\ loaded' = loaded
        /\ KeyInv /\ KeysStayUsable
    BY <1>2 DEF vars, locals, KeysHold
  <2>4. KeysLoaded' /\ KeysInserted' /\ KeysDropped'
    BY <2>1, <2>2, <2>3 DEF KeyInv, KeysLoaded, KeysInserted, KeysDropped, InAudit, AuditRow,
                            KeyRow, Last
  <2>5. KeyDrafts' /\ KeyOwners'
    BY <2>3 DEF KeyInv, KeyDrafts, KeyOwners, Holds, InAudit, AuditRow, KeyRow
  <2>6. Done({"drop_key"})' = Done({"drop_key"})
    BY <2>3 DEF Done
  <2>7. \A t : ScopeOf(call[t].item)' = ScopeOf(call[t].item)
    BY <2>1, <2>3 DEF ScopeOf
  <2>8. KeysStayUsable'
    <3> SUFFICES ASSUME NEW s \in Scopes, NEW n \in KeyIds, ScopeOf(n)' = {s},
                        db'[KeyRow(n)] # Absent,
                        \A t \in Done({"drop_key"})' : ScopeOf(call[t].item)' # {s}
                 PROVE  \E k \in KeyIds : ScopeOf(k)' = {s} /\ db'[KeyRow(k)] = "active"
      BY DEF KeysStayUsable, KeyRow
    <3>1. ScopeOf(n) = {s} /\ db[KeyRow(n)] # Absent
      BY <2>2, <2>3
    <3>2. \A t \in Done({"drop_key"}) : ScopeOf(call[t].item) # {s}
      BY <2>6, <2>7
    <3>3. PICK k \in KeyIds : ScopeOf(k) = {s} /\ db[KeyRow(k)] = "active"
      BY <2>3, <3>1, <3>2 DEF KeysStayUsable, KeyRow
    <3> QED BY <2>2, <2>3, <3>3
  <2> QED BY <1>0, <2>4, <2>5, <2>8 DEF KeyInv, KeysHold
<1> QED BY <1>0, <1>1, <1>2 DEF Next, KeysHold

\* FR-LLM: a scope that has had a key keeps one until a key of it is deactivated on
\* purpose, however many new keys are set at once, also in other scopes.
THEOREM KeysRemain == Spec => []KeysStayUsable
<1> DEFINE Inv == Foundation /\ KeysHold
<1>1. Init => Inv
  BY FoundationAtFirst, KeysAtFirst
<1>2. Inv /\ [Next]_vars /\ Foundation' => Inv'
  BY KeysHoldStep
<1>3. Inv => KeysStayUsable
  BY DEF KeysHold
<1> QED BY <1>1, <1>2, <1>3, FoundationHolds, PTL DEF Spec

\* FR-PLATHEALTH-11: a scan has an inventory if and only if it has not failed; the
\* page shows the inventory of a scan that has not failed, one that is not older than
\* the latest scan unless that one failed, and takes no failed one for current.
THEOREM NoFailureIsShown == Spec => []ScansFailClosed
<1> DEFINE Inv == Foundation /\ Pages
<1>1. Init => Inv
  <2>1. ASSUME Init
        PROVE  Pages
    BY <2>1, NothingAtFirst DEF Pages, Shown
  <2> QED BY <2>1, FoundationAtFirst
<1>2. Inv /\ [Next]_vars /\ Foundation' => Inv'
  <2> SUFFICES ASSUME Foundation, Pages, [Next]_vars
               PROVE  Pages'
    OBVIOUS
  <2>1. ASSUME NEW r \in Requests, Step(r)
        PROVE  Pages'
    BY <2>1, PagesStep DEF Foundation
  <2>2. CASE UNCHANGED vars
    BY <2>2 DEF vars, locals, Pages, Shown, LatestRead, SuccessfulRead, FindingsRead, Newest,
                LastOf, Successful, ScanRow
  <2> QED BY <2>1, <2>2 DEF Next
<1>3. Inv => ScansFailClosed
  <2> SUFFICES ASSUME Foundation, Pages
               PROVE  ScansFailClosed
    OBVIOUS
  <2>1. ASSUME NEW t \in Requests
        PROVE  db[<<"inventory", t>>] # Absent <=> db[<<"scan", t>>] \in {"ok", "partial"}
    BY DEF Foundation, ScanInv, ScansStored, ScanRow, InventoryRow
  <2>2. ASSUME NEW r \in Requests, pc[r] \in Shown, call[r].job = "health"
        PROVE  /\ inventory[r] = {successful[r]} \ {Absent}
               /\ inventory[r] \subseteq Successful
               /\ latest[r] \in Successful =>
                     successful[r] = Latest({latest[r], successful[r]})
    <3>1. FindingsRead(r) /\ SuccessfulRead(r)
      BY <2>2 DEF Pages
    <3>2. ASSUME latest[r] \in Successful
          PROVE  successful[r] = Latest({latest[r], successful[r]})
      <4>1. Newest(successful[r], {latest[r], successful[r]})
        BY <3>1, <3>2 DEF SuccessfulRead
      <4>2. successful[r] \in Requests /\ latest[r] \in Requests
        BY <3>2, <4>1, Domains DEF Newest, Successful, Foundation
      <4>3. PICK S \in SUBSET Requests : S = {latest[r], successful[r]}
        BY <4>2
      <4>4. PICK x \in Requests : x = successful[r]
        BY <4>2
      <4>5. Latest(S) = x
        BY <4>1, <4>3, <4>4, NewestIsLatest DEF Foundation
      <4> QED BY <4>3, <4>4, <4>5
    <3> QED BY <3>1, <3>2 DEF FindingsRead, SuccessfulRead
  <2> QED BY <2>1, <2>2 DEF ScansFailClosed, Shown
<1> QED BY <1>1, <1>2, <1>3, FoundationHolds, PTL DEF Spec

------------------------------------------------------------------------------
(* Nobody waits in a circle *)

\* The rows that the next step of a request waits for, if others hold them.
OwnRows(r) == {ScanRow(r), InventoryRow(r), <<"report", r>>, AuditRow(r)}

Awaits(r) ==
    CASE pc[r] \in {"insert_user", "set_active"} -> {AccountRow(call[r].item)}
      [] pc[r] = "assign_role" -> {RoleRow(call[r].item, s) : s \in ScopeOfNewUser(r)}
      [] pc[r] = "deactivate_keys" -> {KeyRow(k) : k \in loaded[r]}
      [] pc[r] = "insert_key" -> {KeyRow(r)}
      [] pc[r] = "drop_key" -> {KeyRow(call[r].item)}
      [] pc[r] \in {"insert_access", "update_access"} -> {AccessRow(r)}
      [] pc[r] = "decide" -> ProposalRows(call[r].item)
      [] pc[r] \in {"begin", "currency", "audit"} -> OwnRows(r)
      [] OTHER -> {}

\* They are all the rows that it may write.
WritesAreAwaited ==
    \A r \in Requests, k \in RowIds :
        writes'[r][k] \in {Untouched, writes[r][k]} \/ k \in Awaits(r)

\* Whoever others wait for waits for nobody.
HoldersNeverWait ==
    \A r, t \in Requests : \A k \in Awaits(t), l \in Awaits(r) :
        Holds(r, k) => Free(r, l)

LEMMA WritesAwaitedStep ==
    ASSUME TypeOK, Stages, NEW r \in Requests, Step(r)
    PROVE  WritesAreAwaited
<1> SUFFICES ASSUME NEW t \in Requests, NEW k \in RowIds
             PROVE  writes'[t][k] \in {Untouched, writes[t][k]} \/ k \in Awaits(t)
  BY DEF WritesAreAwaited
<1>1. CASE Quiet(r)
  BY <1>1, QuietFacts
<1>2. CASE Ends(r)
  BY <1>2, EndsFacts
<1>3. CASE Writes(r)
  <2>1. PICK K \in SUBSET RowIds, phase \in Phases : \E f \in [K -> Contents] :
           FlushEach(r, f, phase) /\ RowsOf(r, K, f, phase)
    BY <1>3 DEF Writes
  <2>2. PICK f \in [K -> Contents] : FlushEach(r, f, phase) /\ RowsOf(r, K, f, phase)
    BY <2>1
  <2>3. \A u \in Requests, l \in RowIds :
           writes'[u][l] = IF u = r /\ l \in K THEN f[l] ELSE writes[u][l]
    BY <2>2, FlushShows
  <2>4. K \subseteq Awaits(r)
    BY <2>2 DEF RowsOf, Awaits, OwnRows, AccessRow
  <2> QED BY <2>3, <2>4
<1>4. CASE Commits(r)
  BY <1>4, CommitsFacts
<1> QED BY <1>1, <1>2, <1>3, <1>4, StepIs

LEMMA AwaitedRows ==
    ASSUME TypeOK, Stages, NEW r \in Requests
    PROVE  Awaits(r) \subseteq RowIds
<1>1. CASE pc[r] \in {"insert_user", "set_active"}
  BY <1>1, RowsThereAre, CallType, Domains DEF Awaits, Stages
<1>2. CASE pc[r] = "assign_role"
  <2>1. ScopeOfNewUser(r) \subseteq Scopes
    BY DEF ScopeOfNewUser, HomeOf, Scopes
  <2>2. call[r].item \in Users
    BY <1>2, CallType, Domains DEF Stages
  <2>3. Awaits(r) = {RoleRow(call[r].item, s) : s \in ScopeOfNewUser(r)}
    BY <1>2 DEF Awaits
  <2> QED BY <2>1, <2>2, <2>3, RowsThereAre
<1>3. CASE pc[r] = "deactivate_keys"
  <2>1. loaded[r] \subseteq KeyIds /\ Awaits(r) = {KeyRow(k) : k \in loaded[r]}
    BY <1>3 DEF Awaits, Stages
  <2> QED BY <2>1, RowsThereAre
<1>4. CASE pc[r] = "insert_key"
  BY <1>4, RowsThereAre DEF Awaits, KeyIds
<1>5. CASE pc[r] = "drop_key"
  BY <1>5, RowsThereAre, CallType, Domains DEF Awaits, Stages
<1>6. CASE pc[r] \in {"insert_access", "update_access"}
  BY <1>6, RowsThereAre, CallType, Domains DEF Awaits, Stages, AccessRow
<1>7. CASE pc[r] = "decide"
  BY <1>7, RowsThereAre, CallType, Domains DEF Awaits, Stages
<1>8. CASE pc[r] \in {"begin", "currency", "audit"}
  <2>1. Awaits(r) = OwnRows(r)
    BY <1>8 DEF Awaits
  <2> QED BY <2>1, RowsThereAre DEF OwnRows
<1>9. CASE pc[r] \notin {"insert_user", "set_active", "assign_role", "deactivate_keys",
                         "insert_key", "drop_key", "insert_access", "update_access",
                         "decide", "begin", "currency", "audit"}
  BY <1>9 DEF Awaits
<1> QED BY <1>1, <1>2, <1>3, <1>4, <1>5, <1>6, <1>7, <1>8, <1>9

\* Nobody else holds the key that a request is about to insert: it would be stored.
LEMMA NewKeyIsFree ==
    ASSUME TypeOK, Stages, Sessions, Audits, KeyInv, NEW r \in Requests,
           pc[r] = "insert_key", NEW s \in Requests \ {r}, Holds(s, KeyRow(r))
    PROVE  FALSE
<1>1. r \in KeyIds /\ KeyRow(r) \in RowIds
  BY RowsThereAre DEF KeyIds
<1>2. pc[s] \in Writing
  BY <1>1 DEF Sessions
<1>3. \/ call[s].job = "set_key" /\ r \in loaded[s]
      \/ call[s].job = "drop_key" /\ r = call[s].item
  BY <1>1 DEF KeyInv, KeyDrafts
<1>4. db[KeyRow(r)] # Absent
  <2>1. CASE call[s].job = "set_key" /\ r \in loaded[s]
    BY <1>2, <2>1 DEF Stages, Writing, Last, KeyInv, KeysLoaded
  <2>2. CASE call[s].job = "drop_key" /\ r = call[s].item
    BY <1>2, <2>2 DEF Stages, Writing, Last, KeyInv, KeysDropped
  <2> QED BY <1>3, <2>1, <2>2
<1>5. pc[r] \in After
  BY <1>4 DEF KeyInv, KeyOwners, Audits
<1> QED BY <1>5 DEF After

\* The first row that a request writes is an account, a key, a proposal or its own:
\* it holds nothing then.  What it writes later nobody can hold.
LEMMA HoldersAreFree ==
    ASSUME TypeOK, Stages, Sessions, Audits, ScanInv, AccountDrafts, RoleDrafts,
           TableDrafts, KeyInv
    PROVE  HoldersNeverWait
<1> SUFFICES ASSUME NEW r \in Requests, NEW t \in Requests, NEW k \in Awaits(t),
                    NEW l \in Awaits(r), Holds(r, k), NEW s \in Requests \ {r}, Holds(s, l)
             PROVE  FALSE
  BY DEF HoldersNeverWait, Free
<1>1. k \in RowIds /\ l \in RowIds
  BY AwaitedRows
<1>2. pc[r] \in Writing
  BY <1>1 DEF Sessions
<1>3. CASE pc[r] = "assign_role"
  <2>1. PICK sc \in ScopeOfNewUser(r) : l = RoleRow(call[r].item, sc)
    BY <1>3 DEF Awaits
  <2>2. sc \in Scopes /\ call[r].item \in Users /\ call[r].job = "create_user"
    BY <1>3, CallType, Domains DEF Stages, ScopeOfNewUser, HomeOf, Scopes
  <2>3. call[s].job = "create_user" /\ call[s].item = call[r].item /\ pc[s] \in Last
    BY <2>1, <2>2 DEF RoleDrafts
  <2>4. Holds(s, AccountRow(call[s].item)) /\ Holds(r, AccountRow(call[r].item))
    BY <1>3, <2>2, <2>3 DEF AccountDrafts
  <2>5. AccountRow(call[r].item) \in RowIds
    BY <2>2, RowsThereAre
  <2> QED BY <2>3, <2>4, <2>5 DEF Sessions
<1>4. CASE pc[r] = "insert_key"
  <2>1. l = KeyRow(r)
    BY <1>4 DEF Awaits
  <2> QED BY <1>4, <2>1, NewKeyIsFree
<1>5. CASE pc[r] \in {"currency", "audit"}
  <2>1. l \in OwnRows(r)
    BY <1>5 DEF Awaits
  <2>2. CASE l \in {ScanRow(r), InventoryRow(r)}
    BY <2>2 DEF ScanInv, ScanDrafts
  <2>3. CASE l = <<"report", r>>
    BY <2>3 DEF TableDrafts
  <2>4. CASE l = AuditRow(r)
    BY <2>4 DEF Audits
  <2> QED BY <2>1, <2>2, <2>3, <2>4 DEF OwnRows
<1>6. pc[r] # "early_commit"
  BY DEF Awaits
<1> QED BY <1>2, <1>3, <1>4, <1>5, <1>6 DEF Writing

LEMMA NoCircle ==
    ASSUME HoldersNeverWait, NEW r \in Requests
    PROVE  ~InCircle(r, Awaits)
<1> SUFFICES ASSUME NEW S \in SUBSET Requests, r \in S,
                    \A s \in S : \E t \in S \ {s} : \E k \in Awaits(s) : Holds(t, k)
             PROVE  FALSE
  BY DEF InCircle
<1>1. PICK t \in S : \E k \in Awaits(r) : Holds(t, k)
  OBVIOUS
<1>2. PICK s \in S \ {t} : \E l \in Awaits(t) : Holds(s, l)
  OBVIOUS
<1> QED BY <1>1, <1>2 DEF HoldersNeverWait, Free

\* Whoever creates users, changes keys and decides at the same time, no requests
\* wait for each other's rows in a circle.
THEOREM NobodyWaitsInACircle ==
    Spec => /\ [](\A r \in Requests : ~InCircle(r, Awaits))
            /\ [][WritesAreAwaited]_vars
<1> DEFINE Inv == Foundation /\ KeysHold
<1>1. Init => Inv
  BY FoundationAtFirst, KeysAtFirst
<1>2. Inv /\ [Next]_vars /\ Foundation' => Inv'
  BY KeysHoldStep
<1>3. Inv => \A r \in Requests : ~InCircle(r, Awaits)
  BY HoldersAreFree, NoCircle
     DEF Foundation, KeysHold, RightsHold, RightsInv, PlatformInv
<1>4. Inv /\ [Next]_vars => [WritesAreAwaited]_vars
  <2> SUFFICES ASSUME Inv, Next
               PROVE  WritesAreAwaited \/ UNCHANGED vars
    OBVIOUS
  <2> QED BY WritesAwaitedStep DEF Next, Foundation
<1> QED BY <1>1, <1>2, <1>3, <1>4, FoundationHolds, PTL DEF Spec
==============================================================================
