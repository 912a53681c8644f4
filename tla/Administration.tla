--------------------------- MODULE Administration ----------------------------
(***************************************************************************)
(* The administration pages (admin/routes.py) and what is behind them:     *)
(* users (admin/service.py), provider keys and the policy of the shared    *)
(* key (llm/service.py), platform health (compliance/inventory/service.py) *)
(* and the audit of controls (compliance/fisma_audit/service.py).          *)
(*                                                                         *)
(* A page resolves who asks, acts, audits, commits and answers.  There is  *)
(* one provider here, and nobody switches to another organisation.         *)
(***************************************************************************)
EXTENDS Transactions, Sequences

CONSTANTS Users,        \* who may have an account
          Orgs,
          Platform,     \* no organisation: the scope of the platform itself
          Accounts,     \* users who have an account at first
          Enrolled,     \* users with a second factor
          Roles,        \* the roles there are at first: <<user, scope, role>>
          DefaultOrg,   \* the organisation an account works in, or Platform for none
          OldKeys, KeyScope,
          Proposals,    \* remediations that have been proposed
          Workloads     \* what the requests may ask for

Scopes == Orgs \cup {Platform}
KeyIds == OldKeys \cup Requests
Jobs   == {"create_user", "deactivate", "reactivate", "set_key", "drop_key", "access",
           "scan", "health", "decide", "audit_controls"}

ASSUME AdministrationAssumption ==
    /\ Platform \notin Orgs
    /\ Absent \notin Requests
    /\ OldKeys \cap Requests = {}
    /\ Accounts \subseteq Users
    /\ Enrolled \subseteq Users
    /\ Roles \subseteq Accounts \X Scopes \X {"admin", "user"}
    /\ DefaultOrg \in [Accounts -> Scopes]
    /\ KeyScope \in [OldKeys -> Scopes]
    \* option: the admin role, the shared scope, allow, approve.  valid: the fields
    \* that the services check are well-formed.
    /\ Workloads \subseteq
           [Requests -> [job : Jobs, user : Users, option : BOOLEAN, valid : BOOLEAN,
                         item : Users \cup KeyIds \cup Orgs \cup Proposals]]
    /\ \A w \in Workloads, r \in Requests :
          /\ w[r].job \in {"create_user", "deactivate", "reactivate"} => w[r].item \in Users
          /\ w[r].job = "drop_key" => w[r].item \in KeyIds
          /\ w[r].job = "access" => w[r].item \in Orgs
          /\ w[r].job = "decide" => w[r].item \in Proposals

VARIABLES call,       \* what each request asks for
          began,      \* the scans whose transaction has begun, in that order
          loaded,     \* keys it has found active
          latest,     \* the latest scan that a page of platform health has read
          successful, \* the latest successful one
          inventory   \* the scans whose inventory it has read

vars == <<pc, db, writes, response, faults, call, began, loaded, latest, successful,
          inventory>>

locals == <<loaded, latest, successful, inventory>>

RowIds ==
    UNION {{"account"} \X Users, {"role"} \X Users \X Scopes, {"key"} \X KeyIds,
          {"access"} \X Orgs, {"decision", "decider", "decided_at"} \X Proposals,
          {"scan", "inventory", "report", "audit"} \X Requests}

Contents == {"active", "inactive", "admin", "user", "allowed", "denied", "held",
             "approved", "rejected", "failed", "ok", "partial", "recorded"} \cup Users

ASSUME AdministrationContentsAssumption ==
    Absent \notin Contents /\ Untouched \notin Contents

Phases    == {"idle", "begin", "insert_user", "assign_role", "set_active",
              "deactivate_keys", "insert_key", "drop_key", "insert_access",
              "update_access", "currency", "latest_successful", "findings", "decide",
              "audit", "early_commit", "respond", "commit", "done", "failed"}
Responses == {"none", "login", "forbidden", "not_found", "conflict", "bad_request",
              "error", "success"}

AccountRow(u) == <<"account", u>>
RoleRow(u, s) == <<"role", u, s>>
AccessRow(r)  == <<"access", call[r].item>>

------------------------------------------------------------------------------
(* Who asks *)

\* is_platform_admin, is_privileged_user
IsPlatform(u) == db[RoleRow(u, Platform)] = "admin"

MemberOf(u, o) == o \in Orgs /\ db[RoleRow(u, o)] # Absent

\* get_default_org_for_user.  Whoever has got an account here has one membership,
\* or none.
HomeOf(u) == {o \in Orgs : MemberOf(u, o) /\ (u \in Accounts => o = DefaultOrg[u])}

\* user_has_permission in the default organisation: the admin role grants all.
IsOrgAdmin(u) == \E o \in HomeOf(u) : db[RoleRow(u, o)] = "admin"

PlatformJobs == {"access", "scan", "health", "decide", "audit_controls"}

Authorized(r) ==
    IF IsPlatform(call[r].user) THEN call[r].user \in Enrolled
    ELSE call[r].job \notin PlatformJobs /\ IsOrgAdmin(call[r].user)

Init ==
    /\ InitTransactions([k \in RowIds |->
           CASE \E u \in Accounts : k = AccountRow(u)                   -> "active"
             [] \E g \in Roles : k = RoleRow(g[1], g[2]) /\ g[3] = "admin" -> "admin"
             [] \E g \in Roles : k = RoleRow(g[1], g[2]) /\ g[3] = "user"  -> "user"
             [] \E key \in OldKeys : k = <<"key", key>>                 -> "active"
             [] \E p \in Proposals : k = <<"decision", p>>              -> "held"
             [] OTHER                                                   -> Absent])
    /\ call \in Workloads
    /\ began = <<>>
    /\ loaded = [r \in Requests |-> {}]
    /\ latest = [r \in Requests |-> Absent]
    /\ successful = [r \in Requests |-> Absent]
    /\ inventory = [r \in Requests |-> {}]

Begins(r, jobs) == pc[r] = "begin" /\ call[r].job \in jobs

Refuse(r, answer) == Fail(r, answer) /\ UNCHANGED <<db, faults, call, began, locals>>

Continue(r, phase) ==
    /\ GoTo(r, phase)
    /\ UNCHANGED <<db, writes, response, faults, call, began>>

FlushEach(r, contents, phase) ==
    /\ PutEach(r, contents)
    /\ GoTo(r, phase)
    /\ UNCHANGED <<db, response, faults, call, began, locals>>

Flush(r, K, content, phase) == FlushEach(r, [k \in K |-> content], phase)

\* _resolve.  The transaction begins with its first query, which is the now() that a
\* scan is started at.
Resolve(r) ==
    /\ pc[r] = "idle"
    /\ db[AccountRow(call[r].user)] = "active"
    /\ Authorized(r)
    /\ began' = IF call[r].job = "scan" THEN Append(began, r) ELSE began
    /\ GoTo(r, "begin")
    /\ UNCHANGED <<db, writes, response, faults, call, locals>>

NotLoggedIn(r) ==
    /\ pc[r] = "idle"
    /\ db[AccountRow(call[r].user)] # "active"
    /\ Refuse(r, "login")

NotAuthorized(r) ==
    /\ pc[r] = "idle"
    /\ db[AccountRow(call[r].user)] = "active"
    /\ ~Authorized(r)
    /\ Refuse(r, "forbidden")

------------------------------------------------------------------------------
(* Users *)

\* EmailAlreadyRegistered
UserExists(r) ==
    /\ Begins(r, {"create_user"})
    /\ db[AccountRow(call[r].item)] # Absent
    /\ Refuse(r, "conflict")

UserMissing(r) ==
    /\ Begins(r, {"create_user"})
    /\ db[AccountRow(call[r].item)] = Absent
    /\ Continue(r, "insert_user")
    /\ UNCHANGED locals

\* Addresses are unique.
InsertUser(r) ==
    /\ pc[r] = "insert_user"
    /\ Free(r, AccountRow(call[r].item))
    /\ IF db[AccountRow(call[r].item)] = Absent
       THEN Flush(r, {AccountRow(call[r].item)}, "active", "assign_role")
       ELSE Refuse(r, "error")

\* Mutant: the role is granted for the whole platform, whoever creates the user.
PlatformScope(r) == {Platform}

\* Where a user that r creates has a role: as a member, or chassis-wide.
ScopeOfNewUser(r) ==
    IF IsPlatform(call[r].user) THEN {Platform}
    ELSE HomeOf(call[r].user)

AssignRole(r) ==
    /\ pc[r] = "assign_role"
    /\ Flush(r, {RoleRow(call[r].item, s) : s \in ScopeOfNewUser(r)},
             IF call[r].option THEN "admin" ELSE "user", "audit")

Reaches(r, u) ==
    \/ IsPlatform(call[r].user)
    \/ \E o \in HomeOf(call[r].user) : MemberOf(u, o)

OwnAccount(r) == call[r].job = "deactivate" /\ call[r].item = call[r].user

DeactivatesItself(r) ==
    /\ Begins(r, {"deactivate"})
    /\ OwnAccount(r)
    /\ Refuse(r, "bad_request")

UserNotFound(r) ==
    /\ Begins(r, {"deactivate", "reactivate"})
    /\ ~OwnAccount(r)
    /\ db[AccountRow(call[r].item)] = Absent \/ ~Reaches(r, call[r].item)
    /\ Refuse(r, "not_found")

Wished(r) == IF call[r].job = "reactivate" THEN "active" ELSE "inactive"

\* An account that is as it should be is not written.
LoadUser(r) ==
    /\ Begins(r, {"deactivate", "reactivate"})
    /\ ~OwnAccount(r)
    /\ db[AccountRow(call[r].item)] # Absent
    /\ Reaches(r, call[r].item)
    /\ Continue(r, IF db[AccountRow(call[r].item)] = Wished(r) THEN "audit"
                   ELSE "set_active")
    /\ UNCHANGED locals

SetActive(r) ==
    /\ pc[r] = "set_active"
    /\ Flush(r, {AccountRow(call[r].item)}, Wished(r), "audit")

------------------------------------------------------------------------------
(* Provider keys *)

\* The scope that set_key is asked for: none, for an organisation that the
\* administrator does not have.
ScopeOfCall(r) ==
    IF call[r].option THEN {Platform} ELSE HomeOf(call[r].user)

ScopeOf(k) == IF k \in OldKeys THEN {KeyScope[k]} ELSE ScopeOfCall(k)

SharedKeyForbidden(r) ==
    /\ Begins(r, {"set_key"})
    /\ call[r].option
    /\ ~IsPlatform(call[r].user)
    /\ Refuse(r, "forbidden")

\* No organisation, or a ValueError.
KeyNotAccepted(r) ==
    /\ Begins(r, {"set_key"})
    /\ call[r].option => IsPlatform(call[r].user)
    /\ ScopeOfCall(r) = {} \/ ~call[r].valid
    /\ Refuse(r, "bad_request")

\* Mutant: the keys of the provider, whichever scope they have.
ActiveKeysAnywhere(r) == {k \in KeyIds : db[<<"key", k>>] = "active"}

\* The SELECT of _deactivate_existing.
ActiveKeys(r) ==
    {k \in KeyIds : db[<<"key", k>>] = "active" /\ ScopeOf(k) = ScopeOfCall(r)}

LoadActiveKeys(r) ==
    /\ Begins(r, {"set_key"})
    /\ call[r].option => IsPlatform(call[r].user)
    /\ ScopeOfCall(r) # {}
    /\ call[r].valid
    /\ loaded' = [loaded EXCEPT ![r] = ActiveKeys(r)]
    /\ Continue(r, "deactivate_keys")
    /\ UNCHANGED <<latest, successful, inventory>>

\* A key that has been deactivated since is deactivated again.
DeactivateExisting(r) ==
    /\ pc[r] = "deactivate_keys"
    /\ Flush(r, {<<"key", k>> : k \in loaded[r]}, "inactive", "insert_key")

InsertKey(r) ==
    /\ pc[r] = "insert_key"
    /\ Flush(r, {<<"key", r>>}, "active", "audit")

MayDrop(r) ==
    /\ db[<<"key", call[r].item>>] # Absent
    /\ \/ IsPlatform(call[r].user)
       \/ \E o \in HomeOf(call[r].user) : ScopeOf(call[r].item) = {o}

NotYourKey(r) ==
    /\ Begins(r, {"drop_key"})
    /\ ~MayDrop(r)
    /\ Refuse(r, "forbidden")

LoadKey(r) ==
    /\ Begins(r, {"drop_key"})
    /\ MayDrop(r)
    /\ Continue(r, IF db[<<"key", call[r].item>>] = "active" THEN "drop_key" ELSE "audit")
    /\ UNCHANGED locals

DeactivateKey(r) ==
    /\ pc[r] = "drop_key"
    /\ Flush(r, {<<"key", call[r].item>>}, "inactive", "audit")

Policy(r) == IF call[r].option THEN "allowed" ELSE "denied"

\* set_org_shared_access
LookForAccess(r) ==
    /\ Begins(r, {"access"})
    /\ Continue(r, CASE db[AccessRow(r)] = Absent    -> "insert_access"
                     [] db[AccessRow(r)] = Policy(r) -> "audit"
                     [] OTHER                        -> "update_access")
    /\ UNCHANGED locals

\* One row for each organisation.
InsertAccess(r) ==
    /\ pc[r] = "insert_access"
    /\ Free(r, AccessRow(r))
    /\ IF db[AccessRow(r)] = Absent THEN Flush(r, {AccessRow(r)}, Policy(r), "audit")
       ELSE Refuse(r, "error")

UpdateAccess(r) ==
    /\ pc[r] = "update_access"
    /\ Flush(r, {AccessRow(r)}, Policy(r), "audit")

------------------------------------------------------------------------------
(* Platform health *)

\* pip-audit has no result: the scan is stored, and nothing with it.
PipAuditFails(r) ==
    /\ Begins(r, {"scan"})
    /\ Flush(r, {<<"scan", r>>}, "failed", "audit")

PipAuditAnswers(r) ==
    /\ Begins(r, {"scan"})
    /\ Flush(r, {<<"scan", r>>}, "ok", "currency")

\* The inventory and its findings, and whether PyPI has answered for every
\* component.
StoreInventory(r) ==
    /\ pc[r] = "currency"
    /\ \E status \in {"ok", "partial"} :
          Flush(r, {<<"scan", r>>, <<"inventory", r>>}, status, "audit")

\* The one of the scans S whose transaction began last.
Latest(S) ==
    IF S = {} THEN Absent
    ELSE LET Starts == {i \in DOMAIN began : began[i] \in S}
         IN  began[CHOOSE i \in Starts : \A j \in Starts : j <= i]

\* get_latest_scan
ReadLatest(r) ==
    /\ Begins(r, {"health"})
    /\ latest' = [latest EXCEPT ![r] =
                     Latest({s \in Requests : db[<<"scan", s>>] # Absent})]
    /\ Continue(r, "latest_successful")
    /\ UNCHANGED <<loaded, successful, inventory>>

\* Mutant: a scan that has failed counts as well.
Completed == {s \in Requests : db[<<"scan", s>>] # Absent}

Successful == {s \in Requests : db[<<"scan", s>>] \in {"ok", "partial"}}

\* get_latest_successful_scan
ReadLatestSuccessful(r) ==
    /\ pc[r] = "latest_successful"
    /\ successful' = [successful EXCEPT ![r] = Latest(Successful)]
    /\ Continue(r, "findings")
    /\ UNCHANGED <<loaded, latest, inventory>>

\* list_findings, list_inventory
ReadFindings(r) ==
    /\ pc[r] = "findings"
    /\ inventory' = [inventory EXCEPT ![r] =
                        {s \in {successful[r]} \ {Absent} : db[<<"inventory", s>>] # Absent}]
    /\ Continue(r, "respond")
    /\ UNCHANGED <<loaded, latest, successful>>

Decision(r) == IF call[r].option THEN "approved" ELSE "rejected"

\* Mutant: a decision is stored as it is sent.
AnyDecision(r) ==
    /\ Begins(r, {"decide"})
    /\ ~call[r].valid
    /\ Flush(r, {<<"decision", call[r].item>>}, "deferred", "audit")

\* A ValueError that nobody catches.
InvalidDecision(r) ==
    /\ Begins(r, {"decide"})
    /\ ~call[r].valid
    /\ Refuse(r, "error")

\* decide_remediation, of a proposal that is held or has been decided.  The UPDATE
\* sets what differs from the row as it was loaded.
LoadProposal(r) ==
    /\ Begins(r, {"decide"})
    /\ call[r].valid
    /\ loaded' = [loaded EXCEPT ![r] =
           {<<"decided_at", call[r].item>>}
             \cup {k \in {<<"decision", call[r].item>>} : db[k] # Decision(r)}
             \cup {k \in {<<"decider", call[r].item>>} : db[k] # call[r].user}]
    /\ Continue(r, "decide")
    /\ UNCHANGED <<latest, successful, inventory>>

UpdateProposal(r) ==
    /\ pc[r] = "decide"
    /\ FlushEach(r, [k \in loaded[r] |-> CASE k[1] = "decision" -> Decision(r)
                                           [] k[1] = "decider"  -> call[r].user
                                           [] OTHER             -> "recorded"], "audit")

------------------------------------------------------------------------------
(* The audit of controls, and the end of a request *)

\* run_audit: a check that raises is a finding.
RunChecks(r) ==
    /\ Begins(r, {"audit_controls"})
    /\ \E verdict \in {"ok", "failed"} : Flush(r, {<<"report", r>>}, verdict, "audit")

Audit(r) ==
    /\ pc[r] = "audit"
    /\ Flush(r, {<<"audit", r>>}, "recorded", "early_commit")

EarlyCommit(r) ==
    /\ pc[r] = "early_commit"
    /\ CommitRows(r)
    /\ GoTo(r, "respond")
    /\ UNCHANGED <<response, faults, call, began, locals>>

Respond(r) ==
    /\ pc[r] = "respond"
    /\ Answer(r, "commit")
    /\ UNCHANGED <<db, writes, faults, call, began, locals>>

Commit(r) ==
    /\ pc[r] = "commit"
    /\ CommitRows(r)
    /\ GoTo(r, "done")
    /\ UNCHANGED <<response, faults, call, began, locals>>

CutOff(r) == Interrupted(r) /\ UNCHANGED <<call, began, locals>>

------------------------------------------------------------------------------
Enter(r)  == Resolve(r) \/ NotLoggedIn(r) \/ NotAuthorized(r)
People(r) == \/ UserExists(r) \/ UserMissing(r) \/ InsertUser(r) \/ AssignRole(r)
             \/ DeactivatesItself(r) \/ UserNotFound(r) \/ LoadUser(r) \/ SetActive(r)
Keys(r)   == \/ SharedKeyForbidden(r) \/ KeyNotAccepted(r) \/ LoadActiveKeys(r)
             \/ DeactivateExisting(r) \/ InsertKey(r) \/ NotYourKey(r) \/ LoadKey(r)
             \/ DeactivateKey(r) \/ LookForAccess(r) \/ InsertAccess(r) \/ UpdateAccess(r)
Health(r) == \/ PipAuditFails(r) \/ PipAuditAnswers(r) \/ StoreInventory(r)
             \/ ReadLatest(r) \/ ReadLatestSuccessful(r) \/ ReadFindings(r)
             \/ InvalidDecision(r) \/ LoadProposal(r) \/ UpdateProposal(r) \/ RunChecks(r)
Finish(r) == Audit(r) \/ EarlyCommit(r) \/ Respond(r) \/ Commit(r) \/ CutOff(r)

Step(r) == Enter(r) \/ People(r) \/ Keys(r) \/ Health(r) \/ Finish(r)

Next == \E r \in Requests : Step(r)

Spec == Init /\ [][Next]_vars

------------------------------------------------------------------------------
(* Properties *)

TypeOK ==
    /\ TransactionsTypeOK(RowIds, Contents, Phases, Responses)
    /\ call \in Workloads
    /\ began \in Seq(Requests)
    /\ loaded \in [Requests -> SUBSET (KeyIds \cup RowIds)]
    /\ latest \in [Requests -> Requests \cup {Absent}]
    /\ successful \in [Requests -> Requests \cup {Absent}]
    /\ inventory \in [Requests -> SUBSET Requests]

\* What an audited request of some job has asked for.
Done(jobs) == {s \in Requests : call[s].job \in jobs /\ db[<<"audit", s>>] # Absent}

\* FR-ADM-2: nobody becomes an administrator beyond the reach of who made them one;
\* an account is deactivated by an administrator of the platform or of an
\* organisation of the user, and by another user; and the platform's policy, scans,
\* reports and decisions are its administrators'.
WithinReach ==
    /\ \A u \in Users, s \in Scopes :
          (db[RoleRow(u, s)] # Absent /\ \A g \in Roles : <<g[1], g[2]>> # <<u, s>>) =>
             \E t \in Done({"create_user"}) :
                /\ call[t].item = u
                /\ IF s = Platform THEN IsPlatform(call[t].user)
                   ELSE db[RoleRow(call[t].user, s)] = "admin"
    /\ \A u \in Users : db[AccountRow(u)] = "inactive" =>
          \E t \in Done({"deactivate"}) :
             call[t].item = u /\ call[t].user # u /\ Reaches(t, u)
    /\ \A t \in Done(PlatformJobs) : IsPlatform(call[t].user)
    /\ \A o \in Orgs : db[<<"access", o>>] # Absent =>
          \E t \in Done({"access"}) : call[t].item = o /\ Policy(t) = db[<<"access", o>>]
    /\ \A p \in Proposals : db[<<"decision", p>>] # "held" =>
          \E t \in Done({"decide"}) : call[t].item = p /\ Decision(t) = db[<<"decision", p>>]
    /\ \A t \in Requests, table \in {"scan", "report"} :
          db[<<table, t>>] # Absent => t \in Done({"scan", "audit_controls"})

\* FR-LLM: a scope that has had a key keeps one until a key of it is deactivated
\* on purpose, however many new keys are set at once, also in other scopes.
KeysStayUsable ==
    \A s \in Scopes :
        (/\ \E k \in KeyIds : ScopeOf(k) = {s} /\ db[<<"key", k>>] # Absent
         /\ \A t \in Done({"drop_key"}) : ScopeOf(call[t].item) # {s})
        => \E k \in KeyIds : ScopeOf(k) = {s} /\ db[<<"key", k>>] = "active"

\* FR-PLATHEALTH-11: a scan has an inventory if and only if it has not failed; the
\* page shows the inventory of a scan that has not failed, one that is not older
\* than the latest scan unless that one failed, and takes no failed one for current.
ScansFailClosed ==
    /\ \A t \in Requests :
          db[<<"inventory", t>>] # Absent <=> db[<<"scan", t>>] \in {"ok", "partial"}
    /\ \A r \in Requests : pc[r] \in {"respond", "commit", "done"} /\ call[r].job = "health" =>
          /\ inventory[r] = {successful[r]} \ {Absent}
          /\ inventory[r] \subseteq Successful
          /\ latest[r] \in Successful =>
                successful[r] = Latest({latest[r], successful[r]})
==============================================================================
