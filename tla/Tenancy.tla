-------------------------------- MODULE Tenancy --------------------------------
(***************************************************************************)
(* Organisations as tenants: which organisation a request works in         *)
(* (app/orgs/service.py, app/deps.py), the filter on what it reads and the *)
(* organisation of what it inserts (app/db.py), and the resources that are *)
(* shared with every organisation (accessibility_assistant/service.py,     *)
(* here for information source categories; sources and FAQs share the same *)
(* helpers).                                                               *)
(*                                                                         *)
(* Requests interleave at their awaits over one database at READ COMMITTED *)
(* and commit after the response, as in QuestionAnswering.  The current    *)
(* organisation is a context variable of the request's own task.           *)
(*                                                                         *)
(* An organisation or category that is created is known by its request.    *)
(* Permissions are given; the platform administrators do not change.       *)
(***************************************************************************)
EXTENDS Naturals, FiniteSets

CONSTANTS Requests,    \* the HTTP requests that may be served
          Orgs,        \* organisations that exist at first
          NoOrg,       \* no organisation
          Users,
          Superusers,  \* users with is_superuser, the platform administrators
          Home,        \* the organisation an administrator created a user in
          Keys,        \* slugs of organisations, names of categories
          Calls,       \* what requests may ask for
          MaxFaults    \* bound: requests cut off by a database error or crash

AllOrgs == Orgs \cup Requests

Jobs == {"create_org", "switch", "create", "list", "share"}

ASSUME TenancyAssumption ==
    /\ NoOrg \notin AllOrgs
    /\ Orgs \cap Requests = {}
    /\ Home \in [Users -> Orgs \cup {NoOrg}]
    /\ MaxFaults \in Nat
    /\ \A c \in Calls : /\ c.job \in Jobs
                        /\ c.user \in Users
                        /\ c.key \in Keys
                        /\ c.target \in AllOrgs
                        /\ c.job = "share" => c.target \in Requests
                        /\ c.flag \in BOOLEAN

VARIABLES pc,        \* where each request stands
          call,      \* what it asks for
          ctx,       \* current_org_id_var in its task
          saved,     \* local `saved_org_id`
          org,       \* the route's `org`
          first,     \* create_org's `not has_existing`
          clearing,  \* memberships the UPDATE of switch_default_org has found
          seen,      \* is_platform_shared as loaded
          result,    \* categories listed
          filed,     \* organisation of the rows it inserts
          audited,   \* organisation of its audit row
          id,        \* memberships.id of the membership each organisation began with
          pending,   \* rows flushed but not committed
          durable,   \* rows committed
          response,  \* what the client has been sent
          member,    \* committed memberships of each user
          default,   \* those with is_default
          shared,    \* committed is_platform_shared of each category
          faults

vars == <<pc, call, ctx, saved, org, first, clearing, seen, result, filed, audited,
          id, pending, durable, response, member, default, shared, faults>>

tables == <<durable, member, default, shared>>
locals == <<ctx, saved, org, first, clearing, seen, result, filed, audited, id>>

Phases    == {"idle", "insert_org", "has_existing", "membership", "clear", "lock",
              "choose", "check", "insert", "unbind", "read", "flag", "respond",
              "commit", "done", "failed"}
Rows      == {"organization", "membership", "defaults", "category", "flag", "audit"}
Responses == {"none", "bad_request", "forbidden", "conflict", "not_found", "error",
              "success"}

InFlight(r) == pc[r] \notin {"idle", "done", "failed"}

------------------------------------------------------------------------------
(* What the tables say *)

Oldest(S) == {o \in S : \A p \in S : id[o] <= id[p]}

\* get_default_org_for_user: ORDER BY is_default DESC, id LIMIT 1.
DefaultOrg(u) == Oldest(IF default[u] # {} THEN default[u] ELSE member[u])

Categories == {r \in Requests : "category" \in durable[r]}

\* _filter_tenant_scoped_selects: SELECT sees the rows of the current
\* organisation, every row when none is bound.
Select(r) == {x \in Categories : ctx[r] = NoOrg \/ filed[x] = ctx[r]}

\* _creator_role_snapshot_for, recorded when the row is inserted.
ByPlatformAdmin(x) == call[x].user \in Superusers

------------------------------------------------------------------------------
Init ==
    /\ pc = [r \in Requests |-> "idle"]
    /\ call \in [Requests -> Calls]
    /\ ctx = [r \in Requests |-> NoOrg]
    /\ saved = [r \in Requests |-> NoOrg]
    /\ org = [r \in Requests |-> NoOrg]
    /\ first = [r \in Requests |-> FALSE]
    /\ clearing = [r \in Requests |-> {}]
    /\ seen = [r \in Requests |-> FALSE]
    /\ result = [r \in Requests |-> {}]
    /\ filed = [r \in Requests |-> NoOrg]
    /\ audited = [r \in Requests |-> NoOrg]
    /\ id = [o \in AllOrgs |-> 0]
    /\ pending = [r \in Requests |-> {}]
    /\ durable = [r \in Requests |-> {}]
    /\ response = [r \in Requests |-> "none"]
    /\ member = [u \in Users |-> IF Home[u] = NoOrg THEN {} ELSE {Home[u]}]
    /\ default = member
    /\ shared = [r \in Requests |-> FALSE]
    /\ faults = 0

GoTo(r, phase) == pc' = [pc EXCEPT ![r] = phase]

Flush(r, rows) == pending' = [pending EXCEPT ![r] = @ \cup rows]

\* An exception leaves the handler: the session is rolled back.
RollBackWith(r, answer) ==
    /\ pc' = [pc EXCEPT ![r] = "failed"]
    /\ pending' = [pending EXCEPT ![r] = {}]
    /\ response' = [response EXCEPT ![r] = answer]

------------------------------------------------------------------------------
(* POST /orgs: create_org *)

CreateOrg(r) == call[r].job = "create_org"

SlugHeld(r, rows) ==
    \E t \in Requests \ {r} :
        CreateOrg(t) /\ call[t].key = call[r].key /\ "organization" \in rows[t]

CheckSlug(r) ==
    /\ pc[r] = "idle"
    /\ CreateOrg(r)
    /\ IF SlugHeld(r, durable) THEN RollBackWith(r, "conflict")
       ELSE GoTo(r, "insert_org") /\ UNCHANGED <<pending, response>>
    /\ UNCHANGED <<call, locals, tables, faults>>

\* The unique index on slug: an INSERT waits for the other one, and fails if
\* that one commits.
InsertOrg(r) ==
    /\ pc[r] = "insert_org"
    /\ ~SlugHeld(r, pending)
    /\ IF SlugHeld(r, durable) THEN RollBackWith(r, "error")
       ELSE GoTo(r, "has_existing") /\ Flush(r, {"organization"}) /\ UNCHANGED response
    /\ UNCHANGED <<call, locals, tables, faults>>

\* Mutant: every new organisation is a default.
HasExistingIgnored(r) ==
    /\ pc[r] = "has_existing"
    /\ first' = [first EXCEPT ![r] = TRUE]
    /\ GoTo(r, "membership")
    /\ UNCHANGED <<call, ctx, saved, org, clearing, seen, result, filed, audited, id,
                   pending, response, tables, faults>>

HasExisting(r) ==
    /\ pc[r] = "has_existing"
    /\ first' = [first EXCEPT ![r] = member[call[r].user] = {}]
    /\ GoTo(r, "membership")
    /\ UNCHANGED <<call, ctx, saved, org, clearing, seen, result, filed, audited, id,
                   pending, response, tables, faults>>

\* The membership takes the next id of its sequence; no organisation is bound on
\* this route, so the audit row is filed under none.
InsertMembership(r) ==
    /\ pc[r] = "membership"
    /\ id' = [id EXCEPT ![r] = 1 + Cardinality({t \in Requests : id[t] # 0})]
    /\ audited' = [audited EXCEPT ![r] = ctx[r]]
    /\ Flush(r, {"membership", "audit"})
    /\ GoTo(r, "respond")
    /\ UNCHANGED <<call, ctx, saved, org, first, clearing, seen, result, filed,
                   response, tables, faults>>

------------------------------------------------------------------------------
(* PUT /orgs/me: switch_default_org *)

VerifyMember(r) ==
    /\ pc[r] = "idle"
    /\ call[r].job = "switch"
    /\ IF call[r].target \in member[call[r].user]
       THEN GoTo(r, "clear") /\ UNCHANGED <<pending, response>>
       ELSE RollBackWith(r, "forbidden")
    /\ UNCHANGED <<call, locals, tables, faults>>

\* The first UPDATE finds the memberships in the snapshot of its start ...
FindMemberships(r) ==
    /\ pc[r] = "clear"
    /\ clearing' = [clearing EXCEPT ![r] = member[call[r].user]]
    /\ GoTo(r, "lock")
    /\ UNCHANGED <<call, ctx, saved, org, first, seen, result, filed, audited, id,
                   pending, response, tables, faults>>

DefaultsHeld(r) ==
    \E t \in Requests \ {r} : /\ call[t].user = call[r].user
                              /\ "defaults" \in pending[t]
                              /\ clearing[t] \cap clearing[r] # {}

\* ... and changes them once no other transaction holds them.
ClearDefaults(r) ==
    /\ pc[r] = "lock"
    /\ ~DefaultsHeld(r)
    /\ Flush(r, {"defaults"})
    /\ GoTo(r, "choose")
    /\ UNCHANGED <<call, locals, response, tables, faults>>

\* The second UPDATE, of a row the first one holds; the audit row.
ChooseDefault(r) ==
    /\ pc[r] = "choose"
    /\ audited' = [audited EXCEPT ![r] = ctx[r]]
    /\ Flush(r, {"audit"})
    /\ GoTo(r, "respond")
    /\ UNCHANGED <<call, ctx, saved, org, first, clearing, seen, result, filed, id,
                   response, tables, faults>>

------------------------------------------------------------------------------
(* Requests in an organisation *)

\* get_current_org: the default organisation is resolved once, and bound.
BindOrg(r) ==
    /\ pc[r] = "idle"
    /\ call[r].job \in {"create", "list", "share"}
    /\ \E o \in DefaultOrg(call[r].user) :
           /\ org' = [org EXCEPT ![r] = o]
           /\ ctx' = [ctx EXCEPT ![r] = o]
    /\ GoTo(r, IF call[r].job = "create" THEN "check" ELSE "unbind")
    /\ UNCHANGED <<call, saved, first, clearing, seen, result, filed, audited, id,
                   pending, response, tables, faults>>

Orgless(r) ==
    /\ pc[r] = "idle"
    /\ call[r].job \in {"create", "list", "share"}
    /\ member[call[r].user] = {}
    /\ RollBackWith(r, "bad_request")
    /\ UNCHANGED <<call, locals, tables, faults>>

\* create_information_source_category: the name is looked for under the filter.
CheckName(r) ==
    /\ pc[r] = "check"
    /\ IF \E x \in Select(r) : call[x].key = call[r].key
       THEN RollBackWith(r, "conflict")
       ELSE GoTo(r, "insert") /\ UNCHANGED <<pending, response>>
    /\ UNCHANGED <<call, locals, tables, faults>>

\* Mutant: no unique constraint.
NameNeverHeld(r, rows) == FALSE

NameHeld(r, rows) ==
    \E t \in Requests \ {r} : /\ "category" \in rows[t]
                              /\ call[t].key = call[r].key
                              /\ filed[t] = ctx[r]

\* _inject_org_on_insert files the row under the bound organisation; the unique
\* constraint on (org_id, name).
InsertCategory(r) ==
    /\ pc[r] = "insert"
    /\ ~NameHeld(r, pending)
    /\ IF NameHeld(r, durable)
       THEN RollBackWith(r, "error") /\ UNCHANGED <<filed, audited>>
       ELSE /\ filed' = [filed EXCEPT ![r] = ctx[r]]
            /\ audited' = [audited EXCEPT ![r] = ctx[r]]
            /\ Flush(r, {"category", "audit"})
            /\ GoTo(r, "respond")
            /\ UNCHANGED response
    /\ UNCHANGED <<call, ctx, saved, org, first, clearing, seen, result, id, tables,
                   faults>>

\* _share_resource: PlatformShareDenied.
DenyShare(r) ==
    /\ pc[r] = "unbind"
    /\ call[r].job = "share"
    /\ call[r].user \notin Superusers
    /\ RollBackWith(r, "forbidden")
    /\ UNCHANGED <<call, locals, tables, faults>>

\* _select_own_org_or_shared and _share_resource take the filter away for one
\* query.
Unbind(r) ==
    /\ pc[r] = "unbind"
    /\ call[r].job = "share" => call[r].user \in Superusers
    /\ saved' = [saved EXCEPT ![r] = ctx[r]]
    /\ ctx' = [ctx EXCEPT ![r] = NoOrg]
    /\ GoTo(r, "read")
    /\ UNCHANGED <<call, org, first, clearing, seen, result, filed, audited, id,
                   pending, response, tables, faults>>

Rebind(r) == ctx' = [ctx EXCEPT ![r] = saved[r]]

\* Mutant: every category, with the filter off.
ListEveryCategory(r) ==
    /\ pc[r] = "read"
    /\ call[r].job = "list"
    /\ result' = [result EXCEPT ![r] = Select(r)]
    /\ Rebind(r)
    /\ GoTo(r, "respond")
    /\ UNCHANGED <<call, saved, org, first, clearing, seen, filed, audited, id, pending,
                   response, tables, faults>>

\* The explicit predicate of _select_own_org_or_shared; `finally` restores.
ListCategories(r) ==
    /\ pc[r] = "read"
    /\ call[r].job = "list"
    /\ result' = [result EXCEPT ![r] = {x \in Select(r) : filed[x] = org[r] \/ shared[x]}]
    /\ Rebind(r)
    /\ GoTo(r, "respond")
    /\ UNCHANGED <<call, saved, org, first, clearing, seen, filed, audited, id, pending,
                   response, tables, faults>>

\* Mutant: the filter stays off.
LoadCategoryUnrestored(r) ==
    /\ pc[r] = "read"
    /\ call[r].job = "share"
    /\ call[r].target \in Select(r)
    /\ seen' = [seen EXCEPT ![r] = shared[call[r].target]]
    /\ GoTo(r, "flag")
    /\ UNCHANGED <<call, ctx, saved, org, first, clearing, result, filed, audited, id,
                   pending, response, tables, faults>>

\* Mutant: rows of any creator may be shared.
EligibleAnyway(x, flag) == TRUE

\* PlatformShareIneligible
Eligible(x, flag) == flag => ByPlatformAdmin(x)

LoadCategory(r) ==
    /\ pc[r] = "read"
    /\ call[r].job = "share"
    /\ call[r].target \in Select(r)
    /\ Rebind(r)
    /\ IF Eligible(call[r].target, call[r].flag)
       THEN /\ seen' = [seen EXCEPT ![r] = shared[call[r].target]]
            /\ GoTo(r, "flag")
            /\ UNCHANGED <<pending, response>>
       ELSE RollBackWith(r, "forbidden") /\ UNCHANGED seen
    /\ UNCHANGED <<call, saved, org, first, clearing, result, filed, audited, id,
                   tables, faults>>

CategoryMissing(r) ==
    /\ pc[r] = "read"
    /\ call[r].job = "share"
    /\ call[r].target \notin Select(r)
    /\ Rebind(r)
    /\ RollBackWith(r, "not_found")
    /\ UNCHANGED <<call, saved, org, first, clearing, seen, result, filed, audited, id,
                   tables, faults>>

\* A flag that is as loaded needs no UPDATE, another one waits for whoever holds
\* the row.
SetFlag(r) ==
    /\ pc[r] = "flag"
    /\ IF seen[r] = call[r].flag THEN Flush(r, {"audit"})
       ELSE /\ \A t \in Requests \ {r} :
                  "flag" \in pending[t] => call[t].target # call[r].target
            /\ Flush(r, {"flag", "audit"})
    /\ audited' = [audited EXCEPT ![r] = ctx[r]]
    /\ GoTo(r, "respond")
    /\ UNCHANGED <<call, ctx, saved, org, first, clearing, seen, result, filed, id,
                   response, tables, faults>>

------------------------------------------------------------------------------
(* The end of a request *)

Respond(r) ==
    /\ pc[r] = "respond"
    /\ response' = [response EXCEPT ![r] = "success"]
    /\ GoTo(r, "commit")
    /\ UNCHANGED <<call, locals, pending, tables, faults>>

\* Mutant: the second UPDATE of a switch has no effect.
DefaultAfterUnset(r) ==
    (IF "defaults" \in pending[r] THEN default[call[r].user] \ clearing[r]
     ELSE default[call[r].user])
        \cup (IF "membership" \in pending[r] /\ first[r] THEN {r} ELSE {})

\* Mutant: the default becomes the organisation bound to the request.
DefaultAfterBound(r) ==
    (IF "defaults" \in pending[r] THEN (default[call[r].user] \ clearing[r]) \cup {org[r]}
     ELSE default[call[r].user])
        \cup (IF "membership" \in pending[r] /\ first[r] THEN {r} ELSE {})

\* What the rows of r make of its user's default flags.
DefaultAfter(r) ==
    (IF "defaults" \in pending[r]
     THEN (default[call[r].user] \ clearing[r]) \cup {call[r].target}
     ELSE default[call[r].user])
        \cup (IF "membership" \in pending[r] /\ first[r] THEN {r} ELSE {})

Commit(r) ==
    /\ pc[r] = "commit"
    /\ member' = [member EXCEPT ![call[r].user] =
                     @ \cup (IF "membership" \in pending[r] THEN {r} ELSE {})]
    /\ default' = [default EXCEPT ![call[r].user] = DefaultAfter(r)]
    /\ shared' = IF "flag" \in pending[r]
                 THEN [shared EXCEPT ![call[r].target] = call[r].flag]
                 ELSE shared
    /\ durable' = [durable EXCEPT ![r] = pending[r]]
    /\ pending' = [pending EXCEPT ![r] = {}]
    /\ GoTo(r, "done")
    /\ UNCHANGED <<call, locals, response, faults>>

\* A statement or the commit fails, or the process dies.
CutOff(r) ==
    /\ InFlight(r)
    /\ faults < MaxFaults
    /\ faults' = faults + 1
    /\ RollBackWith(r, IF response[r] = "success" THEN "success" ELSE "error")
    /\ UNCHANGED <<call, locals, tables>>

------------------------------------------------------------------------------
Arrive(r)   == CheckSlug(r) \/ VerifyMember(r) \/ BindOrg(r) \/ Orgless(r)
Organise(r) == \/ InsertOrg(r) \/ HasExisting(r) \/ InsertMembership(r)
               \/ FindMemberships(r) \/ ClearDefaults(r) \/ ChooseDefault(r)
Work(r)     == \/ CheckName(r) \/ InsertCategory(r) \/ DenyShare(r) \/ Unbind(r)
               \/ ListCategories(r) \/ LoadCategory(r) \/ CategoryMissing(r)
               \/ SetFlag(r)
Advance(r)  == Organise(r) \/ Work(r) \/ Respond(r) \/ Commit(r)

Step(r) == Arrive(r) \/ Advance(r) \/ CutOff(r)

Next == \E r \in Requests : Step(r)

Spec == Init /\ [][Next]_vars

------------------------------------------------------------------------------
(* Properties *)

TypeOK ==
    /\ pc \in [Requests -> Phases]
    /\ call \in [Requests -> Calls]
    /\ ctx \in [Requests -> AllOrgs \cup {NoOrg}]
    /\ saved \in [Requests -> AllOrgs \cup {NoOrg}]
    /\ org \in [Requests -> AllOrgs \cup {NoOrg}]
    /\ first \in [Requests -> BOOLEAN]
    /\ clearing \in [Requests -> SUBSET AllOrgs]
    /\ seen \in [Requests -> BOOLEAN]
    /\ result \in [Requests -> SUBSET Requests]
    /\ filed \in [Requests -> AllOrgs \cup {NoOrg}]
    /\ audited \in [Requests -> AllOrgs \cup {NoOrg}]
    /\ DOMAIN id = AllOrgs
    /\ pending \in [Requests -> SUBSET Rows]
    /\ durable \in [Requests -> SUBSET Rows]
    /\ response \in [Requests -> Responses]
    /\ member \in [Users -> SUBSET AllOrgs]
    /\ default \in [Users -> SUBSET AllOrgs]
    /\ shared \in [Requests -> BOOLEAN]
    /\ faults \in 0..MaxFaults

\* A category belongs to an organisation of its creator, and whoever lists
\* categories gets those of an organisation of theirs and those a platform
\* administrator has created, although users switch and rows are shared and
\* withdrawn while requests run.
Isolation ==
    \A r \in Requests :
        /\ r \in Categories => filed[r] \in member[call[r].user]
        /\ \A x \in result[r] : \/ filed[x] \in member[call[r].user]
                                \/ ByPlatformAdmin(x)

\* FR-027: what is shared with every organisation is a category that a platform
\* administrator created.
SharedIsEligible ==
    \A x \in Requests : shared[x] => x \in Categories /\ ByPlatformAdmin(x)

\* All that a request leaves belongs to the one organisation it was bound to when
\* it began, the audit row included, although it may have had the filter off.
OneOrgPerRequest ==
    \A r \in Requests :
        /\ "audit" \in durable[r] => audited[r] = org[r]
        /\ "category" \in durable[r] => filed[r] = org[r] /\ org[r] # NoOrg

\* One name names one category of an organisation, one slug one organisation:
\* the check before the INSERT may have been overtaken.
NamesUnique ==
    \A r, t \in Requests :
        (r # t /\ call[r].key = call[t].key) =>
            /\ ~("organization" \in durable[r] /\ "organization" \in durable[t])
            /\ ({r, t} \subseteq Categories) => filed[r] # filed[t]

\* Whoever had an organisation when it all began always has a default among the
\* organisations they are in.  (It need not be the only one: an UPDATE that found
\* its rows before a membership was committed leaves that one's flag alone.)
HasDefault ==
    \A u \in Users : Home[u] # NoOrg => default[u] # {} /\ default[u] \subseteq member[u]

\* The rows that r has written, committed or not.
Written(r) == pending[r] \cup durable[r]

MayFlag(r) ==
    call[r].target \in Categories /\ Eligible(call[r].target, call[r].flag)

\* What a request in each phase knows.
RequestInv(r) ==
    /\ pc[r] = "idle" => Written(r) = {} /\ result[r] = {} /\ org[r] = NoOrg
    /\ pc[r] # "done" => durable[r] = {}
    /\ org[r] # NoOrg => org[r] \in member[call[r].user]
    /\ pc[r] \in {"check", "insert", "unbind", "read", "flag"} => org[r] # NoOrg
    /\ pc[r] \notin {"read", "failed"} => ctx[r] = org[r]
    /\ pc[r] = "read" => saved[r] = org[r]
    /\ pc[r] \in {"check", "insert"} => call[r].job = "create"
    /\ pc[r] = "insert_org" => CreateOrg(r)
    /\ pc[r] \in {"clear", "lock", "choose"} \/ "defaults" \in Written(r) =>
           call[r].job = "switch" /\ call[r].target \in member[call[r].user]
    /\ pc[r] = "flag" \/ "flag" \in Written(r) => call[r].job = "share" /\ MayFlag(r)

\* What its rows are.
RowsInv(r) ==
    /\ "audit" \in Written(r) => audited[r] = org[r]
    /\ "category" \in Written(r) =>
           call[r].job = "create" /\ filed[r] = org[r] /\ org[r] # NoOrg
    /\ "organization" \in Written(r) => CreateOrg(r)
    /\ first[r] => Home[call[r].user] = NoOrg

\* What it has listed.
ResultInv(r) ==
    \A x \in result[r] : /\ x \in Categories
                         /\ filed[x] = org[r] \/ ByPlatformAdmin(x)

\* A slug, or a name in an organisation, is taken as soon as a row is written.
TakenOnce ==
    \A r, t \in Requests :
        (r # t /\ call[r].key = call[t].key) =>
            /\ ~("organization" \in Written(r) /\ "organization" \in Written(t))
            /\ ~("category" \in Written(r) /\ "category" \in Written(t)
                 /\ filed[r] = filed[t])

\* What the memberships are.
MemberInv ==
    \A u \in Users :
        /\ default[u] \subseteq member[u]
        /\ Home[u] # NoOrg => default[u] # {}
        /\ \A r \in Requests : r \in member[u] => pc[r] = "done"

\* Inductive, with TypeOK: what the requests in flight know agrees with the
\* tables that the others have changed in the meantime.
TenantInv ==
    /\ \A r \in Requests : RequestInv(r) /\ RowsInv(r) /\ ResultInv(r)
    /\ TakenOnce
    /\ MemberInv
    /\ SharedIsEligible

SwitchCommitted(u) ==
    \E r \in Requests : /\ call[r].job = "switch" /\ call[r].user = u
                        /\ pc[r] = "commit" /\ pc'[r] = "done"

\* Only a switch takes such a user from one organisation to another: none that
\* they create does, in whatever order memberships get their ids and commit.
OnlySwitchesMove ==
    [][\A u \in Users : (Home[u] # NoOrg /\ DefaultOrg(u)' # DefaultOrg(u))
                           => SwitchCommitted(u)]_vars
==============================================================================
