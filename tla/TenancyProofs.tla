----------------------------- MODULE TenancyProofs -----------------------------
(***************************************************************************)
(* Proofs about Tenancy, for every set of requests, organisations, users   *)
(* and calls and any number of faults.                                     *)
(***************************************************************************)
EXTENDS Tenancy, TLAPS

\* What the assumption on Calls says of a request's call.
LEMMA CallType ==
    ASSUME TypeOK, NEW r \in Requests
    PROVE  /\ call[r] \in Calls
           /\ call[r].job \in Jobs
           /\ call[r].user \in Users
           /\ call[r].target \in AllOrgs
           /\ call[r].job = "share" => call[r].target \in Requests
           /\ call[r].flag \in BOOLEAN
<1>1. call[r] \in Calls
  BY DEF TypeOK
<1> QED BY <1>1, TenancyAssumption

\* More rows in a session are still rows.
LEMMA AddRows ==
    ASSUME NEW p \in [Requests -> SUBSET Rows], NEW r \in Requests,
           NEW S \in SUBSET Rows
    PROVE  [p EXCEPT ![r] = @ \cup S] \in [Requests -> SUBSET Rows]
<1>1. p[r] \cup S \in SUBSET Rows
  OBVIOUS
<1> QED BY <1>1

\* A default organisation is one of the user's.
LEMMA DefaultOrgIsTheirs ==
    ASSUME TypeOK, NEW u \in Users, NEW o \in DefaultOrg(u)
    PROVE  /\ o \in AllOrgs
           /\ o \in default[u] \cup member[u]
BY DEF DefaultOrg, Oldest, TypeOK

\* pc, pending and response stay in their domains when a session is rolled back,
\* and when a handler goes on without a row.
PhaseTypes == /\ pc \in [Requests -> Phases]
              /\ pending \in [Requests -> SUBSET Rows]
              /\ response \in [Requests -> Responses]

LEMMA RollBackTypes ==
    ASSUME TypeOK, NEW r \in Requests, NEW answer \in Responses,
           RollBackWith(r, answer)
    PROVE  PhaseTypes'
BY DEF RollBackWith, PhaseTypes, TypeOK, Phases

LEMMA GoOnTypes ==
    ASSUME TypeOK, NEW r \in Requests, NEW phase \in Phases,
           GoTo(r, phase), UNCHANGED <<pending, response>>
    PROVE  PhaseTypes'
BY DEF GoTo, PhaseTypes, TypeOK

\* Every step keeps the variables in their domains.
LEMMA TypeStep ==
    ASSUME TypeOK, [Next]_vars
    PROVE  TypeOK'
<1> USE TenancyAssumption DEF locals, tables, GoTo, RollBackWith
<1>1. ASSUME NEW r \in Requests, Arrive(r)
      PROVE  TypeOK'
  <2>1. CASE CheckSlug(r) \/ VerifyMember(r) \/ Orgless(r)
    <3>1. PhaseTypes'
      BY <2>1, RollBackTypes, GoOnTypes
         DEF CheckSlug, VerifyMember, Orgless, Phases, Responses
    <3> QED BY <2>1, <3>1 DEF CheckSlug, VerifyMember, Orgless, TypeOK, PhaseTypes
  <2>2. CASE BindOrg(r)
    <3>1. PICK o \in DefaultOrg(call[r].user) : /\ org' = [org EXCEPT ![r] = o]
                                                /\ ctx' = [ctx EXCEPT ![r] = o]
      BY <2>2 DEF BindOrg
    <3>2. o \in AllOrgs
      BY CallType, DefaultOrgIsTheirs
    <3> QED BY <2>2, <3>1, <3>2 DEF BindOrg, TypeOK, Phases
  <2> QED BY <1>1, <2>1, <2>2 DEF Arrive
<1>2. ASSUME NEW r \in Requests, Organise(r)
      PROVE  TypeOK'
  <2>1. CASE InsertOrg(r)
    <3>1. {"organization"} \in SUBSET Rows
      BY DEF Rows
    <3>2. pending' \in [Requests -> SUBSET Rows]
      <4>1. CASE pending' = [pending EXCEPT ![r] = {}]
        BY <4>1 DEF TypeOK
      <4>2. CASE pending' = [pending EXCEPT ![r] = @ \cup {"organization"}]
        BY <3>1, <4>2, AddRows DEF TypeOK
      <4> QED BY <2>1, <4>1, <4>2 DEF InsertOrg, Flush
    <3> QED BY <2>1, <3>2 DEF InsertOrg, TypeOK, Phases, Responses
  <2>2. CASE HasExisting(r)
    BY <2>2 DEF HasExisting, TypeOK, Phases
  <2>3. CASE InsertMembership(r)
    <3>1. {"membership", "audit"} \in SUBSET Rows
      BY DEF Rows
    <3>2. pending' \in [Requests -> SUBSET Rows]
      BY <2>3, <3>1, AddRows DEF InsertMembership, Flush, TypeOK
    <3> QED BY <2>3, <3>2 DEF InsertMembership, TypeOK, Phases
  <2>4. CASE FindMemberships(r)
    BY <2>4, CallType DEF FindMemberships, TypeOK, Phases
  <2>5. CASE ClearDefaults(r)
    <3>1. {"defaults"} \in SUBSET Rows
      BY DEF Rows
    <3>2. pending' \in [Requests -> SUBSET Rows]
      BY <2>5, <3>1, AddRows DEF ClearDefaults, Flush, TypeOK
    <3> QED BY <2>5, <3>2 DEF ClearDefaults, TypeOK, Phases
  <2>6. CASE ChooseDefault(r)
    <3>1. {"audit"} \in SUBSET Rows
      BY DEF Rows
    <3>2. pending' \in [Requests -> SUBSET Rows]
      BY <2>6, <3>1, AddRows DEF ChooseDefault, Flush, TypeOK
    <3> QED BY <2>6, <3>2 DEF ChooseDefault, TypeOK, Phases
  <2> QED BY <1>2, <2>1, <2>2, <2>3, <2>4, <2>5, <2>6 DEF Organise
<1>3. ASSUME NEW r \in Requests, Work(r)
      PROVE  TypeOK'
  <2>1. CASE CheckName(r) \/ DenyShare(r) \/ Unbind(r)
    <3>1. PhaseTypes'
      BY <2>1, RollBackTypes, GoOnTypes
         DEF CheckName, DenyShare, Unbind, Phases, Responses
    <3> QED BY <2>1, <3>1 DEF CheckName, DenyShare, Unbind, TypeOK, PhaseTypes
  <2>2. CASE InsertCategory(r)
    <3>1. {"category", "audit"} \in SUBSET Rows
      BY DEF Rows
    <3>2. pending' \in [Requests -> SUBSET Rows]
      <4>1. CASE pending' = [pending EXCEPT ![r] = {}]
        BY <4>1 DEF TypeOK
      <4>2. CASE pending' = [pending EXCEPT ![r] = @ \cup {"category", "audit"}]
        BY <3>1, <4>2, AddRows DEF TypeOK
      <4> QED BY <2>2, <4>1, <4>2 DEF InsertCategory, Flush
    <3>3. pc' \in [Requests -> Phases] /\ response' \in [Requests -> Responses]
      <4>1. CASE NameHeld(r, durable)
        BY <2>2, <4>1, RollBackTypes DEF InsertCategory, PhaseTypes, Responses
      <4>2. CASE ~NameHeld(r, durable)
        BY <2>2, <4>2 DEF InsertCategory, TypeOK, Phases
      <4> QED BY <4>1, <4>2
    <3>4. filed' \in [Requests -> AllOrgs \cup {NoOrg}]
      BY <2>2 DEF InsertCategory, TypeOK
    <3>5. audited' \in [Requests -> AllOrgs \cup {NoOrg}]
      BY <2>2 DEF InsertCategory, TypeOK
    <3> QED BY <2>2, <3>2, <3>3, <3>4, <3>5 DEF InsertCategory, TypeOK
  <2>3. CASE ListCategories(r)
    BY <2>3 DEF ListCategories, Rebind, Select, Categories, TypeOK, Phases
  <2>4. CASE LoadCategory(r) \/ CategoryMissing(r)
    <3>1. PhaseTypes'
      BY <2>4, RollBackTypes, GoOnTypes
         DEF LoadCategory, CategoryMissing, Phases, Responses
    <3>2. seen' \in [Requests -> BOOLEAN]
      BY <2>4, CallType DEF LoadCategory, CategoryMissing, TypeOK
    <3>3. ctx' \in [Requests -> AllOrgs \cup {NoOrg}]
      BY <2>4 DEF LoadCategory, CategoryMissing, Rebind, TypeOK
    <3> QED BY <2>4, <3>1, <3>2, <3>3
            DEF LoadCategory, CategoryMissing, TypeOK, PhaseTypes
  <2>5. CASE SetFlag(r)
    <3>1. {"audit"} \in SUBSET Rows /\ {"flag", "audit"} \in SUBSET Rows
      BY DEF Rows
    <3>2. \/ pending' = [pending EXCEPT ![r] = @ \cup {"audit"}]
          \/ pending' = [pending EXCEPT ![r] = @ \cup {"flag", "audit"}]
      BY <2>5 DEF SetFlag, Flush
    <3>4. pending \in [Requests -> SUBSET Rows]
      BY DEF TypeOK
    <3>3. pending' \in [Requests -> SUBSET Rows]
      BY <3>1, <3>2, <3>4, AddRows
    <3> QED BY <2>5, <3>3 DEF SetFlag, TypeOK, Phases
  <2> QED BY <1>3, <2>1, <2>2, <2>3, <2>4, <2>5 DEF Work
<1>4. ASSUME NEW r \in Requests, Respond(r)
      PROVE  TypeOK'
  BY <1>4 DEF Respond, TypeOK, Phases, Responses
<1>5. ASSUME NEW r \in Requests, Commit(r)
      PROVE  TypeOK'
  <2>1. DefaultAfter(r) \in SUBSET AllOrgs
    BY CallType DEF DefaultAfter, TypeOK, AllOrgs
  <2>2. member' \in [Users -> SUBSET AllOrgs] /\ default' \in [Users -> SUBSET AllOrgs]
    <3>1. member[call[r].user] \cup {r} \in SUBSET AllOrgs
      BY CallType DEF TypeOK, AllOrgs
    <3>2. \A u \in Users : member'[u] \in SUBSET AllOrgs
      BY <1>5, <3>1 DEF Commit, TypeOK
    <3> QED BY <1>5, <2>1, <3>2 DEF Commit, TypeOK
  <2>3. shared' \in [Requests -> BOOLEAN]
    BY <1>5, CallType DEF Commit, TypeOK
  <2>4. pending' \in [Requests -> SUBSET Rows] /\ durable' \in [Requests -> SUBSET Rows]
    BY <1>5 DEF Commit, TypeOK
  <2> QED BY <1>5, <2>2, <2>3, <2>4 DEF Commit, TypeOK, Phases
<1>6. ASSUME NEW r \in Requests, CutOff(r)
      PROVE  TypeOK'
  BY <1>6 DEF CutOff, TypeOK, Phases, Responses
<1>7. CASE UNCHANGED vars
  BY <1>7 DEF vars, TypeOK
<1> QED BY <1>1, <1>2, <1>3, <1>4, <1>5, <1>6, <1>7 DEF Next, Step, Advance

\* TypeOK holds in every reachable state.
THEOREM TypeCorrect == Spec => []TypeOK
<1>1. Init => TypeOK
  <2> SUFFICES ASSUME Init PROVE TypeOK
    OBVIOUS
  <2>1. member \in [Users -> SUBSET AllOrgs]
    BY TenancyAssumption DEF Init, AllOrgs
  <2> QED BY <2>1, TenancyAssumption DEF Init, TypeOK, Phases, Responses, Rows
<1>2. TypeOK /\ [Next]_vars => TypeOK'
  BY TypeStep
<1> QED BY <1>1, <1>2, PTL DEF Spec

------------------------------------------------------------------------------
(* A request's step leaves the others alone, all but a commit leave the tables  *)
(* alone, and the tables only grow.                                             *)

StateOf(r) == <<pc[r], ctx[r], saved[r], org[r], first[r], result[r], filed[r],
                audited[r], pending[r], durable[r]>>

LEMMA StepIsLocal ==
    ASSUME TypeOK, NEW r \in Requests, Step(r)
    PROVE  /\ call' = call
           /\ \A s \in Requests \ {r} : StateOf(s)' = StateOf(s)
<1> USE DEF locals, tables, GoTo, RollBackWith, StateOf, TypeOK, Flush
<1>1. CASE Arrive(r)
  <2>1. CASE CheckSlug(r) \/ VerifyMember(r) \/ Orgless(r)
    BY <2>1 DEF CheckSlug, VerifyMember, Orgless
  <2>2. CASE BindOrg(r)
    BY <2>2 DEF BindOrg
  <2> QED BY <1>1, <2>1, <2>2 DEF Arrive
<1>2. CASE Organise(r)
  BY <1>2 DEF Organise, InsertOrg, HasExisting, InsertMembership, FindMemberships,
              ClearDefaults, ChooseDefault
<1>3. CASE Work(r)
  <2>1. CASE CheckName(r) \/ DenyShare(r) \/ Unbind(r)
    BY <2>1 DEF CheckName, DenyShare, Unbind
  <2>2. CASE InsertCategory(r)
    BY <2>2 DEF InsertCategory
  <2>3. CASE ListCategories(r)
    BY <2>3 DEF ListCategories, Rebind
  <2>4. CASE LoadCategory(r) \/ CategoryMissing(r)
    BY <2>4 DEF LoadCategory, CategoryMissing, Rebind
  <2>5. CASE SetFlag(r)
    BY <2>5 DEF SetFlag
  <2> QED BY <1>3, <2>1, <2>2, <2>3, <2>4, <2>5 DEF Work
<1>4. CASE Respond(r) \/ Commit(r) \/ CutOff(r)
  BY <1>4 DEF Respond, Commit, CutOff
<1> QED BY <1>1, <1>2, <1>3, <1>4 DEF Step, Advance

LEMMA OnlyCommitsShow ==
    ASSUME NEW r \in Requests, Step(r), ~Commit(r)
    PROVE  UNCHANGED tables
BY DEF Step, Arrive, Advance, Organise, Work, CheckSlug, VerifyMember, BindOrg,
       Orgless, InsertOrg, HasExisting, InsertMembership, FindMemberships,
       ClearDefaults, ChooseDefault, CheckName, InsertCategory, DenyShare, Unbind,
       ListCategories, LoadCategory, CategoryMissing, SetFlag, Respond, CutOff

LEMMA StepsAreInFlight ==
    ASSUME NEW r \in Requests, Step(r)
    PROVE  pc[r] \notin {"done", "failed"}
<1>1. CASE Arrive(r)
  BY <1>1 DEF Arrive, CheckSlug, VerifyMember, BindOrg, Orgless
<1>2. CASE Organise(r)
  BY <1>2 DEF Organise, InsertOrg, HasExisting, InsertMembership, FindMemberships,
              ClearDefaults, ChooseDefault
<1>3. CASE Work(r)
  BY <1>3 DEF Work, CheckName, InsertCategory, DenyShare, Unbind, ListCategories,
              LoadCategory, CategoryMissing, SetFlag
<1>4. CASE Respond(r) \/ Commit(r) \/ CutOff(r)
  BY <1>4 DEF Respond, Commit, CutOff, InFlight
<1> QED BY <1>1, <1>2, <1>3, <1>4 DEF Step, Advance

\* Memberships and committed rows stay, and with them the organisation that a
\* category is filed under.
LEMMA TablesGrow ==
    ASSUME TypeOK, TenantInv, NEW r \in Requests, Step(r)
    PROVE  /\ \A u \in Users : member[u] \subseteq member'[u]
           /\ \A x \in Requests : durable[x] \subseteq durable'[x]
           /\ \A x \in Categories : x \in Categories' /\ filed'[x] = filed[x]
<1>1. durable[r] = {}
  BY StepsAreInFlight DEF TenantInv, RequestInv
<1>2. \A u \in Users : member[u] \subseteq member'[u]
  <2>1. CASE Commit(r)
    BY <2>1 DEF Commit, TypeOK
  <2> QED BY <2>1, OnlyCommitsShow DEF tables
<1>3. \A x \in Requests : durable[x] \subseteq durable'[x]
  <2>1. \A x \in Requests \ {r} : durable'[x] = durable[x]
    BY StepIsLocal DEF StateOf
  <2> QED BY <1>1, <2>1
<1>4. \A x \in Categories : x \in Categories' /\ filed'[x] = filed[x]
  <2> SUFFICES ASSUME NEW x \in Categories
               PROVE  x \in Categories' /\ filed'[x] = filed[x]
    OBVIOUS
  <2>1. x \in Requests /\ x # r
    BY <1>1 DEF Categories
  <2>2. filed'[x] = filed[x] /\ durable'[x] = durable[x]
    BY <2>1, StepIsLocal DEF StateOf
  <2> QED BY <2>1, <2>2 DEF Categories
<1> QED BY <1>2, <1>3, <1>4

\* Nobody takes away what a request has listed.
LEMMA ResultKept ==
    ASSUME TypeOK, TenantInv, NEW r \in Requests, Step(r),
           NEW s \in Requests, result'[s] = result[s], org'[s] = org[s]
    PROVE  ResultInv(s)'
<1>1. ResultInv(s) /\ call' = call
  BY StepIsLocal DEF TenantInv
<1> SUFFICES ASSUME NEW x \in result[s]
             PROVE  x \in Categories' /\ (filed'[x] = org[s] \/ ByPlatformAdmin(x)')
  BY DEF ResultInv
<1>2. x \in Categories /\ (filed[x] = org[s] \/ ByPlatformAdmin(x))
  BY <1>1 DEF ResultInv
<1>3. x \in Categories' /\ filed'[x] = filed[x]
  BY <1>2, TablesGrow
<1> QED BY <1>1, <1>2, <1>3 DEF ByPlatformAdmin

\* The step of one request disturbs nothing that another one knows.
LEMMA OthersKeep ==
    ASSUME TypeOK, TenantInv, NEW r \in Requests, Step(r),
           NEW s \in Requests \ {r}
    PROVE  RequestInv(s)' /\ RowsInv(s)' /\ ResultInv(s)'
<1>1. /\ pc'[s] = pc[s] /\ ctx'[s] = ctx[s] /\ saved'[s] = saved[s]
      /\ org'[s] = org[s] /\ first'[s] = first[s] /\ result'[s] = result[s]
      /\ filed'[s] = filed[s] /\ audited'[s] = audited[s]
      /\ pending'[s] = pending[s] /\ durable'[s] = durable[s]
      /\ call' = call
  BY StepIsLocal DEF StateOf
<1>2. RequestInv(s) /\ RowsInv(s)
  BY DEF TenantInv
<1>3. call[s].user \in Users
  BY CallType
<1>4. RequestInv(s)'
  BY <1>1, <1>2, <1>3, TablesGrow
     DEF RequestInv, Written, CreateOrg, MayFlag, Eligible, ByPlatformAdmin
<1>5. RowsInv(s)'
  BY <1>1, <1>2, <1>3 DEF RowsInv, Written, CreateOrg
<1>6. ResultInv(s)'
  BY <1>1, ResultKept
<1> QED BY <1>4, <1>5, <1>6

------------------------------------------------------------------------------
(* What a request knows after its own step.                                     *)

\* A rolled back request knows nothing any more.
LEMMA RolledBack ==
    ASSUME TypeOK, TenantInv, NEW r \in Requests, Step(r), NEW answer,
           RollBackWith(r, answer), UNCHANGED <<call, org, first, result, tables>>
    PROVE  RequestInv(r)' /\ RowsInv(r)'
<1>1. durable[r] = {} /\ RequestInv(r) /\ RowsInv(r)
  BY StepsAreInFlight DEF TenantInv, RequestInv
<1>2. pc'[r] = "failed" /\ Written(r)' = {}
  BY <1>1 DEF RollBackWith, Written, TypeOK, tables
<1>3. RequestInv(r)'
  BY <1>1, <1>2 DEF RequestInv, tables
<1> QED BY <1>1, <1>2, <1>3 DEF RowsInv

\* The category whose flag a request may change stays one it may change.
LEMMA TargetKept ==
    ASSUME TypeOK, TenantInv, NEW r \in Requests, Step(r),
           MayFlag(r)
    PROVE  MayFlag(r)'
BY TablesGrow, StepIsLocal DEF MayFlag, Eligible, ByPlatformAdmin

LEMMA ArriveKeeps ==
    ASSUME TypeOK, TenantInv, NEW r \in Requests, Arrive(r)
    PROVE  RequestInv(r)' /\ RowsInv(r)'
<1> USE DEF locals, tables, GoTo
<1>1. /\ pc[r] = "idle" /\ RequestInv(r) /\ RowsInv(r) /\ Step(r)
      /\ Written(r) = {} /\ result[r] = {} /\ org[r] = NoOrg /\ ctx[r] = NoOrg
  BY DEF Arrive, CheckSlug, VerifyMember, BindOrg, Orgless, Step, TenantInv, RequestInv
<1>2. CASE CheckSlug(r)
  <2>1. CASE SlugHeld(r, durable)
    BY <1>1, <1>2, <2>1, RolledBack DEF CheckSlug
  <2>2. CASE ~SlugHeld(r, durable)
    BY <1>1, <1>2, <2>2 DEF CheckSlug, RequestInv, RowsInv, Written, CreateOrg, TypeOK
  <2> QED BY <2>1, <2>2
<1>3. CASE VerifyMember(r)
  <2>1. CASE call[r].target \notin member[call[r].user]
    BY <1>1, <1>3, <2>1, RolledBack DEF VerifyMember
  <2>2. CASE call[r].target \in member[call[r].user]
    BY <1>1, <1>3, <2>2 DEF VerifyMember, RequestInv, RowsInv, Written, CreateOrg, TypeOK
  <2> QED BY <2>1, <2>2
<1>4. CASE BindOrg(r)
  <2>1. PICK o \in DefaultOrg(call[r].user) : /\ org' = [org EXCEPT ![r] = o]
                                              /\ ctx' = [ctx EXCEPT ![r] = o]
    BY <1>4 DEF BindOrg
  <2>2. o \in AllOrgs /\ o \in member[call[r].user] /\ o # NoOrg
    BY CallType, DefaultOrgIsTheirs, TenancyAssumption DEF TenantInv, MemberInv
  <2>3. org'[r] = o /\ ctx'[r] = o
    BY <2>1 DEF TypeOK
  <2>4. RequestInv(r)'
    BY <1>1, <1>4, <2>2, <2>3 DEF BindOrg, RequestInv, Written, TypeOK
  <2>5. RowsInv(r)'
    BY <1>1, <1>4, <2>2, <2>3 DEF BindOrg, RowsInv, Written, CreateOrg, TypeOK
  <2> QED BY <2>4, <2>5
<1>5. CASE Orgless(r)
  BY <1>1, <1>5, RolledBack DEF Orgless
<1> QED BY <1>2, <1>3, <1>4, <1>5 DEF Arrive

LEMMA OrganiseKeeps ==
    ASSUME TypeOK, TenantInv, NEW r \in Requests, Organise(r)
    PROVE  RequestInv(r)' /\ RowsInv(r)'
<1> USE DEF locals, tables, GoTo, Flush
<1>1. RequestInv(r) /\ RowsInv(r) /\ Step(r) /\ durable[r] = {}
  BY StepsAreInFlight DEF Step, Advance, TenantInv, RequestInv
<1>8. MayFlag(r) => MayFlag(r)'
  BY <1>1, TargetKept
<1>2. CASE InsertOrg(r)
  <2>1. CASE SlugHeld(r, durable)
    BY <1>1, <1>2, <2>1, RolledBack DEF InsertOrg
  <2>2. CASE ~SlugHeld(r, durable)
    <3>1. Written(r)' = Written(r) \cup {"organization"}
      BY <1>2, <2>2 DEF InsertOrg, Written, TypeOK
    <3>2. RequestInv(r)'
      BY <1>1, <1>8, <1>2, <2>2, <3>1 DEF InsertOrg, RequestInv, TypeOK
    <3>3. RowsInv(r)'
      BY <1>1, <1>2, <2>2, <3>1
         DEF InsertOrg, RequestInv, RowsInv, CreateOrg
    <3> QED BY <3>2, <3>3
  <2> QED BY <2>1, <2>2
<1>3. CASE HasExisting(r)
  <2>1. member[call[r].user] = {} => Home[call[r].user] = NoOrg
    BY CallType DEF TenantInv, MemberInv
  <2>2. RequestInv(r)'
    BY <1>1, <1>8, <1>3 DEF HasExisting, RequestInv, Written, TypeOK
  <2>3. RowsInv(r)'
    BY <1>1, <1>3, <2>1 DEF HasExisting, RowsInv, Written, CreateOrg, TypeOK
  <2> QED BY <2>2, <2>3
<1>4. CASE InsertMembership(r)
  <2>1. Written(r)' = Written(r) \cup {"membership", "audit"}
    BY <1>4 DEF InsertMembership, Written, TypeOK
  <2>2. audited'[r] = ctx[r] /\ ctx[r] = org[r]
    BY <1>1, <1>4 DEF InsertMembership, RequestInv, TypeOK
  <2>3. RequestInv(r)'
    BY <1>1, <1>8, <1>4, <2>1 DEF InsertMembership, RequestInv, TypeOK
  <2>4. RowsInv(r)'
    BY <1>1, <1>4, <2>1, <2>2
       DEF InsertMembership, RowsInv, CreateOrg
  <2> QED BY <2>3, <2>4
<1>5. CASE FindMemberships(r)
  <2>1. RequestInv(r)'
    BY <1>1, <1>8, <1>5 DEF FindMemberships, RequestInv, Written, TypeOK
  <2>2. RowsInv(r)'
    BY <1>1, <1>5 DEF FindMemberships, RowsInv, Written, CreateOrg, TypeOK
  <2> QED BY <2>1, <2>2
<1>6. CASE ClearDefaults(r)
  <2>1. Written(r)' = Written(r) \cup {"defaults"}
    BY <1>6 DEF ClearDefaults, Written, TypeOK
  <2>2. RequestInv(r)'
    BY <1>1, <1>8, <1>6, <2>1 DEF ClearDefaults, RequestInv, TypeOK
  <2>3. RowsInv(r)'
    BY <1>1, <1>6, <2>1
       DEF ClearDefaults, RowsInv, CreateOrg
  <2> QED BY <2>2, <2>3
<1>7. CASE ChooseDefault(r)
  <2>1. Written(r)' = Written(r) \cup {"audit"}
    BY <1>7 DEF ChooseDefault, Written, TypeOK
  <2>2. audited'[r] = ctx[r] /\ ctx[r] = org[r]
    BY <1>1, <1>7 DEF ChooseDefault, RequestInv, TypeOK
  <2>3. RequestInv(r)'
    BY <1>1, <1>8, <1>7, <2>1 DEF ChooseDefault, RequestInv, TypeOK
  <2>4. RowsInv(r)'
    BY <1>1, <1>7, <2>1, <2>2
       DEF ChooseDefault, RowsInv, CreateOrg
  <2> QED BY <2>3, <2>4
<1> QED BY <1>2, <1>3, <1>4, <1>5, <1>6, <1>7 DEF Organise

LEMMA WorkKeeps ==
    ASSUME TypeOK, TenantInv, NEW r \in Requests, Work(r)
    PROVE  RequestInv(r)' /\ RowsInv(r)'
<1> USE DEF locals, tables, GoTo, Flush
<1>1. RequestInv(r) /\ RowsInv(r) /\ Step(r) /\ durable[r] = {}
  BY StepsAreInFlight DEF Step, Advance, TenantInv, RequestInv
<1>2. MayFlag(r) => MayFlag(r)'
  BY <1>1, TargetKept
<1>3. CASE CheckName(r)
  <2>1. CASE \E x \in Select(r) : call[x].key = call[r].key
    BY <1>1, <1>3, <2>1, RolledBack DEF CheckName
  <2>2. CASE ~\E x \in Select(r) : call[x].key = call[r].key
    <3>1. pc' = [pc EXCEPT ![r] = "insert"] /\ UNCHANGED <<call, locals, pending, tables>>
      BY <1>3, <2>2 DEF CheckName
    <3>2. pc[r] = "check"
      BY <1>3 DEF CheckName
    <3>3. RequestInv(r)'
      BY <1>1, <1>2, <3>1, <3>2 DEF RequestInv, Written, CreateOrg, TypeOK
    <3>4. RowsInv(r)'
      BY <1>1, <3>1 DEF RowsInv, Written, CreateOrg
    <3> QED BY <3>3, <3>4
  <2> QED BY <2>1, <2>2
<1>4. CASE InsertCategory(r)
  <2>1. CASE NameHeld(r, durable)
    BY <1>1, <1>4, <2>1, RolledBack DEF InsertCategory
  <2>2. CASE ~NameHeld(r, durable)
    <3>1. Written(r)' = Written(r) \cup {"category", "audit"}
      BY <1>4, <2>2 DEF InsertCategory, Written, TypeOK
    <3>2. /\ filed'[r] = ctx[r] /\ audited'[r] = ctx[r] /\ ctx[r] = org[r]
          /\ org[r] # NoOrg /\ call[r].job = "create"
      BY <1>1, <1>4, <2>2 DEF InsertCategory, RequestInv, TypeOK
    <3>3. RequestInv(r)'
      BY <1>1, <1>2, <1>4, <2>2, <3>1 DEF InsertCategory, RequestInv, CreateOrg, TypeOK
    <3>4. RowsInv(r)'
      BY <1>1, <1>4, <2>2, <3>1, <3>2 DEF InsertCategory, RowsInv, CreateOrg
    <3> QED BY <3>3, <3>4
  <2> QED BY <2>1, <2>2
<1>5. CASE DenyShare(r)
  BY <1>1, <1>5, RolledBack DEF DenyShare
<1>6. CASE Unbind(r)
  <2>1. RequestInv(r)'
    BY <1>1, <1>2, <1>6 DEF Unbind, RequestInv, Written, CreateOrg, TypeOK
  <2>2. RowsInv(r)'
    BY <1>1, <1>6 DEF Unbind, RowsInv, Written, CreateOrg, TypeOK
  <2> QED BY <2>1, <2>2
<1>7. CASE ListCategories(r)
  <2>1. RequestInv(r)'
    BY <1>1, <1>2, <1>7 DEF ListCategories, Rebind, RequestInv, Written, CreateOrg, TypeOK
  <2>2. RowsInv(r)'
    BY <1>1, <1>7 DEF ListCategories, RowsInv, Written, CreateOrg, TypeOK
  <2> QED BY <2>1, <2>2
<1>8. CASE LoadCategory(r)
  <2>1. CASE ~Eligible(call[r].target, call[r].flag)
    BY <1>1, <1>8, <2>1, RolledBack DEF LoadCategory
  <2>2. CASE Eligible(call[r].target, call[r].flag)
    <3>1. MayFlag(r)'
      BY <1>2, <1>8, <2>2 DEF LoadCategory, Select, MayFlag
    <3>2. RequestInv(r)'
      BY <1>1, <1>8, <2>2, <3>1
         DEF LoadCategory, Rebind, RequestInv, Written, CreateOrg, TypeOK
    <3>3. RowsInv(r)'
      BY <1>1, <1>8, <2>2 DEF LoadCategory, RowsInv, Written, CreateOrg
    <3> QED BY <3>2, <3>3
  <2> QED BY <2>1, <2>2
<1>9. CASE CategoryMissing(r)
  BY <1>1, <1>9, RolledBack DEF CategoryMissing
<1>10. CASE SetFlag(r)
  <2>1. \/ Written(r)' = Written(r) \cup {"audit"}
        \/ Written(r)' = Written(r) \cup {"flag", "audit"}
    BY <1>10 DEF SetFlag, Written, TypeOK
  <2>2. audited'[r] = ctx[r] /\ ctx[r] = org[r] /\ call[r].job = "share" /\ MayFlag(r)
    BY <1>1, <1>10 DEF SetFlag, RequestInv, TypeOK
  <2>3. RequestInv(r)'
    BY <1>1, <1>2, <1>10, <2>1, <2>2 DEF SetFlag, RequestInv, CreateOrg, TypeOK
  <2>4. RowsInv(r)'
    BY <1>1, <1>10, <2>1, <2>2 DEF SetFlag, RowsInv, CreateOrg
  <2> QED BY <2>3, <2>4
<1> QED BY <1>3, <1>4, <1>5, <1>6, <1>7, <1>8, <1>9, <1>10 DEF Work

LEMMA EndKeeps ==
    ASSUME TypeOK, TenantInv, NEW r \in Requests, Respond(r) \/ Commit(r) \/ CutOff(r)
    PROVE  RequestInv(r)' /\ RowsInv(r)'
<1> USE DEF locals, tables, GoTo
<1>1. RequestInv(r) /\ RowsInv(r) /\ Step(r) /\ durable[r] = {}
  BY StepsAreInFlight DEF Step, Advance, TenantInv, RequestInv
<1>2. MayFlag(r) => MayFlag(r)'
  BY <1>1, TargetKept
<1>3. CASE Respond(r)
  <2>1. RequestInv(r)'
    BY <1>1, <1>2, <1>3 DEF Respond, RequestInv, Written, CreateOrg, TypeOK
  <2>2. RowsInv(r)'
    BY <1>1, <1>3 DEF Respond, RowsInv, Written, CreateOrg
  <2> QED BY <2>1, <2>2
<1>4. CASE Commit(r)
  <2>1. Written(r)' = Written(r)
    BY <1>1, <1>4 DEF Commit, Written, TypeOK
  <2>2. \A u \in Users : member[u] \subseteq member'[u]
    BY <1>1, TablesGrow
  <2>3. RequestInv(r)'
    BY <1>1, <1>2, <1>4, <2>1, <2>2, CallType DEF Commit, RequestInv, TypeOK
  <2>4. RowsInv(r)'
    BY <1>1, <1>4, <2>1 DEF Commit, RowsInv, CreateOrg
  <2> QED BY <2>3, <2>4
<1>5. CASE CutOff(r)
  BY <1>1, <1>5, RolledBack DEF CutOff
<1> QED BY <1>3, <1>4, <1>5

\* A list contains only categories of the organisation of the request, or shared
\* ones.
LEMMA ResultRight ==
    ASSUME TypeOK, TenantInv, NEW r \in Requests, Step(r)
    PROVE  ResultInv(r)'
<1>1. CASE ListCategories(r)
  <2>1. result'[r] = {x \in Select(r) : filed[x] = org[r] \/ shared[x]}
    BY <1>1 DEF ListCategories, TypeOK
  <2>2. org'[r] = org[r] /\ call' = call
    BY <1>1 DEF ListCategories
  <2> SUFFICES ASSUME NEW x \in result'[r]
               PROVE  x \in Categories' /\ (filed'[x] = org[r] \/ ByPlatformAdmin(x)')
    BY <2>2 DEF ResultInv
  <2>3. x \in Categories /\ (filed[x] = org[r] \/ shared[x])
    BY <2>1 DEF Select
  <2>4. shared[x] => ByPlatformAdmin(x)
    BY <2>3 DEF TenantInv, SharedIsEligible, Categories
  <2>5. x \in Categories' /\ filed'[x] = filed[x]
    BY <2>3, TablesGrow
  <2> QED BY <2>2, <2>3, <2>4, <2>5 DEF ByPlatformAdmin
<1>2. CASE BindOrg(r)
  <2>1. result[r] = {} /\ result' = result
    BY <1>2 DEF BindOrg, TenantInv, RequestInv
  <2> QED BY <2>1 DEF ResultInv
<1>3. CASE ~ListCategories(r) /\ ~BindOrg(r)
  <2>1. result' = result /\ org' = org
    BY <1>3 DEF Step, Arrive, Advance, Organise, Work, CheckSlug, VerifyMember,
                Orgless, InsertOrg, HasExisting, InsertMembership, FindMemberships,
                ClearDefaults, ChooseDefault, CheckName, InsertCategory, DenyShare,
                Unbind, LoadCategory, CategoryMissing, SetFlag, Respond, Commit,
                CutOff, locals
  <2> QED BY <2>1, ResultKept
<1> QED BY <1>1, <1>2, <1>3

------------------------------------------------------------------------------
(* What holds between requests, and of the tables.                              *)

\* A slug or name that a request writes is nobody else's.
LEMMA WritesFreeKey ==
    ASSUME TypeOK, TenantInv, NEW r \in Requests, Step(r),
           NEW t \in Requests \ {r}, call[r].key = call[t].key
    PROVE  /\ ~("organization" \in Written(r)' /\ "organization" \in Written(t))
           /\ ~("category" \in Written(r)' /\ "category" \in Written(t)
                /\ filed'[r] = filed[t])
<1> USE DEF locals, tables, GoTo, RollBackWith, Flush
<1>1. /\ ~("organization" \in Written(r) /\ "organization" \in Written(t))
      /\ ~("category" \in Written(r) /\ "category" \in Written(t)
           /\ filed[r] = filed[t])
  BY DEF TenantInv, TakenOnce
<1>2. durable[r] = {} /\ ("organization" \in Written(t) => CreateOrg(t))
  BY StepsAreInFlight DEF TenantInv, RequestInv, RowsInv
<1>3. CASE Written(r)' = {}
  BY <1>3
<1>4. CASE InsertOrg(r) /\ Written(r)' # {}
  <2>1. ~SlugHeld(r, pending) /\ ~SlugHeld(r, durable)
    BY <1>2, <1>4 DEF InsertOrg, Written, TypeOK
  <2>2. "organization" \notin Written(t)
    BY <1>2, <2>1 DEF SlugHeld, Written
  <2>3. Written(r)' = Written(r) \cup {"organization"} /\ filed' = filed
    BY <1>4, <2>1 DEF InsertOrg, Written, TypeOK
  <2> QED BY <1>1, <2>2, <2>3
<1>5. CASE InsertCategory(r) /\ Written(r)' # {}
  <2>1. ~NameHeld(r, pending) /\ ~NameHeld(r, durable)
    BY <1>2, <1>5 DEF InsertCategory, Written, TypeOK
  <2>2. /\ Written(r)' = Written(r) \cup {"category", "audit"}
        /\ filed'[r] = ctx[r]
    BY <1>5, <2>1 DEF InsertCategory, Written, TypeOK
  <2>3. ~("category" \in Written(t) /\ filed[t] = ctx[r])
    BY <2>1 DEF NameHeld, Written
  <2> QED BY <1>1, <2>2, <2>3
<1>6. CASE /\ "organization" \in Written(r)' => "organization" \in Written(r)
           /\ "category" \in Written(r)' => "category" \in Written(r)
           /\ filed' = filed
  BY <1>1, <1>6
<1>7. Arrive(r) => Written(r)' = {} \/ UNCHANGED <<pending, durable, filed>>
  BY <1>2 DEF Arrive, CheckSlug, VerifyMember, BindOrg, Orgless, Written, TypeOK
<1>8. Organise(r) /\ ~InsertOrg(r) =>
         /\ filed' = filed /\ durable' = durable
         /\ \E rows \in {{}, {"defaults"}, {"audit"}, {"membership", "audit"}} :
                pending'[r] = pending[r] \cup rows
  BY DEF Organise, HasExisting, InsertMembership, FindMemberships, ClearDefaults,
         ChooseDefault, TypeOK
<1>9. Work(r) /\ ~InsertCategory(r) =>
         \/ Written(r)' = {}
         \/ /\ filed' = filed /\ durable' = durable
            /\ \E rows \in {{}, {"audit"}, {"flag", "audit"}} :
                   pending'[r] = pending[r] \cup rows
  <2>1. ASSUME CheckName(r) \/ DenyShare(r) \/ Unbind(r) \/ ListCategories(r)
                 \/ LoadCategory(r) \/ CategoryMissing(r)
        PROVE  \/ Written(r)' = {}
               \/ filed' = filed /\ durable' = durable /\ pending'[r] = pending[r]
    BY <1>2, <2>1 DEF CheckName, DenyShare, Unbind, ListCategories, LoadCategory,
                      CategoryMissing, Written, TypeOK
  <2>2. ASSUME SetFlag(r)
        PROVE  /\ filed' = filed /\ durable' = durable
               /\ \E rows \in {{}, {"audit"}, {"flag", "audit"}} :
                      pending'[r] = pending[r] \cup rows
    BY <2>2 DEF SetFlag, TypeOK
  <2> QED BY <2>1, <2>2 DEF Work
<1>10. Respond(r) \/ Commit(r) \/ CutOff(r) =>
          Written(r)' = {} \/ (filed' = filed /\ Written(r)' = Written(r))
  BY <1>2 DEF Respond, Commit, CutOff, Written, TypeOK
<1>11. CASE Arrive(r)
  BY <1>1, <1>7, <1>11 DEF Written
<1>12. CASE Organise(r)
  BY <1>1, <1>3, <1>4, <1>8, <1>12 DEF Written
<1>13. CASE Work(r)
  BY <1>1, <1>3, <1>5, <1>9, <1>13 DEF Written
<1>14. CASE Respond(r) \/ Commit(r) \/ CutOff(r)
  BY <1>1, <1>10, <1>14
<1> QED BY <1>11, <1>12, <1>13, <1>14 DEF Step, Advance

LEMMA TakenOnceKept ==
    ASSUME TypeOK, TenantInv, NEW s \in Requests, Step(s)
    PROVE  TakenOnce'
<1> SUFFICES ASSUME NEW r \in Requests, NEW t \in Requests,
                    r # t, call'[r].key = call'[t].key
             PROVE  /\ ~("organization" \in Written(r)' /\ "organization" \in Written(t)')
                    /\ ~("category" \in Written(r)' /\ "category" \in Written(t)'
                         /\ filed'[r] = filed'[t])
  BY DEF TakenOnce
<1>1. call' = call
  BY StepIsLocal
<1>2. \A q \in Requests \ {s} : Written(q)' = Written(q) /\ filed'[q] = filed[q]
  BY StepIsLocal DEF StateOf, Written
<1>3. CASE r # s /\ t # s
  BY <1>1, <1>2, <1>3 DEF TenantInv, TakenOnce
<1>4. CASE r = s
  BY <1>1, <1>2, <1>4, WritesFreeKey
<1>5. CASE t = s
  BY <1>1, <1>2, <1>5, WritesFreeKey
<1> QED BY <1>3, <1>4, <1>5

LEMMA MemberInvKept ==
    ASSUME TypeOK, TenantInv, NEW r \in Requests, Step(r)
    PROVE  MemberInv'
<1>1. MemberInv /\ RequestInv(r) /\ RowsInv(r) /\ pc[r] # "done" /\ durable[r] = {}
  BY StepsAreInFlight DEF TenantInv, RequestInv
<1>2. \A q \in Requests : pc[q] = "done" => pc'[q] = "done"
  BY <1>1, StepIsLocal DEF StateOf
<1>3. CASE ~Commit(r)
  BY <1>1, <1>2, <1>3, OnlyCommitsShow DEF MemberInv, tables
<1>4. CASE Commit(r)
  <2> SUFFICES ASSUME NEW u \in Users
               PROVE  /\ default'[u] \subseteq member'[u]
                      /\ Home[u] # NoOrg => default'[u] # {}
                      /\ \A q \in Requests : q \in member'[u] => pc'[q] = "done"
    BY DEF MemberInv
  <2>1. pc'[r] = "done"
    BY <1>4 DEF Commit, GoTo, TypeOK
  <2>2. CASE u # call[r].user
    <3>1. default'[u] = default[u] /\ member'[u] = member[u]
      BY <1>4, <2>2 DEF Commit, TypeOK
    <3> QED BY <1>1, <1>2, <3>1 DEF MemberInv
  <2>3. CASE u = call[r].user
    <3>1. member'[u] = member[u] \cup (IF "membership" \in pending[r] THEN {r} ELSE {})
      BY <1>4, <2>3 DEF Commit, TypeOK
    <3>2. default'[u] = DefaultAfter(r)
      BY <1>4, <2>3 DEF Commit, TypeOK
    <3>3. "defaults" \in pending[r] => call[r].target \in member[u]
      BY <1>1, <2>3 DEF RequestInv, Written
    <3>4. default'[u] \subseteq member'[u]
      BY <1>1, <2>3, <3>1, <3>2, <3>3 DEF DefaultAfter, MemberInv
    <3>5. Home[u] # NoOrg => default'[u] # {}
      BY <1>1, <2>3, <3>2 DEF DefaultAfter, MemberInv
    <3>6. \A q \in Requests : q \in member'[u] => pc'[q] = "done"
      BY <1>1, <1>2, <2>1, <3>1 DEF MemberInv
    <3> QED BY <3>4, <3>5, <3>6
  <2> QED BY <2>2, <2>3
<1> QED BY <1>3, <1>4

LEMMA SharedKept ==
    ASSUME TypeOK, TenantInv, NEW r \in Requests, Step(r)
    PROVE  SharedIsEligible'
<1> SUFFICES ASSUME NEW x \in Requests, shared'[x]
             PROVE  x \in Categories' /\ ByPlatformAdmin(x)'
  BY DEF SharedIsEligible
<1>1. call' = call /\ \A y \in Categories : y \in Categories'
  BY StepIsLocal, TablesGrow
<1>2. CASE shared[x]
  BY <1>1, <1>2 DEF TenantInv, SharedIsEligible, ByPlatformAdmin
<1>3. CASE ~shared[x]
  <2>1. Commit(r)
    BY <1>3, OnlyCommitsShow DEF tables
  <2>2. "flag" \in pending[r] /\ x = call[r].target /\ call[r].flag
    BY <1>3, <2>1 DEF Commit, TypeOK
  <2>3. MayFlag(r)
    BY <2>2 DEF TenantInv, RequestInv, Written
  <2> QED BY <1>1, <2>2, <2>3 DEF MayFlag, Eligible, ByPlatformAdmin
<1> QED BY <1>2, <1>3

------------------------------------------------------------------------------
(* The theorems *)

\* Every step keeps the invariant.
LEMMA TenantStep ==
    ASSUME TypeOK, TenantInv, [Next]_vars
    PROVE  TypeOK' /\ TenantInv'
<1>1. TypeOK'
  BY TypeStep
<1>2. CASE UNCHANGED vars
  <2>1. ASSUME NEW r \in Requests
        PROVE  RequestInv(r)' /\ RowsInv(r)' /\ ResultInv(r)'
    <3>1. RequestInv(r) /\ RowsInv(r) /\ ResultInv(r)
      BY DEF TenantInv
    <3>2. RequestInv(r)'
      BY <1>2, <3>1 DEF vars, RequestInv, Written, MayFlag, Eligible,
                        ByPlatformAdmin, Categories, CreateOrg
    <3>3. RowsInv(r)'
      BY <1>2, <3>1 DEF vars, RowsInv, Written, CreateOrg
    <3>4. ResultInv(r)'
      BY <1>2, <3>1 DEF vars, ResultInv, Categories, ByPlatformAdmin
    <3> QED BY <3>2, <3>3, <3>4
  <2>2. TakenOnce'
    BY <1>2 DEF vars, TenantInv, TakenOnce, Written
  <2>3. MemberInv'
    BY <1>2 DEF vars, TenantInv, MemberInv
  <2>4. SharedIsEligible'
    <3>1. SharedIsEligible
      BY DEF TenantInv
    <3>2. shared' = shared /\ durable' = durable /\ call' = call
      BY <1>2 DEF vars
    <3> QED BY <3>1, <3>2 DEF SharedIsEligible, Categories, ByPlatformAdmin
  <2> QED BY <1>1, <2>1, <2>2, <2>3, <2>4 DEF TenantInv
<1>3. ASSUME NEW r \in Requests, Step(r)
      PROVE  TenantInv'
  <2>1. RequestInv(r)' /\ RowsInv(r)'
    BY <1>3, ArriveKeeps, OrganiseKeeps, WorkKeeps, EndKeeps DEF Step, Advance
  <2>2. ResultInv(r)'
    BY <1>3, ResultRight
  <2>3. \A s \in Requests \ {r} : RequestInv(s)' /\ RowsInv(s)' /\ ResultInv(s)'
    BY <1>3, OthersKeep
  <2> QED BY <1>3, <2>1, <2>2, <2>3, TakenOnceKept, MemberInvKept, SharedKept
          DEF TenantInv
<1> QED BY <1>1, <1>2, <1>3 DEF Next

\* TenantInv holds in every reachable state, whatever other requests switch,
\* create, share or withdraw at a request's awaits.
THEOREM TenantInvariant == Spec => [](TypeOK /\ TenantInv)
<1>1. Init => TypeOK /\ TenantInv
  <2> SUFFICES ASSUME Init
               PROVE  TypeOK /\ TenantInv
    OBVIOUS
  <2>1. member \in [Users -> SUBSET AllOrgs]
    BY TenancyAssumption DEF Init, AllOrgs
  <2>2. TypeOK
    BY <2>1, TenancyAssumption DEF Init, TypeOK, Phases, Responses, Rows
  <2>3. ASSUME NEW r \in Requests
        PROVE  Written(r) = {} /\ RequestInv(r) /\ RowsInv(r) /\ ResultInv(r)
    BY <2>3 DEF Init, Written, RequestInv, RowsInv, ResultInv
  <2>4. TakenOnce
    BY <2>3 DEF TakenOnce
  <2>5. MemberInv
    BY TenancyAssumption DEF Init, MemberInv
  <2>6. SharedIsEligible
    BY DEF Init, SharedIsEligible
  <2> QED BY <2>2, <2>3, <2>4, <2>5, <2>6 DEF TenantInv
<1>2. TypeOK /\ TenantInv /\ [Next]_vars => (TypeOK /\ TenantInv)'
  BY TenantStep
<1> QED BY <1>1, <1>2, PTL DEF Spec

\* Isolation holds in every reachable state: nobody is shown a row of an
\* organisation they are not in, platform administrators' rows excepted.
THEOREM TenantsAreIsolated == Spec => []Isolation
<1>1. TypeOK /\ TenantInv => Isolation
  <2> SUFFICES ASSUME TypeOK, TenantInv, NEW r \in Requests
               PROVE  /\ r \in Categories => filed[r] \in member[call[r].user]
                      /\ \A x \in result[r] : \/ filed[x] \in member[call[r].user]
                                              \/ ByPlatformAdmin(x)
    BY DEF Isolation
  <2>1. \A x \in Categories : filed[x] # NoOrg
    BY DEF TenantInv, RowsInv, Categories, Written
  <2>2. r \in Categories => filed[r] \in member[call[r].user]
    BY DEF TenantInv, RequestInv, RowsInv, Categories, Written
  <2>3. org[r] # NoOrg => org[r] \in member[call[r].user]
    BY DEF TenantInv, RequestInv
  <2>4. ResultInv(r)
    BY DEF TenantInv
  <2> QED BY <2>1, <2>2, <2>3, <2>4 DEF ResultInv
<1> QED BY <1>1, TenantInvariant, PTL

\* What is shared with every organisation was created by a platform administrator.
THEOREM SharingIsEligible == Spec => []SharedIsEligible
<1>1. TenantInv => SharedIsEligible
  BY DEF TenantInv
<1> QED BY <1>1, TenantInvariant, PTL

\* All rows of a request belong to the organisation it was bound to.
THEOREM RequestsStayInOneOrg == Spec => []OneOrgPerRequest
<1>1. TenantInv => OneOrgPerRequest
  BY DEF TenantInv, RowsInv, Written, OneOrgPerRequest
<1> QED BY <1>1, TenantInvariant, PTL

\* The unique indexes make good what the checks before the INSERT may miss.
THEOREM NamesStayUnique == Spec => []NamesUnique
<1>1. TenantInv => NamesUnique
  <2> SUFFICES ASSUME TenantInv, NEW r \in Requests, NEW t \in Requests,
                      r # t, call[r].key = call[t].key
               PROVE  /\ ~("organization" \in durable[r] /\ "organization" \in durable[t])
                      /\ ({r, t} \subseteq Categories) => filed[r] # filed[t]
    BY DEF NamesUnique
  <2>1. /\ ~("organization" \in Written(r) /\ "organization" \in Written(t))
        /\ ~("category" \in Written(r) /\ "category" \in Written(t)
             /\ filed[r] = filed[t])
    BY DEF TenantInv, TakenOnce
  <2> QED BY <2>1 DEF Written, Categories
<1> QED BY <1>1, TenantInvariant, PTL

\* Users with an organisation keep a default of their own.
THEOREM DefaultsRemain == Spec => []HasDefault
<1>1. TenantInv => HasDefault
  BY DEF TenantInv, MemberInv, HasDefault
<1> QED BY <1>1, TenantInvariant, PTL

\* Whoever had an organisation at first is moved to another one by a switch only.
THEOREM SwitchesAloneMove == Spec => OnlySwitchesMove
<1> DEFINE Moves == \A u \in Users : (Home[u] # NoOrg /\ DefaultOrg(u)' # DefaultOrg(u))
                                        => SwitchCommitted(u)
<1>1. TypeOK /\ TenantInv /\ [Next]_vars => [Moves]_vars
  <2> SUFFICES ASSUME TypeOK, TenantInv, TypeOK', TenantInv', NEW r \in Requests, Step(r),
                      NEW u \in Users, Home[u] # NoOrg, DefaultOrg(u)' # DefaultOrg(u)
               PROVE  SwitchCommitted(u)
    <3>1. TypeOK /\ TenantInv /\ [Next]_vars => TypeOK' /\ TenantInv'
      BY TenantStep
    <3> QED BY <3>1 DEF Next
  <2>1. /\ default[u] # {} /\ default[u] \subseteq member[u] /\ r \notin member[u]
        /\ default'[u] # {}
    BY StepsAreInFlight DEF TenantInv, MemberInv
  <2>2. DefaultOrg(u) = Oldest(default[u]) /\ DefaultOrg(u)' = Oldest(default[u])'
    BY <2>1 DEF DefaultOrg
  <2>3. \A o \in default[u] : id'[o] = id[o]
    <3>1. \A o \in AllOrgs \ {r} : id'[o] = id[o]
      <4>1. CASE InsertMembership(r)
        BY <4>1 DEF InsertMembership, TypeOK
      <4>2. CASE ~InsertMembership(r)
        BY <4>2 DEF Step, Arrive, Advance, Organise, Work, CheckSlug, VerifyMember,
                    BindOrg, Orgless, InsertOrg, HasExisting, FindMemberships,
                    ClearDefaults, ChooseDefault, CheckName, InsertCategory,
                    DenyShare, Unbind, ListCategories, LoadCategory,
                    CategoryMissing, SetFlag, Respond, Commit, CutOff, locals
      <4> QED BY <4>1, <4>2
    <3> QED BY <2>1, <3>1 DEF TypeOK
  <2>4. default'[u] # default[u]
    BY <2>2, <2>3 DEF Oldest
  <2>5. Commit(r)
    BY <2>4, OnlyCommitsShow DEF tables
  <2>6. u = call[r].user /\ default'[u] = DefaultAfter(r)
    BY <2>4, <2>5 DEF Commit, TypeOK
  <2>7. ~first[r]
    BY <2>6 DEF TenantInv, RowsInv
  <2>8. "defaults" \in pending[r]
    BY <2>4, <2>6, <2>7 DEF DefaultAfter
  <2>9. call[r].job = "switch"
    BY <2>8 DEF TenantInv, RequestInv, Written
  <2> QED BY <2>5, <2>6, <2>9 DEF SwitchCommitted, Commit, GoTo, TypeOK
<1> QED BY <1>1, TenantInvariant, PTL DEF Spec, OnlySwitchesMove
------------------------------------------------------------------------------
(* Nobody waits in a circle *)

\* t has written what the next step of r waits for.
Blocks(t, r) ==
    /\ t # r
    /\ \/ /\ pc[r] = "insert_org"
          /\ CreateOrg(t) /\ call[t].key = call[r].key /\ "organization" \in pending[t]
       \/ /\ pc[r] = "lock"
          /\ call[t].user = call[r].user /\ "defaults" \in pending[t]
          /\ clearing[t] \cap clearing[r] # {}
       \/ /\ pc[r] = "insert"
          /\ "category" \in pending[t] /\ call[t].key = call[r].key /\ filed[t] = ctx[r]
       \/ /\ pc[r] = "flag" /\ seen[r] # call[r].flag
          /\ "flag" \in pending[t] /\ call[t].target = call[r].target

HoldersNeverWait ==
    \A r, s, t \in Requests : ~(Blocks(t, r) /\ Blocks(s, t))

\* A step that adds rows is not one that others block.
WritesAreAwaited ==
    \A r \in Requests : pending'[r] \subseteq pending[r] \/ \A t \in Requests : ~Blocks(t, r)

\* A request writes nothing before the last row that it waits for.
Unwritten ==
    \A r \in Requests :
        pc[r] \in {"idle", "insert_org", "clear", "lock", "check", "insert", "unbind", "read",
                   "flag"} => pending[r] = {}

LEMMA UnwrittenStep ==
    ASSUME TypeOK, Unwritten, NEW r \in Requests, Step(r)
    PROVE  Unwritten'
<1>0. /\ pc \in [Requests -> Phases] /\ pending \in [Requests -> SUBSET Rows]
  BY DEF TypeOK
<1>1. ASSUME NEW t \in Requests \ {r}
      PROVE  pc'[t] = pc[t] /\ pending'[t] = pending[t]
  BY StepIsLocal DEF StateOf
<1>2. pc'[r] \in {"idle", "insert_org", "clear", "lock", "check", "insert", "unbind", "read",
                  "flag"} => pending'[r] = {}
  BY <1>0 DEF Unwritten, GoTo, RollBackWith, Flush, Step, Arrive, Advance, Organise, Work,
              CheckSlug, VerifyMember, BindOrg, Orgless, InsertOrg, HasExisting,
              FindMemberships, ClearDefaults, ChooseDefault, InsertMembership, CheckName,
              InsertCategory, DenyShare, Unbind, ListCategories, LoadCategory,
              CategoryMissing, SetFlag, Respond, Commit, CutOff, locals
<1> QED BY <1>1, <1>2 DEF Unwritten

LEMMA WritesAwaitedStep ==
    ASSUME TypeOK, NEW r \in Requests, Step(r)
    PROVE  WritesAreAwaited
<1>1. ASSUME NEW t \in Requests \ {r}
      PROVE  pending'[t] = pending[t]
  BY StepIsLocal DEF StateOf
<1>2. CASE InsertOrg(r) \/ ClearDefaults(r) \/ InsertCategory(r) \/ SetFlag(r)
  <2>1. pending'[r] \subseteq pending[r] \/ \A t \in Requests : ~Blocks(t, r)
    BY <1>2 DEF InsertOrg, SlugHeld, ClearDefaults, DefaultsHeld, InsertCategory, NameHeld,
                SetFlag, Blocks, Flush, TypeOK
  <2> QED BY <1>1, <2>1 DEF WritesAreAwaited
<1>3. CASE InsertMembership(r) \/ ChooseDefault(r)
  <2>1. \A t \in Requests : ~Blocks(t, r)
    BY <1>3 DEF InsertMembership, ChooseDefault, Blocks
  <2> QED BY <1>1, <2>1 DEF WritesAreAwaited
<1>4. CASE ~(InsertOrg(r) \/ ClearDefaults(r) \/ InsertCategory(r) \/ SetFlag(r)
             \/ InsertMembership(r) \/ ChooseDefault(r))
  <2>1. pending'[r] \subseteq pending[r]
    BY <1>4 DEF TypeOK, RollBackWith, Step, Arrive, Advance, Organise, Work, CheckSlug,
                VerifyMember, BindOrg, Orgless, HasExisting, FindMemberships, CheckName,
                DenyShare, Unbind, ListCategories, LoadCategory, CategoryMissing, Respond,
                Commit, CutOff, locals
  <2> QED BY <1>1, <2>1 DEF WritesAreAwaited
<1> QED BY <1>2, <1>3, <1>4

\* Whoever waits for a slug, a name, the default flags of its user or a shared
\* category has written nothing that others wait for.
THEOREM NobodyWaitsInACircle == Spec => []HoldersNeverWait /\ [][WritesAreAwaited]_vars
<1>1. Init => Unwritten
  BY DEF Init, Unwritten
<1>2. TypeOK /\ Unwritten /\ [Next]_vars => Unwritten'
  <2> SUFFICES ASSUME TypeOK, Unwritten, [Next]_vars
               PROVE  Unwritten'
    OBVIOUS
  <2>1. CASE UNCHANGED vars
    BY <2>1 DEF Unwritten, vars
  <2> QED BY <2>1, UnwrittenStep DEF Next
<1>3. Unwritten => HoldersNeverWait
  BY DEF Unwritten, HoldersNeverWait, Blocks
<1>4. TypeOK /\ [Next]_vars => [WritesAreAwaited]_vars
  BY WritesAwaitedStep DEF Next
<1> QED BY <1>1, <1>2, <1>3, <1>4, TypeCorrect, PTL DEF Spec
==============================================================================
