-------------------------- MODULE FaqGenerationProofs --------------------------
(***************************************************************************)
(* Proofs about FaqGeneration, for every set of requests, calls, drafts    *)
(* and key tables and any number of faults.                                *)
(***************************************************************************)
EXTENDS FaqGeneration, TLAPS

\* What the assumption on Calls says of a request's call.
LEMMA CallType ==
    ASSUME TypeOK, NEW r \in Requests
    PROVE  /\ call[r] \in Calls
           /\ call[r].job \in Jobs
           /\ call[r].target \in Requests
           /\ call[r].approved \subseteq Items
<1>1. call[r] \in Calls
  BY DEF TypeOK
<1> QED BY <1>1, CallsAssumption

\* More rows in a session are still rows.
LEMMA AddRows ==
    ASSUME NEW p \in [Requests -> SUBSET Rows], NEW r \in Requests,
           NEW S \in SUBSET Rows
    PROVE  [p EXCEPT ![r] = @ \cup S] \in [Requests -> SUBSET Rows]
<1>1. p[r] \cup S \in SUBSET Rows
  OBVIOUS
<1> QED BY <1>1

\* Every step keeps the variables in their domains.
LEMMA TypeStep ==
    ASSUME TypeOK, [Next]_vars
    PROVE  TypeOK'
<1> USE FaultsAssumption DEF locals, tables, GoTo, RollBackWith
<1>1. ASSUME NEW r \in Requests, Arrive(r)
      PROVE  TypeOK'
  <2>1. CASE ReadLogs(r) \/ ConfirmSource(r)
    BY <2>1 DEF ReadLogs, ConfirmSource, TypeOK, Phases
  <2>2. CASE ReadSource(r)
    BY <2>2 DEF ReadSource, TypeOK, Phases
  <2>3. CASE SourceMissing(r) \/ SessionMissing(r)
    BY <2>3 DEF SourceMissing, SessionMissing, TypeOK, Phases, Responses
  <2>4. CASE LoadSession(r)
    BY <2>4, CallType DEF LoadSession, TypeOK, Phases
  <2> QED BY <1>1, <2>1, <2>2, <2>3, <2>4 DEF Arrive
<1>2. ASSUME NEW r \in Requests, Write(r)
      PROVE  TypeOK'
  <2>1. CASE RecordViolation(r) \/ StageSession(r)
    <3>1. PICK row \in {"violation", "session"} :
              pending' = [pending EXCEPT ![r] = @ \cup {row}]
      BY <2>1 DEF RecordViolation, StageSession
    <3>2. {row} \in SUBSET Rows
      BY DEF Rows
    <3>3. pending' \in [Requests -> SUBSET Rows]
      BY <3>1, <3>2, AddRows DEF TypeOK
    <3> QED BY <2>1, <3>3 DEF RecordViolation, StageSession, TypeOK, Phases
  <2>2. CASE KeyUnavailable(r)
    BY <2>2 DEF KeyUnavailable, AfterDrafting, TypeOK, Phases
  <2>3. CASE Draft(r)
    <3>1. drafts' \in [Requests -> SUBSET Drafts]
      BY <2>3 DEF Draft, TypeOK
    <3>2. pc' \in [Requests -> Phases]
      BY <2>3 DEF Draft, AfterDrafting, TypeOK, Phases
    <3> QED BY <2>3, <3>1, <3>2 DEF Draft, TypeOK
  <2> QED BY <1>2, <2>1, <2>2, <2>3 DEF Write
<1>3. ASSUME NEW r \in Requests, Decide(r)
      PROVE  TypeOK'
  <2>1. CASE Validate(r)
    BY <2>1 DEF Validate, TypeOK, Phases, Responses
  <2>4. CASE InsertFaqs(r)
    <3>1. {"faqs"} \in SUBSET Rows
      BY DEF Rows
    <3>2. pending' \in [Requests -> SUBSET Rows]
      <4>1. CASE pending' = [pending EXCEPT ![r] = {}]
        BY <4>1 DEF TypeOK
      <4>2. CASE pending' = [pending EXCEPT ![r] = @ \cup {"faqs"}]
        BY <3>1, <4>2, AddRows DEF TypeOK
      <4> QED BY <2>4, <4>1, <4>2 DEF InsertFaqs
    <3> QED BY <2>4, <3>2 DEF InsertFaqs, TypeOK, Phases, Responses
  <2>2. CASE LoadCandidates(r)
    BY <2>2, CallType DEF LoadCandidates, TypeOK, Phases
  <2>3. CASE MarkCandidates(r)
    <3> DEFINE S == {"marks"} \cup (IF seenGate[r] = "confirmed" THEN {}
                                    ELSE {"closing"})
    <3>1. S \in SUBSET Rows
      BY DEF Rows
    <3>2. pending' = [pending EXCEPT ![r] = @ \cup S]
      BY <2>3 DEF MarkCandidates
    <3>3. pending' \in [Requests -> SUBSET Rows]
      BY <3>1, <3>2, AddRows DEF TypeOK
    <3> QED BY <2>3, <3>3 DEF MarkCandidates, TypeOK, Phases
  <2> QED BY <1>3, <2>1, <2>2, <2>3, <2>4 DEF Decide
<1>4. ASSUME NEW r \in Requests, Respond(r)
      PROVE  TypeOK'
  BY <1>4 DEF Respond, TypeOK, Phases, Responses
<1>5. ASSUME NEW r \in Requests, Commit(r)
      PROVE  TypeOK'
  <2>1. \A s \in Requests : GateAfter(r, s) \in Gates
    BY DEF GateAfter, TypeOK, Gates
  <2>2. \A s \in Requests : VerdictAfter(r, s) \in [Drafts -> Verdicts]
    BY DEF VerdictAfter, Staged, Decision, TypeOK, Verdicts
  <2>3. gate' \in [Requests -> Gates] /\ verdict' \in [Requests -> [Drafts -> Verdicts]]
    BY <1>5, <2>1, <2>2 DEF Commit
  <2>4. pc' \in [Requests -> Phases]
    BY <1>5 DEF Commit, TypeOK, Phases
  <2> QED BY <1>5, <2>3, <2>4 DEF Commit, TypeOK
<1>6. ASSUME NEW r \in Requests, CutOff(r)
      PROVE  TypeOK'
  BY <1>6 DEF CutOff, TypeOK, Phases, Responses
<1>7. CASE UNCHANGED vars
  BY <1>7 DEF vars, TypeOK
<1> QED BY <1>1, <1>2, <1>3, <1>4, <1>5, <1>6, <1>7 DEF Next, Step, Advance

\* TypeOK holds in every reachable state.
THEOREM TypeCorrect == Spec => []TypeOK
<1>1. Init => TypeOK
  BY FaultsAssumption DEF Init, TypeOK, Phases, Gates, Verdicts, NoRows, Responses
<1>2. TypeOK /\ [Next]_vars => TypeOK'
  BY TypeStep
<1> QED BY <1>1, <1>2, PTL DEF Spec

------------------------------------------------------------------------------
(* A request's step leaves the others alone, and all but a commit leave the     *)
(* tables alone.                                                                *)

StateOf(r) == <<pc[r], call[r], llm[r], drafts[r], seenGate[r], seen[r],
                pending[r], durable[r], response[r]>>

LEMMA StepIsLocal ==
    ASSUME TypeOK, NEW r \in Requests, Step(r)
    PROVE  /\ call' = call /\ keys' = keys
           /\ \A s \in Requests \ {r} : StateOf(s)' = StateOf(s)
<1> USE DEF locals, tables, GoTo, RollBackWith, StateOf, TypeOK
<1>1. CASE Arrive(r)
  BY <1>1 DEF Arrive, ReadLogs, ReadSource, SourceMissing, LoadSession,
              SessionMissing, ConfirmSource
<1>2. CASE Write(r)
  BY <1>2 DEF Write, KeyUnavailable, Draft, RecordViolation, StageSession
<1>3. CASE Decide(r)
  BY <1>3 DEF Decide, Validate, InsertFaqs, LoadCandidates, MarkCandidates
<1>4. CASE Respond(r) \/ Commit(r) \/ CutOff(r)
  BY <1>4 DEF Respond, Commit, CutOff
<1> QED BY <1>1, <1>2, <1>3, <1>4 DEF Step, Advance

LEMMA OnlyCommitsShow ==
    ASSUME NEW r \in Requests, Step(r), ~Commit(r)
    PROVE  UNCHANGED <<durable, gate, verdict>>
BY DEF Step, Arrive, Advance, Write, Decide, ReadLogs, ReadSource, SourceMissing,
       LoadSession, SessionMissing, ConfirmSource, KeyUnavailable, Draft,
       RecordViolation, StageSession, Validate, InsertFaqs, LoadCandidates,
       MarkCandidates, Respond, CutOff, tables

------------------------------------------------------------------------------
(* The invariant *)

\* The request that moves keeps what its phase says of it.
LEMMA MovingLocalInv ==
    ASSUME TypeOK, NEW r \in Requests, LocalInv(r), Step(r)
    PROVE  LocalInv(r)'
<1> USE DEF locals, tables, GoTo, RollBackWith, TypeOK, LocalInv, JobOfPhase,
            RowsOfPhase, Validated, ResponseOfPhase
<1>1. call[r].job \in Jobs /\ call[r].approved \subseteq Items
  BY CallType
<1>2. CASE ReadLogs(r)
  BY <1>2 DEF ReadLogs
<1>3. CASE ReadSource(r)
  BY <1>3 DEF ReadSource, Complete
<1>4. CASE SourceMissing(r) \/ SessionMissing(r)
  BY <1>4 DEF SourceMissing, SessionMissing
<1>5. CASE LoadSession(r)
  BY <1>5 DEF LoadSession
<1>6. CASE ConfirmSource(r)
  BY <1>6 DEF ConfirmSource
<1>7. CASE KeyUnavailable(r)
  BY <1>7 DEF KeyUnavailable, AfterDrafting, Complete
<1>8. CASE Draft(r)
  BY <1>8 DEF Draft, AfterDrafting, Complete
<1>9. CASE RecordViolation(r)
  BY <1>9 DEF RecordViolation, Complete
<1>10. CASE StageSession(r)
  BY <1>10 DEF StageSession, Complete
<1>11. CASE Validate(r)
  BY <1>11 DEF Validate
<1>12. CASE InsertFaqs(r)
  <2>1. \A i \in call[r].approved : i.ids \in {"known", "unknown", "repeated"}
    BY <1>1 DEF Items
  <2>2. /\ call[r].job \in {"confirm", "confirm_source"}
        /\ pending[r] = {} /\ durable[r] = {} /\ response[r] = "none"
        /\ \A i \in call[r].approved : i.ids # "unknown"
        /\ call' = call /\ durable' = durable /\ seenGate' = seenGate
    BY <1>12 DEF InsertFaqs
  <2>3. CASE \E i \in call[r].approved : i.ids = "repeated"
    BY <1>12, <2>2, <2>3 DEF InsertFaqs
  <2>4. CASE ~\E i \in call[r].approved : i.ids = "repeated"
    <3>1. /\ pending'[r] = {"faqs"} /\ response'[r] = "none"
          /\ pc'[r] = IF call[r].job = "confirm" THEN "load" ELSE "respond"
      BY <1>12, <2>2, <2>4 DEF InsertFaqs
    <3>2. \A i \in call[r].approved : i.ids = "known"
      BY <2>1, <2>2, <2>4
    <3> QED BY <2>2, <3>1, <3>2 DEF Complete
  <2> QED BY <2>3, <2>4
<1>13. CASE LoadCandidates(r)
  BY <1>13 DEF LoadCandidates
<1>14. CASE MarkCandidates(r)
  BY <1>14 DEF MarkCandidates, Complete
<1>15. CASE Respond(r)
  BY <1>15 DEF Respond, Complete
<1>16. CASE Commit(r)
  BY <1>16 DEF Commit, Complete
<1>17. CASE CutOff(r)
  BY <1>17 DEF CutOff, InFlight
<1> QED
  BY <1>2, <1>3, <1>4, <1>5, <1>6, <1>7, <1>8, <1>9, <1>10, <1>11, <1>12, <1>13,
     <1>14, <1>15, <1>16, <1>17 DEF Step, Arrive, Advance, Write, Decide

\* A request that does not move keeps it too.
LEMMA RestingLocalInv ==
    ASSUME NEW r \in Requests, LocalInv(r), StateOf(r)' = StateOf(r)
    PROVE  LocalInv(r)'
BY DEF StateOf, LocalInv, JobOfPhase, RowsOfPhase, Complete, Validated,
       ResponseOfPhase

\* Steps other than commits: the tables stand still, and what a request has read
\* it has read from them now.
LEMMA QuietStep ==
    ASSUME TypeOK, ReviewInv, NEW r \in Requests, Step(r), ~Commit(r)
    PROVE  \A s \in Requests : SeenInv(s)' /\ SessionInv(s)'
<1>1. UNCHANGED <<durable, gate, verdict>>
  BY OnlyCommitsShow
<1>2. call' = call
  BY StepIsLocal
<1>3. ASSUME NEW s \in Requests
      PROVE  SessionInv(s)'
  BY <1>1, <1>2 DEF SessionInv, Reviews, Published, ReviewInv
<1>4. ASSUME NEW s \in Requests, s # r
      PROVE  SeenInv(s)'
  <2>1. StateOf(s)' = StateOf(s)
    BY <1>4, StepIsLocal
  <2> QED BY <1>1, <2>1 DEF StateOf, SeenInv, InFlight, ReviewInv
<1>5. SeenInv(r)'
  <2> USE DEF SeenInv, ReviewInv, GoTo, RollBackWith, InFlight, locals, tables
  <2>1. SUFFICES ASSUME call[r].job = "confirm", InFlight(r)'
                 PROVE  SeenInv(r)'
    BY <1>2
  <2>2. LocalInv(r) /\ SeenInv(r) /\ call[r].target \in Requests
    BY CallType
  <2>3. CASE LoadSession(r)
    BY <1>1, <1>2, <2>3 DEF LoadSession, TypeOK
  <2>4. CASE Validate(r) \/ InsertFaqs(r)
    BY <1>1, <1>2, <2>1, <2>2, <2>4 DEF Validate, InsertFaqs, TypeOK
  <2>5. CASE LoadCandidates(r)
    BY <1>1, <1>2, <2>1, <2>2, <2>5 DEF LoadCandidates, TypeOK
  <2>6. CASE MarkCandidates(r) \/ Respond(r)
    BY <1>1, <1>2, <2>1, <2>2, <2>6 DEF MarkCandidates, Respond, TypeOK
  <2>7. CASE SourceMissing(r) \/ SessionMissing(r) \/ CutOff(r)
    BY <2>1, <2>7 DEF SourceMissing, SessionMissing, CutOff, TypeOK
  <2>8. CASE ReadLogs(r) \/ ReadSource(r) \/ ConfirmSource(r)
    BY <2>1, <2>8 DEF ReadLogs, ReadSource, ConfirmSource
  <2>9. CASE Write(r)
    BY <2>1, <2>2, <2>9 DEF Write, KeyUnavailable, Draft, RecordViolation,
                            StageSession, LocalInv, JobOfPhase
  <2> QED BY <2>3, <2>4, <2>5, <2>6, <2>7, <2>8, <2>9 DEF Step, Arrive, Advance, Decide
<1> QED BY <1>3, <1>4, <1>5

\* Only a confirmation marks candidates, and it never stages a session.
LEMMA RowsOfJob ==
    ASSUME NEW r \in Requests, call[r].job \in Jobs, NEW rows, Complete(r, rows)
    PROVE  /\ call[r].job # "confirm" => "marks" \notin rows /\ "closing" \notin rows
           /\ call[r].job = "confirm"
                => /\ {"faqs", "marks"} \subseteq rows /\ "session" \notin rows
                   /\ "closing" \notin rows => seenGate[r] = "confirmed"
<1>1. CASE call[r].job = "generate"
  <2>1. rows = {"session"}
    BY <1>1 DEF Complete
  <2> QED BY <1>1, <2>1
<1>2. CASE call[r].job = "from_source"
  <2>1. rows \subseteq {"violation"}
    BY <1>2 DEF Complete
  <2> QED BY <1>2, <2>1
<1>3. CASE call[r].job = "confirm_source"
  <2>1. rows = {"faqs"}
    BY <1>3 DEF Complete
  <2> QED BY <1>3, <2>1
<1>4. CASE call[r].job = "confirm"
  <2>1. rows = IF seenGate[r] = "confirmed" THEN {"faqs", "marks"}
               ELSE {"faqs", "marks", "closing"}
    BY <1>4 DEF Complete
  <2> QED BY <1>4, <2>1
<1> QED BY <1>1, <1>2, <1>3, <1>4 DEF Jobs

\* A commit, in terms of the rows it makes visible.
LEMMA CommittedTables ==
    ASSUME TypeOK, ReviewInv, NEW r \in Requests, Commit(r)
    PROVE  /\ pc[r] = "commit" /\ response[r] = "success"
           /\ Complete(r, pending[r]) /\ durable[r] = {}
           /\ durable' = [durable EXCEPT ![r] = pending[r]]
           /\ \A s \in Requests : /\ gate'[s] = GateAfter(r, s)
                                 /\ verdict'[s] = VerdictAfter(r, s)
<1>1. LocalInv(r) /\ pc[r] = "commit"
  BY DEF ReviewInv, Commit
<1>2. Complete(r, pending[r]) /\ durable[r] = {} /\ response[r] = "success"
  BY <1>1 DEF LocalInv, RowsOfPhase, ResponseOfPhase
<1> QED BY <1>1, <1>2 DEF Commit, TypeOK

\* A commit never takes a table back: sessions stay where they are or move on,
\* decided candidates stay decided.
LEMMA TablesMoveOn ==
    ASSUME TypeOK, ReviewInv, NEW r \in Requests, Commit(r), NEW s \in Requests,
           gate[s] # "absent"
    PROVE  /\ gate'[s] # "absent"
           /\ gate[s] = "confirmed" => gate'[s] = "confirmed"
           /\ \A d \in Drafts :
                 /\ verdict'[s][d] = "absent" <=> verdict[s][d] = "absent"
                 /\ verdict[s][d] \in {"approved", "rejected"}
                       => verdict'[s][d] \in {"approved", "rejected"}
<1>1. \/ s # r
      \/ "session" \notin pending[r]
  BY CommittedTables DEF ReviewInv, SessionInv
<1>2. gate'[s] = GateAfter(r, s) /\ verdict'[s] = VerdictAfter(r, s)
  BY CommittedTables
<1>3. gate'[s] # "absent" /\ (gate[s] = "confirmed" => gate'[s] = "confirmed")
  BY <1>1, <1>2 DEF GateAfter
<1>4. ASSUME NEW d \in Drafts
      PROVE  /\ verdict'[s][d] = "absent" <=> verdict[s][d] = "absent"
             /\ verdict[s][d] \in {"approved", "rejected"}
                   => verdict'[s][d] \in {"approved", "rejected"}
  <2>1. CASE s = call[r].target /\ "marks" \in pending[r]
    <3>1. call[r].job = "confirm"
      BY <2>1, CommittedTables, CallType, RowsOfJob
    <3>2. seen[r][d] = "absent" <=> verdict[s][d] = "absent"
      BY <2>1, <3>1, CommittedTables DEF ReviewInv, SeenInv, InFlight
    <3>3. verdict'[s][d] = IF d \in Marks(r) THEN Decision(r, d) ELSE verdict[s][d]
      BY <1>1, <1>2, <2>1 DEF VerdictAfter
    <3>4. Decision(r, d) \in {"approved", "rejected"}
      BY DEF Decision
    <3>5. d \in Marks(r) => seen[r][d] # "absent"
      BY DEF Marks
    <3> QED BY <3>2, <3>3, <3>4, <3>5
  <2>2. CASE ~(s = call[r].target /\ "marks" \in pending[r])
    BY <1>1, <1>2, <2>2 DEF VerdictAfter
  <2> QED BY <2>1, <2>2
<1> QED BY <1>3, <1>4

\* After a commit: what the others have read stays good enough.
LEMMA CommitKeepsSeen ==
    ASSUME TypeOK, ReviewInv, NEW r \in Requests, Commit(r), NEW s \in Requests
    PROVE  SeenInv(s)'
<1>1. Step(r)
  BY DEF Step, Advance
<1>2. CASE s = r
  BY <1>2 DEF Commit, GoTo, SeenInv, InFlight, TypeOK
<1>3. CASE s # r
  <2>1. StateOf(s)' = StateOf(s)
    BY <1>1, <1>3, StepIsLocal
  <2>2. SUFFICES ASSUME call[s].job = "confirm", InFlight(s)
                 PROVE  SeenInv(s)'
    BY <2>1 DEF SeenInv, StateOf, InFlight
  <2>3. gate[call[s].target] # "absent" /\ SeenInv(s)
    BY <2>2 DEF ReviewInv, SeenInv
  <2>4. call[s].target \in Requests
    BY CallType
  <2> DEFINE t == call[s].target
  <2>5. /\ gate'[t] # "absent"
        /\ gate[t] = "confirmed" => gate'[t] = "confirmed"
        /\ \A d \in Drafts :
              /\ verdict'[t][d] = "absent" <=> verdict[t][d] = "absent"
              /\ verdict[t][d] \in {"approved", "rejected"}
                    => verdict'[t][d] \in {"approved", "rejected"}
    BY <2>3, <2>4, TablesMoveOn
  <2>6. /\ pc'[s] = pc[s] /\ call'[s] = call[s] /\ seenGate'[s] = seenGate[s]
        /\ seen'[s] = seen[s]
    BY <2>1 DEF StateOf
  <2> QED BY <2>2, <2>3, <2>5, <2>6 DEF SeenInv
<1> QED BY <1>2, <1>3

\* After a commit: the tables still agree with each other.
LEMMA CommitKeepsSessions ==
    ASSUME TypeOK, ReviewInv, NEW r \in Requests, Commit(r), NEW s \in Requests
    PROVE  SessionInv(s)'
<1>1. /\ Complete(r, pending[r]) /\ durable[r] = {}
      /\ durable' = [durable EXCEPT ![r] = pending[r]]
      /\ gate'[s] = GateAfter(r, s) /\ verdict'[s] = VerdictAfter(r, s)
      /\ pc[r] = "commit"
  BY CommittedTables
<1>2. call' = call /\ call[r].job \in Jobs
  BY CallType, StepIsLocal DEF Step, Advance
<1>3. SessionInv(s) /\ gate[r] = "absent"
  BY <1>1 DEF ReviewInv, SessionInv
<1>4. \A t \in Requests \ {r} : durable'[t] = durable[t]
  BY <1>1 DEF TypeOK
<1>5. durable'[r] = pending[r]
  BY <1>1 DEF TypeOK
\* What was published is still published.
<1>6. ASSUME NEW d \in Drafts, verdict[s][d] = "approved"
      PROVE  (\E t \in Reviews(s) : \E i \in Published(t) : i.session = s /\ i.draft = d)'
  <2>1. PICK t \in Reviews(s) : \E i \in Published(t) : i.session = s /\ i.draft = d
    BY <1>3, <1>6 DEF SessionInv
  <2>2. t \in Requests \ {r}
    BY <1>1, <2>1 DEF Reviews
  <2>3. t \in Reviews(s)' /\ Published(t)' = Published(t)
    BY <1>2, <1>4, <2>1, <2>2 DEF Reviews, Published
  <2> QED BY <2>1, <2>3
<1>7. CASE call[r].job # "confirm"
  <2>1. "marks" \notin pending[r] /\ "closing" \notin pending[r]
    BY <1>1, <1>2, <1>7, RowsOfJob
  <2>2. CASE s = r /\ "session" \in pending[r]
    <3>1. /\ gate'[s] = "pending_review"
          /\ \A d \in Drafts : verdict'[s][d] \in {"absent", "pending_review"}
      BY <1>1, <2>2 DEF GateAfter, VerdictAfter, Staged
    <3>2. \A t \in Requests : (call[t].job = "confirm" /\ call[t].target = s)
                             => durable'[t] = {}
      BY <1>3, <1>4, <1>7, <2>2 DEF SessionInv
    <3> QED BY <1>2, <1>5, <2>2, <3>1, <3>2 DEF SessionInv
  <2>3. CASE ~(s = r /\ "session" \in pending[r])
    <3>1. gate'[s] = gate[s] /\ verdict'[s] = verdict[s]
      BY <1>1, <2>1, <2>3 DEF GateAfter, VerdictAfter
    <3>2. "session" \in durable'[s] <=> "session" \in durable[s]
      BY <1>1, <1>4, <1>5, <2>3
    <3>3. \A t \in Requests : call[t].job = "confirm" => durable'[t] = durable[t]
      BY <1>4, <1>7
    <3> QED BY <1>2, <1>3, <1>6, <3>1, <3>2, <3>3 DEF SessionInv
  <2> QED BY <2>2, <2>3
<1>8. CASE call[r].job = "confirm"
  <2>1. /\ {"faqs", "marks"} \subseteq pending[r] /\ "session" \notin pending[r]
        /\ "closing" \notin pending[r] => seenGate[r] = "confirmed"
    BY <1>1, <1>2, <1>8, RowsOfJob
  <2>2. "session" \in durable'[s] <=> "session" \in durable[s]
    BY <1>1, <1>4, <1>5, <2>1
  <2>3. SeenInv(r) /\ InFlight(r)
    BY <1>1 DEF ReviewInv, InFlight
  <2>4. CASE s = call[r].target
    <3>1. gate[s] # "absent" /\ gate'[s] = "confirmed"
      BY <1>1, <1>8, <2>1, <2>3, <2>4 DEF GateAfter, SeenInv
    <3>2. ASSUME NEW d \in Drafts
          PROVE  verdict'[s][d] = IF d \in Marks(r) THEN Decision(r, d)
                                  ELSE verdict[s][d]
      BY <1>1, <2>1, <2>4 DEF VerdictAfter
    <3>3. ASSUME NEW d \in Drafts
          PROVE  verdict'[s][d] # "pending_review"
      <4>1. /\ seen[r][d] = "absent" <=> verdict[s][d] = "absent"
            /\ seen[r][d] \in {"approved", "rejected"}
                  => verdict[s][d] \in {"approved", "rejected"}
        BY <1>1, <1>8, <2>3, <2>4 DEF SeenInv
      <4>2. Decision(r, d) \in {"approved", "rejected"}
        BY DEF Decision
      <4>3. d \notin Marks(r) => seen[r][d] \in {"absent", "approved", "rejected"}
        BY <4>2 DEF Marks
      <4> QED BY <3>2, <4>1, <4>2, <4>3
    <3>4. ASSUME NEW d \in Drafts, verdict'[s][d] = "approved"
          PROVE  (\E t \in Reviews(s) :
                     \E i \in Published(t) : i.session = s /\ i.draft = d)'
      <4>1. CASE d \in Marks(r)
        <5>1. Decision(r, d) = "approved"
          BY <3>2, <3>4, <4>1
        <5>2. \E i \in call[r].approved : i.session = s /\ i.draft = d
          BY <2>4, <5>1 DEF Decision
        <5>3. r \in Reviews(s)' /\ Published(r)' = call[r].approved
          BY <1>2, <1>5, <1>8, <2>1, <2>4 DEF Reviews, Published
        <5> QED BY <5>2, <5>3
      <4>2. CASE d \notin Marks(r)
        BY <1>6, <3>2, <3>4, <4>2
      <4> QED BY <4>1, <4>2
    <3> QED BY <1>3, <2>2, <3>1, <3>3, <3>4 DEF SessionInv
  <2>5. CASE s # call[r].target
    <3>1. gate'[s] = gate[s] /\ verdict'[s] = verdict[s]
      BY <1>1, <2>1, <2>5 DEF GateAfter, VerdictAfter
    <3>2. \A t \in Requests : call[t].target = s => durable'[t] = durable[t]
      BY <1>4, <2>5
    <3> QED BY <1>2, <1>3, <1>6, <2>2, <3>1, <3>2 DEF SessionInv
  <2> QED BY <2>4, <2>5
<1> QED BY <1>7, <1>8

\* TypeOK and ReviewInv are inductive together.
THEOREM ReviewsKeepTheirInvariant == Spec => []ReviewInv
<1>1. Init => ReviewInv
  BY CallsAssumption
     DEF Init, ReviewInv, LocalInv, JobOfPhase, RowsOfPhase, Validated,
         ResponseOfPhase, SeenInv, InFlight, SessionInv, NoRows
<1>2. TypeOK /\ ReviewInv /\ [Next]_vars => ReviewInv'
  <2>1. ASSUME TypeOK, ReviewInv, NEW r \in Requests, Step(r)
        PROVE  ReviewInv'
    <3>1. \A s \in Requests : LocalInv(s)'
      BY <2>1, MovingLocalInv, RestingLocalInv, StepIsLocal DEF ReviewInv
    <3>2. \A s \in Requests : SeenInv(s)' /\ SessionInv(s)'
      <4>1. CASE Commit(r)
        BY <2>1, <4>1, CommitKeepsSeen, CommitKeepsSessions
      <4>2. CASE ~Commit(r)
        BY <2>1, <4>2, QuietStep
      <4> QED BY <4>1, <4>2
    <3> QED BY <3>1, <3>2 DEF ReviewInv
  <2>2. ASSUME ReviewInv, UNCHANGED vars
        PROVE  ReviewInv'
    <3>1. \A s \in Requests : LocalInv(s)'
      BY <2>2, RestingLocalInv DEF vars, StateOf, ReviewInv
    <3>2. \A s \in Requests : SeenInv(s)'
      BY <2>2 DEF vars, ReviewInv, SeenInv, InFlight
    <3>3. \A s \in Requests : SessionInv(s)'
      BY <2>2 DEF vars, ReviewInv, SessionInv, Reviews, Published
    <3> QED BY <3>1, <3>2, <3>3 DEF ReviewInv
  <2> QED BY <2>1, <2>2 DEF Next
<1> QED BY <1>1, <1>2, TypeCorrect, PTL DEF Spec

\* NFR-001's gate, for any number of overlapping reviews.
THEOREM GateAlwaysKept == Spec => []GateKept
<1>1. TypeOK /\ ReviewInv => GateKept
  BY DEF ReviewInv, SessionInv, GateKept, Published
<1> QED BY <1>1, TypeCorrect, ReviewsKeepTheirInvariant, PTL

\* No candidate counts as approved without an FAQ a review of its session made.
THEOREM ApprovedAlwaysPublished == Spec => []ApprovedIsPublished
<1>1. ReviewInv => ApprovedIsPublished
  BY DEF ReviewInv, SessionInv, ApprovedIsPublished
<1> QED BY <1>1, ReviewsKeepTheirInvariant, PTL

\* FAQs are kept with their decision, for a client who was told so.
THEOREM AlwaysPublishedAtOnce == Spec => []PublishedAtOnce
<1>1. TypeOK /\ ReviewInv => PublishedAtOnce
  <2>1. ASSUME TypeOK, ReviewInv, NEW r \in Requests, "faqs" \in durable[r]
        PROVE  /\ call[r].job = "confirm" => "marks" \in durable[r]
               /\ response[r] = "success"
               /\ \A i \in call[r].approved : i.ids = "known"
    <3>1. LocalInv(r)
      BY <2>1 DEF ReviewInv
    <3>2. pc[r] = "done"
      BY <2>1, <3>1 DEF LocalInv, RowsOfPhase
    <3> QED BY <2>1, <3>1, <3>2 DEF LocalInv, RowsOfPhase, Complete, Validated,
                                     ResponseOfPhase
  <2> QED BY <2>1 DEF PublishedAtOnce
<1> QED BY <1>1, TypeCorrect, ReviewsKeepTheirInvariant, PTL

------------------------------------------------------------------------------
(* The requests implement ReviewGate. *)

\* A step that shows nothing: the client is told nothing new, no table moves.
LEMMA NothingShown ==
    ASSUME UNCHANGED <<call, durable, gate>>,
           \A s \in Requests : Told(s)' = Told(s)
    PROVE  UNCHANGED Gate!gateVars
<1>1. \A s \in Requests : Published(s)' = Published(s)
  BY DEF Published
<1> QED BY <1>1 DEF Gate!gateVars

\* A step that answers the client of r, and moves no table.
LEMMA OneAnswer ==
    ASSUME UNCHANGED <<call, durable, gate>>, NEW r \in Requests,
           \A s \in Requests \ {r} : Told(s)' = Told(s),
           Told(r) = "nothing", Told(r)' \in {"accepted", "refused"}
    PROVE  Gate!Next
<1>1. \A s \in Requests : Published(s)' = Published(s)
  BY DEF Published
<1>2. PICK answer \in {"accepted", "refused"} : Told(r)' = answer
  OBVIOUS
<1>3. [s \in Requests |-> Told(s)']
        = [[s \in Requests |-> Told(s)] EXCEPT ![r] = answer]
  BY <1>2
<1>4. Gate!Answer(r, answer)
  BY <1>1, <1>3 DEF Gate!Answer
<1> QED BY <1>4 DEF Gate!Next

\* A commit is what the gate allows a request that was told of success.
LEMMA CommitAllowed ==
    ASSUME TypeOK, ReviewInv, NEW r \in Requests, Commit(r)
    PROVE  [Gate!Next]_Gate!gateVars
<1>1. /\ response[r] = "success" /\ durable[r] = {} /\ Complete(r, pending[r])
      /\ durable' = [durable EXCEPT ![r] = pending[r]]
      /\ \A s \in Requests : gate'[s] = GateAfter(r, s)
      /\ pc[r] = "commit"
  BY CommittedTables
<1>2. call[r].job \in Jobs /\ call[r].target \in Requests /\ call' = call
  BY CallType, StepIsLocal DEF Step, Advance
<1>3. Told(r) = "accepted" /\ Published(r) = {}
  BY <1>1 DEF Told, Published
<1>4. \A s \in Requests : Told(s)' = Told(s)
  BY DEF Commit, Told
<1>5. \A s \in Requests \ {r} : Published(s)' = Published(s)
  BY <1>1, <1>2 DEF Published, TypeOK
<1>6. gate \in [Requests -> Gates] /\ gate' = [s \in Requests |-> GateAfter(r, s)]
  BY DEF Commit, TypeOK
<1>7. Published(r)' = IF "faqs" \in pending[r] THEN call[r].approved ELSE {}
  BY <1>1, <1>2 DEF Published, TypeOK
<1>8. CASE call[r].job = "generate"
  <2>1. pending[r] = {"session"}
    BY <1>1, <1>8 DEF Complete
  <2>2. gate[r] = "absent"
    BY <1>1 DEF ReviewInv, SessionInv
  <2>3. gate' = [gate EXCEPT ![r] = "pending_review"]
    BY <1>6, <2>1 DEF GateAfter
  <2>4. \A s \in Requests : Published(s)' = Published(s)
    BY <1>3, <1>5, <1>7, <2>1
  <2>5. Gate!Stage(r)
    BY <1>2, <1>3, <1>4, <1>8, <2>2, <2>3, <2>4 DEF Gate!Stage
  <2> QED BY <2>5 DEF Gate!Next
<1>9. CASE call[r].job = "from_source"
  <2>1. pending[r] \subseteq {"violation"}
    BY <1>1, <1>9 DEF Complete
  <2>2. gate' = gate
    BY <1>6, <2>1 DEF GateAfter
  <2>3. \A s \in Requests : Published(s)' = Published(s)
    BY <1>3, <1>5, <1>7, <2>1
  <2> QED BY <1>2, <1>4, <2>2, <2>3 DEF Gate!gateVars
<1>10. CASE call[r].job \in {"confirm", "confirm_source"}
  <2>1. "faqs" \in pending[r]
    BY <1>1, <1>10 DEF Complete
  <2>2. [s \in Requests |-> Published(s)']
          = [[s \in Requests |-> Published(s)] EXCEPT ![r] = call[r].approved]
    BY <1>5, <1>7, <2>1
  <2>3. CASE call[r].job = "confirm"
    <3>1. SeenInv(r) /\ InFlight(r)
      BY <1>1 DEF ReviewInv, InFlight
    <3>2. gate[call[r].target] # "absent"
      BY <2>3, <3>1 DEF SeenInv
    <3>3. \/ "closing" \in pending[r]
          \/ gate[call[r].target] = "confirmed"
      BY <1>1, <1>2, <2>3, <3>1, RowsOfJob DEF SeenInv
    <3>4. "session" \notin pending[r]
      BY <1>1, <1>2, <2>3, RowsOfJob
    <3>5. gate' = [gate EXCEPT ![call[r].target] = "confirmed"]
      BY <1>2, <1>6, <3>3, <3>4 DEF GateAfter
    <3>6. Gate!Review(r)
      BY <1>2, <1>3, <1>4, <2>2, <2>3, <3>2, <3>5 DEF Gate!Review
    <3> QED BY <3>6 DEF Gate!Next
  <2>4. CASE call[r].job = "confirm_source"
    <3>1. pending[r] = {"faqs"}
      BY <1>1, <2>4 DEF Complete
    <3>2. gate' = gate
      BY <1>6, <3>1 DEF GateAfter
    <3>3. Gate!Publish(r)
      BY <1>2, <1>3, <1>4, <2>2, <2>4, <3>2 DEF Gate!Publish
    <3> QED BY <3>3 DEF Gate!Next
  <2> QED BY <1>10, <2>3, <2>4
<1> QED BY <1>2, <1>8, <1>9, <1>10 DEF Jobs

\* Every step of a request is a step of the gate or shows nothing.
LEMMA StepAllowed ==
    ASSUME TypeOK, ReviewInv, NEW r \in Requests, Step(r)
    PROVE  [Gate!Next]_Gate!gateVars
<1>1. CASE Commit(r)
  BY <1>1, CommitAllowed
<1>2. CASE ~Commit(r)
  <2>1. UNCHANGED <<call, durable, gate>>
    BY <1>2, OnlyCommitsShow, StepIsLocal
  <2>2. \A s \in Requests \ {r} : Told(s)' = Told(s)
    BY StepIsLocal DEF StateOf, Told
  <2>3. response[r] \in Responses /\ response'[r] \in Responses
    BY TypeStep DEF TypeOK, Next
  <2>4. CASE Told(r)' = Told(r)
    <3>1. UNCHANGED Gate!gateVars
      BY <2>1, <2>2, <2>4, NothingShown
    <3> QED BY <3>1
  <2>5. CASE Told(r)' # Told(r)
    <3>1. LocalInv(r) /\ response'[r] # response[r]
      BY <2>5 DEF ReviewInv, Told
    <3>2. Told(r) = "nothing"
      <4>1. response[r] = "none"
        <5>1. CASE CutOff(r)
          BY <3>1, <5>1 DEF CutOff, RollBackWith, TypeOK, LocalInv, ResponseOfPhase,
                            InFlight
        <5>2. CASE Respond(r)
          BY <3>1, <5>2 DEF Respond, LocalInv, ResponseOfPhase
        <5>3. CASE Arrive(r)
          BY <3>1, <5>3 DEF Arrive, ReadLogs, ReadSource, SourceMissing, LoadSession,
                            SessionMissing, ConfirmSource, LocalInv, ResponseOfPhase
        <5>4. CASE Write(r) \/ Decide(r)
          BY <3>1, <5>4 DEF Write, Decide, KeyUnavailable, Draft, RecordViolation,
                            StageSession, Validate, InsertFaqs, LoadCandidates,
                            MarkCandidates, LocalInv, ResponseOfPhase
        <5> QED BY <1>2, <5>1, <5>2, <5>3, <5>4 DEF Step, Advance
      <4> QED BY <4>1 DEF Told
    <3>3. Told(r)' \in {"accepted", "refused"}
      BY <2>5, <3>2 DEF Told
    <3>4. Gate!Next
      BY <2>1, <2>2, <3>2, <3>3, OneAnswer
    <3> QED BY <3>4
  <2> QED BY <2>4, <2>5
<1> QED BY <1>1, <1>2

\* The requests implement the gate NFR-001 promises.
THEOREM GateImplemented == Spec => KeepsGate
<1>1. Init => Gate!Init
  BY DEF Init, Gate!Init, Told, Published
<1>2. TypeOK /\ ReviewInv /\ [Next]_vars => [Gate!Next]_Gate!gateVars
  <2>1. ASSUME UNCHANGED vars
        PROVE  UNCHANGED Gate!gateVars
    BY <2>1 DEF vars, Gate!gateVars, Told, Published
  <2> QED BY <2>1, StepAllowed DEF Next
<1> QED BY <1>1, <1>2, TypeCorrect, ReviewsKeepTheirInvariant, PTL
        DEF Spec, KeepsGate, Gate!Spec

------------------------------------------------------------------------------
(* What EveryRequestFinishes rests on besides fairness *)

\* How many phases may follow.
PhasesLeft(r) ==
    CASE pc[r] = "idle"                  -> 8
      [] pc[r] = "llm"                   -> 7
      [] pc[r] \in {"stage", "violation", "validate"} -> 6
      [] pc[r] = "insert"                -> 5
      [] pc[r] = "load"                  -> 4
      [] pc[r] = "mark"                  -> 3
      [] pc[r] = "respond"               -> 2
      [] pc[r] = "commit"                -> 1
      [] OTHER                           -> 0

\* A review waits only for reviews that have marked their candidates and wait for
\* nobody.
HoldersMoveOn ==
    \A r \in Requests : RowsHeld(r) =>
        \A t \in Requests : {"closing", "marks"} \cap pending[t] # {} =>
            pc[t] \in {"respond", "commit"}

\* A step of a request brings it closer to its end, and no other step moves it.
ComesCloser ==
    \A r \in Requests : StateOf(r)' = StateOf(r) \/ PhasesLeft(r)' < PhasesLeft(r)

LEMMA CloserStep ==
    ASSUME TypeOK, NEW r \in Requests, Step(r)
    PROVE  PhasesLeft(r)' < PhasesLeft(r)
<1>0. pc \in [Requests -> Phases]
  BY DEF TypeOK
<1> USE <1>0 DEF GoTo, RollBackWith, PhasesLeft
<1>1. CASE Arrive(r)
  BY <1>1 DEF Arrive, ReadLogs, ReadSource, SourceMissing, LoadSession, SessionMissing,
              ConfirmSource
<1>2. CASE Write(r)
  BY <1>2 DEF Write, KeyUnavailable, Draft, RecordViolation, StageSession, AfterDrafting
<1>3. CASE Decide(r)
  BY <1>3 DEF Decide, Validate, InsertFaqs, LoadCandidates, MarkCandidates
<1>4. CASE Respond(r) \/ Commit(r)
  BY <1>4 DEF Respond, Commit
<1>5. CASE CutOff(r)
  BY <1>5 DEF CutOff, InFlight, Phases
<1> QED BY <1>1, <1>2, <1>3, <1>4, <1>5 DEF Step, Advance

\* Every step of a request is one of at most eight, and a review that waits for the
\* candidates of others waits for reviews that do not wait: all that is left to
\* fairness is that a request which can go on does.
THEOREM RequestsRunOut ==
    Spec => /\ [](HoldersMoveOn /\ \A r \in Requests : PhasesLeft(r) \in 0..8)
            /\ [][ComesCloser]_vars
<1>1. TypeOK /\ ReviewInv => HoldersMoveOn
  BY DEF HoldersMoveOn, ReviewInv, LocalInv, RowsOfPhase, TypeOK, Phases
<1>2. \A r \in Requests : PhasesLeft(r) \in 0..8
  BY DEF PhasesLeft
<1>3. TypeOK /\ [Next]_vars => [ComesCloser]_vars
  <2> SUFFICES ASSUME TypeOK, Next, NEW r \in Requests
               PROVE  StateOf(r)' = StateOf(r) \/ PhasesLeft(r)' < PhasesLeft(r)
    BY DEF ComesCloser
  <2> QED BY CloserStep, StepIsLocal DEF Next
<1> QED BY <1>1, <1>2, <1>3, TypeCorrect, ReviewsKeepTheirInvariant, PTL DEF Spec
==============================================================================
