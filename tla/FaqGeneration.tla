----------------------------- MODULE FaqGeneration -----------------------------
(***************************************************************************)
(* FAQs drafted by an LLM and their review (app/slots/                     *)
(* accessibility_assistant/service.py, routes.py), as concurrent HTTP      *)
(* requests over one PostgreSQL database at READ COMMITTED.                *)
(*                                                                         *)
(* Drafts from interaction logs are staged in a session until a reviewer   *)
(* confirms it; drafts from an information source are only kept by the     *)
(* client.  A request's rows are `pending` until its session commits; an   *)
(* UPDATE holds its rows until then.  A commit follows the response        *)
(* (get_session, see QuestionAnswering).                                   *)
(*                                                                         *)
(* A session is known by the request that staged it, a candidate by its    *)
(* session and a draft.  Callers are permitted (assistant:faq:manage).     *)
(***************************************************************************)
EXTENDS LLMKeys

CONSTANTS Requests,   \* the HTTP requests that may be served
          Drafts,     \* the candidates one completion may hold
          Calls,      \* what requests may ask for
          KeyTables,  \* the LLM key tables requests may meet
          MaxFaults   \* bound: requests cut off by a database error or crash

ASSUME FaultsAssumption == MaxFaults \in Nat

Jobs == {"generate", "confirm", "from_source", "confirm_source"}

\* An approved item names a candidate, which nothing compares with the session
\* that is confirmed, and lists of category and source ids.
Items == [session : Requests, draft : Drafts,
          ids : {"known", "unknown", "repeated"}]

ASSUME CallsAssumption ==
    \A c \in Calls : /\ c.job \in Jobs
                     /\ c.target \in Requests
                     /\ c.approved \subseteq Items
                     /\ c.job = "confirm_source" => c.approved # {}

ASSUME KeyTablesAssumption ==
    \A k \in KeyTables : /\ k.org \in [Providers -> Nat]
                         /\ k.shared \in [Providers -> Nat]
                         /\ k.allow \in BOOLEAN

VARIABLES pc,        \* where each request stands
          call,      \* what it asks for
          llm,       \* what became of its LLM call
          drafts,    \* local `raw_candidates`
          seenGate,  \* `gen_session.status` as loaded
          seen,      \* `candidate.status` as loaded
          pending,   \* rows flushed but not committed
          durable,   \* rows committed
          response,  \* what the client has been sent
          keys,      \* the LLM key tables
          gate,      \* committed aa_faq_generation_sessions.status
          verdict,   \* committed aa_faq_generation_candidates.status
          faults

vars == <<pc, call, llm, drafts, seenGate, seen, pending, durable, response,
          keys, gate, verdict, faults>>

------------------------------------------------------------------------------
(* Domains *)

Gates     == {"absent", "pending_review", "confirmed"}
Verdicts  == {"absent", "pending_review", "approved", "rejected"}
Rows      == {"session", "closing", "marks", "faqs", "violation"}
Responses == {"none", "not_found", "invalid", "error", "success"}
Phases    == {"idle", "llm", "stage", "violation", "validate", "insert", "load",
              "mark", "respond", "commit", "done", "failed"}

NoRows == [d \in Drafts |-> "absent"]

InFlight(r) == pc[r] \notin {"idle", "done", "failed"}

\* aa_faqs: what a request has published.
Published(r) == IF "faqs" \in durable[r] THEN call[r].approved ELSE {}

------------------------------------------------------------------------------
Init ==
    /\ pc = [r \in Requests |-> "idle"]
    /\ call \in [Requests -> Calls]
    /\ llm = [r \in Requests |-> "none"]
    /\ drafts = [r \in Requests |-> {}]
    /\ seenGate = [r \in Requests |-> "absent"]
    /\ seen = [r \in Requests |-> NoRows]
    /\ pending = [r \in Requests |-> {}]
    /\ durable = [r \in Requests |-> {}]
    /\ response = [r \in Requests |-> "none"]
    /\ keys \in KeyTables
    /\ gate = [r \in Requests |-> "absent"]
    /\ verdict = [r \in Requests |-> NoRows]
    /\ faults = 0

GoTo(r, phase) == pc' = [pc EXCEPT ![r] = phase]

\* Mutant: the session is closed without its rollback.
LeaveOpenWith(r, answer) ==
    /\ pc' = [pc EXCEPT ![r] = "failed"]
    /\ response' = [response EXCEPT ![r] = answer]
    /\ UNCHANGED pending

\* An exception leaves the handler: the session is rolled back.
RollBackWith(r, answer) ==
    /\ pc' = [pc EXCEPT ![r] = "failed"]
    /\ pending' = [pending EXCEPT ![r] = {}]
    /\ response' = [response EXCEPT ![r] = answer]

tables == <<durable, keys, gate, verdict>>
locals == <<call, llm, drafts, seenGate, seen>>

------------------------------------------------------------------------------
(* Drafting *)

\* create_faq_generation_session_from_logs: the LLM is not asked when there is
\* no log or the sanitizer blocks every one.
ReadLogs(r) ==
    /\ pc[r] = "idle"
    /\ call[r].job = "generate"
    /\ \E usable \in BOOLEAN : GoTo(r, IF usable THEN "llm" ELSE "stage")
    /\ UNCHANGED <<locals, pending, response, tables, faults>>

\* generate_faq_candidates_from_source: content that trips the no-execute
\* patterns is reported, empty content and code are not sent to the LLM.
ReadSource(r) ==
    /\ pc[r] = "idle"
    /\ call[r].job = "from_source"
    /\ \E content \in {"violation", "empty", "code", "text"} :
           GoTo(r, CASE content = "violation" -> "violation"
                     [] content \in {"empty", "code"} -> "respond"
                     [] OTHER -> "llm")
    /\ UNCHANGED <<locals, pending, response, tables, faults>>

\* get_information_source finds no such row.
SourceMissing(r) ==
    /\ pc[r] = "idle"
    /\ call[r].job = "from_source"
    /\ RollBackWith(r, "not_found")
    /\ UNCHANGED <<locals, tables, faults>>

\* _record_no_execute_violation: the platform administrators' notifications and
\* the audit row.
RecordViolation(r) ==
    /\ pc[r] = "violation"
    /\ pending' = [pending EXCEPT ![r] = @ \cup {"violation"}]
    /\ GoTo(r, "respond")
    /\ UNCHANGED <<locals, response, tables, faults>>

AfterDrafting(r) == IF call[r].job = "generate" THEN "stage" ELSE "respond"

\* complete(provider "openai") finds no key: no candidates.
KeyUnavailable(r) ==
    /\ pc[r] = "llm"
    /\ ~Usable(keys.org, keys.shared, keys.allow, DefaultProvider)
    /\ llm' = [llm EXCEPT ![r] = "refused"]
    /\ GoTo(r, AfterDrafting(r))
    /\ UNCHANGED <<call, drafts, seenGate, seen, pending, response, tables, faults>>

\* The completion's well-formed candidates; none when the call or the parsing
\* fails in any way.
Draft(r) ==
    /\ pc[r] = "llm"
    /\ Usable(keys.org, keys.shared, keys.allow, DefaultProvider)
    /\ llm' = [llm EXCEPT ![r] = "called"]
    /\ \E D \in SUBSET Drafts : drafts' = [drafts EXCEPT ![r] = D]
    /\ GoTo(r, AfterDrafting(r))
    /\ UNCHANGED <<call, seenGate, seen, pending, response, tables, faults>>

\* The session row, its candidates and the audit row.
StageSession(r) ==
    /\ pc[r] = "stage"
    /\ pending' = [pending EXCEPT ![r] = @ \cup {"session"}]
    /\ GoTo(r, "respond")
    /\ UNCHANGED <<locals, response, tables, faults>>

------------------------------------------------------------------------------
(* Reviewing *)

\* _get_faq_generation_session
LoadSession(r) ==
    /\ pc[r] = "idle"
    /\ call[r].job = "confirm"
    /\ gate[call[r].target] # "absent"
    /\ seenGate' = [seenGate EXCEPT ![r] = gate[call[r].target]]
    /\ GoTo(r, "validate")
    /\ UNCHANGED <<call, llm, drafts, seen, pending, response, tables, faults>>

SessionMissing(r) ==
    /\ pc[r] = "idle"
    /\ call[r].job = "confirm"
    /\ gate[call[r].target] = "absent"
    /\ RollBackWith(r, "not_found")
    /\ UNCHANGED <<locals, tables, faults>>

\* confirm_faq_generation_from_source has no session to look for.
ConfirmSource(r) ==
    /\ pc[r] = "idle"
    /\ call[r].job = "confirm_source"
    /\ GoTo(r, "validate")
    /\ UNCHANGED <<locals, pending, response, tables, faults>>

\* Mutant: an error only if no item resolves.
ValidateAny(r) ==
    /\ pc[r] = "validate"
    /\ IF call[r].approved # {} /\ \A i \in call[r].approved : i.ids = "unknown"
       THEN RollBackWith(r, "invalid")
       ELSE GoTo(r, "insert") /\ UNCHANGED <<pending, response>>
    /\ UNCHANGED <<locals, tables, faults>>

\* _resolve_ids_in_org, for every list of every item before the first INSERT.
Validate(r) ==
    /\ pc[r] = "validate"
    /\ IF \E i \in call[r].approved : i.ids = "unknown"
       THEN RollBackWith(r, "invalid")
       ELSE GoTo(r, "insert") /\ UNCHANGED <<pending, response>>
    /\ UNCHANGED <<locals, tables, faults>>

\* Mutants: the FAQs are committed ahead of the decision; a closed session gets
\* new marks but no FAQs.
InsertFaqsCommitted(r) ==
    /\ pc[r] = "insert"
    /\ durable' = [durable EXCEPT ![r] = @ \cup {"faqs"}]
    /\ GoTo(r, IF call[r].job = "confirm" THEN "load" ELSE "respond")
    /\ UNCHANGED <<locals, pending, response, keys, gate, verdict, faults>>

InsertFaqsIfOpen(r) ==
    /\ pc[r] = "insert"
    /\ pending' = [pending EXCEPT ![r] = @ \cup (IF seenGate[r] = "confirmed" THEN {}
                                               ELSE {"faqs"})]
    /\ GoTo(r, IF call[r].job = "confirm" THEN "load" ELSE "respond")
    /\ UNCHANGED <<locals, response, tables, faults>>

\* One aa_faqs row per item and its association rows, whose primary key admits
\* no id twice (what the final flush of a confirmation still holds of them ends
\* it in the same way).
InsertFaqs(r) ==
    /\ pc[r] = "insert"
    /\ IF \E i \in call[r].approved : i.ids = "repeated"
       THEN RollBackWith(r, "error")
       ELSE /\ pending' = [pending EXCEPT ![r] = @ \cup {"faqs"}]
            /\ GoTo(r, IF call[r].job = "confirm" THEN "load" ELSE "respond")
            /\ UNCHANGED response
    /\ UNCHANGED <<locals, tables, faults>>

\* The candidates of the session that is confirmed.
LoadCandidates(r) ==
    /\ pc[r] = "load"
    /\ seen' = [seen EXCEPT ![r] = verdict[call[r].target]]
    /\ GoTo(r, "mark")
    /\ UNCHANGED <<call, llm, drafts, seenGate, pending, response, tables, faults>>

\* Mutants: only approved candidates are marked; a status no enumeration has.
DecisionIfApproved(r, d) ==
    IF \E i \in call[r].approved : i.session = call[r].target /\ i.draft = d
    THEN "approved" ELSE seen[r][d]

DecisionDiscarded(r, d) ==
    IF \E i \in call[r].approved : i.session = call[r].target /\ i.draft = d
    THEN "approved" ELSE "discarded"

\* `approved_candidate_ids` against the candidates that were loaded.
Decision(r, d) ==
    IF \E i \in call[r].approved : i.session = call[r].target /\ i.draft = d
    THEN "approved" ELSE "rejected"

\* The unit of work emits an UPDATE for a row whose status it sees changed.
Marks(r) == {d \in Drafts : seen[r][d] # "absent" /\ seen[r][d] # Decision(r, d)}

\* An UPDATE waits for the transaction that has changed the same row.
RowsHeld(r) ==
    \E t \in Requests \ {r} :
        /\ call[t].target = call[r].target
        /\ \/ "closing" \in pending[t] /\ seenGate[r] # "confirmed"
           \/ "marks" \in pending[t] /\ Marks(t) \cap Marks(r) # {}

\* The final flush and the audit row.
MarkCandidates(r) ==
    /\ pc[r] = "mark"
    /\ ~RowsHeld(r)
    /\ pending' = [pending EXCEPT ![r] = @ \cup {"marks"}
                       \cup (IF seenGate[r] = "confirmed" THEN {} ELSE {"closing"})]
    /\ GoTo(r, "respond")
    /\ UNCHANGED <<locals, response, tables, faults>>

------------------------------------------------------------------------------
(* The end of a request *)

Respond(r) ==
    /\ pc[r] = "respond"
    /\ response' = [response EXCEPT ![r] = "success"]
    /\ GoTo(r, "commit")
    /\ UNCHANGED <<locals, pending, tables, faults>>

Staged(r) == [d \in Drafts |-> IF d \in drafts[r] THEN "pending_review" ELSE "absent"]

\* What the rows of r make of a session's status and of its candidates.
GateAfter(r, s) ==
    IF s = r /\ "session" \in pending[r] THEN "pending_review"
    ELSE IF s = call[r].target /\ "closing" \in pending[r] THEN "confirmed"
    ELSE gate[s]

VerdictAfter(r, s) ==
    IF s = r /\ "session" \in pending[r] THEN Staged(r)
    ELSE IF s = call[r].target /\ "marks" \in pending[r]
         THEN [d \in Drafts |-> IF d \in Marks(r) THEN Decision(r, d)
                                ELSE verdict[s][d]]
    ELSE verdict[s]

Commit(r) ==
    /\ pc[r] = "commit"
    /\ gate' = [s \in Requests |-> GateAfter(r, s)]
    /\ verdict' = [s \in Requests |-> VerdictAfter(r, s)]
    /\ durable' = [durable EXCEPT ![r] = @ \cup pending[r]]
    /\ pending' = [pending EXCEPT ![r] = {}]
    /\ GoTo(r, "done")
    /\ UNCHANGED <<locals, response, keys, faults>>

\* A statement or the commit fails, or the process dies.
CutOff(r) ==
    /\ InFlight(r)
    /\ faults < MaxFaults
    /\ faults' = faults + 1
    /\ RollBackWith(r, IF response[r] = "success" THEN "success" ELSE "error")
    /\ UNCHANGED <<locals, tables>>

------------------------------------------------------------------------------
Arrive(r)  == \/ ReadLogs(r) \/ ReadSource(r) \/ SourceMissing(r)
              \/ LoadSession(r) \/ SessionMissing(r) \/ ConfirmSource(r)
Write(r)   == \/ KeyUnavailable(r) \/ Draft(r) \/ RecordViolation(r) \/ StageSession(r)
Decide(r)  == \/ Validate(r) \/ InsertFaqs(r) \/ LoadCandidates(r) \/ MarkCandidates(r)
Advance(r) == Write(r) \/ Decide(r) \/ Respond(r) \/ Commit(r)

Step(r) == Arrive(r) \/ Advance(r) \/ CutOff(r)

Next == \E r \in Requests : Step(r)

Spec == Init /\ [][Next]_vars

\* As in QuestionAnswering: awaits end, nobody has to send a request.
FairSpec == Spec /\ \A r \in Requests : WF_vars(Advance(r))

------------------------------------------------------------------------------
(* Properties *)

TypeOK ==
    /\ pc \in [Requests -> Phases]
    /\ call \in [Requests -> Calls]
    /\ llm \in [Requests -> {"none", "called", "refused"}]
    /\ drafts \in [Requests -> SUBSET Drafts]
    /\ seenGate \in [Requests -> Gates]
    /\ seen \in [Requests -> [Drafts -> Verdicts]]
    /\ pending \in [Requests -> SUBSET Rows]
    /\ durable \in [Requests -> SUBSET Rows]
    /\ response \in [Requests -> Responses]
    /\ keys \in KeyTables
    /\ gate \in [Requests -> Gates]
    /\ verdict \in [Requests -> [Drafts -> Verdicts]]
    /\ faults \in 0..MaxFaults

Reviews(s) == {r \in Requests : call[r].job = "confirm" /\ call[r].target = s
                                  /\ "marks" \in durable[r]}

\* NFR-001's gate: while a session is pending no decision about it has been kept
\* and no review of it has published anything; once it is confirmed every one of
\* its candidates is decided, whatever reviews of it have overlapped.
GateKept ==
    \A s \in Requests :
        /\ gate[s] # "confirmed"
             => /\ \A d \in Drafts : verdict[s][d] \in {"absent", "pending_review"}
                /\ \A r \in Requests : call[r].job = "confirm" /\ call[r].target = s
                                         => Published(r) = {}
        /\ gate[s] = "confirmed"
             => \A d \in Drafts : verdict[s][d] # "pending_review"

\* A candidate that counts as approved is an FAQ: some review of its own session
\* that approved it has published it, although a later one may have updated the
\* candidates only in part.
ApprovedIsPublished ==
    \A s \in Requests, d \in Drafts :
        verdict[s][d] = "approved"
            => \E r \in Reviews(s) : \E i \in Published(r) : i.session = s /\ i.draft = d

\* "Atomic": FAQs are published with the decision they come from, for a client
\* who was told of success, and none of an item that did not validate.
PublishedAtOnce ==
    \A r \in Requests :
        "faqs" \in durable[r]
            => /\ call[r].job = "confirm" => "marks" \in durable[r]
               /\ response[r] = "success"
               /\ \A i \in call[r].approved : i.ids = "known"

\* Why these hold at every step.  Together with TypeOK this is inductive: what a
\* phase knows of the request's own rows, of what it has read although others
\* have committed since, and what the tables know of each other.
JobOfPhase(r) ==
    /\ pc[r] = "stage" => call[r].job = "generate"
    /\ pc[r] = "violation" => call[r].job = "from_source"
    /\ pc[r] = "llm" => call[r].job \in {"generate", "from_source"}
    /\ pc[r] \in {"validate", "insert"} => call[r].job \in {"confirm", "confirm_source"}
    /\ pc[r] \in {"load", "mark"} => call[r].job = "confirm"

\* The rows of a request whose handler has returned.
Complete(r, rows) ==
    CASE call[r].job = "generate" -> rows = {"session"}
      [] call[r].job = "from_source" -> rows \subseteq {"violation"}
      [] call[r].job = "confirm_source" -> rows = {"faqs"}
      [] call[r].job = "confirm" ->
             rows = IF seenGate[r] = "confirmed" THEN {"faqs", "marks"}
                    ELSE {"faqs", "marks", "closing"}

RowsOfPhase(r) ==
    /\ pc[r] \in {"idle", "llm", "stage", "violation", "validate", "insert", "done",
                  "failed"} => pending[r] = {}
    /\ pc[r] \in {"load", "mark"} => pending[r] = {"faqs"}
    /\ pc[r] \in {"respond", "commit"} => Complete(r, pending[r])
    /\ IF pc[r] = "done" THEN Complete(r, durable[r]) ELSE durable[r] = {}

Validated(r) ==
    /\ pc[r] = "insert" => \A i \in call[r].approved : i.ids # "unknown"
    /\ "faqs" \in pending[r] \cup durable[r]
          => \A i \in call[r].approved : i.ids = "known"

ResponseOfPhase(r) ==
    /\ pc[r] \notin {"commit", "done", "failed"} => response[r] = "none"
    /\ pc[r] \in {"commit", "done"} => response[r] = "success"
    /\ pc[r] = "failed" => response[r] # "none"

\* What a review has read is out of date only in ways that do not matter.
SeenInv(r) ==
    (call[r].job = "confirm" /\ InFlight(r)) =>
        /\ gate[call[r].target] # "absent"
        /\ seenGate[r] = "confirmed" => gate[call[r].target] = "confirmed"
        /\ pc[r] \in {"mark", "respond", "commit"} =>
              \A d \in Drafts :
                  /\ seen[r][d] = "absent" <=> verdict[call[r].target][d] = "absent"
                  /\ seen[r][d] \in {"approved", "rejected"}
                        => verdict[call[r].target][d] \in {"approved", "rejected"}

SessionInv(s) ==
    /\ gate[s] = "absent" <=> "session" \notin durable[s]
    /\ gate[s] # "confirmed"
          => /\ \A d \in Drafts : verdict[s][d] \in {"absent", "pending_review"}
             /\ \A r \in Requests : (call[r].job = "confirm" /\ call[r].target = s)
                                      => durable[r] = {}
    /\ gate[s] = "confirmed" => \A d \in Drafts : verdict[s][d] # "pending_review"
    /\ \A d \in Drafts : verdict[s][d] = "approved"
          => \E r \in Reviews(s) : \E i \in Published(r) : i.session = s /\ i.draft = d

LocalInv(r) == JobOfPhase(r) /\ RowsOfPhase(r) /\ Validated(r) /\ ResponseOfPhase(r)

ReviewInv == \A r \in Requests : LocalInv(r) /\ SeenInv(r) /\ SessionInv(r)

\* Every request comes to an end, the ones that wait for each other's candidate
\* rows included.
EveryRequestFinishes ==
    \A r \in Requests : InFlight(r) ~> pc[r] \in {"done", "failed"}

Told(r) == CASE response[r] = "none" -> "nothing"
             [] response[r] = "success" -> "accepted"
             [] OTHER -> "refused"

Gate == INSTANCE ReviewGate WITH
    told      <- [r \in Requests |-> Told(r)],
    published <- [r \in Requests |-> Published(r)]

\* The requests implement the gate NFR-001 promises.
KeepsGate == Gate!Spec
==============================================================================
