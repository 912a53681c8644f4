------------------------------ MODULE ReviewGate ------------------------------
(***************************************************************************)
(* What NFR-001 promises of FAQs drafted by an LLM, whatever transactions  *)
(* and row locks lie behind it: nothing is published but what one          *)
(* confirmation approved, all of it at once, and only after the client of  *)
(* that confirmation was told so; a session is confirmed together with     *)
(* such a publication and never reopened; a refused call leaves nothing.   *)
(***************************************************************************)
CONSTANTS Requests, Calls

VARIABLES call,      \* what each request asks for
          told,      \* what its client has been told
          gate,      \* where the session stands that a request has staged
          published  \* the items a request has turned into FAQs

gateVars == <<call, told, gate, published>>

Init ==
    /\ call \in [Requests -> Calls]
    /\ told = [r \in Requests |-> "nothing"]
    /\ gate = [r \in Requests |-> "absent"]
    /\ published = [r \in Requests |-> {}]

Answer(r, answer) ==
    /\ told[r] = "nothing"
    /\ told' = [told EXCEPT ![r] = answer]
    /\ UNCHANGED <<call, gate, published>>

\* Candidates are staged; nothing is published with them.
Stage(r) ==
    /\ call[r].job = "generate"
    /\ told[r] = "accepted"
    /\ gate[r] = "absent"
    /\ gate' = [gate EXCEPT ![r] = "pending_review"]
    /\ UNCHANGED <<call, told, published>>

\* A reviewer's decision about a staged session takes effect.
Review(r) ==
    /\ call[r].job = "confirm"
    /\ told[r] = "accepted"
    /\ published[r] = {}
    /\ gate[call[r].target] # "absent"
    /\ gate' = [gate EXCEPT ![call[r].target] = "confirmed"]
    /\ published' = [published EXCEPT ![r] = call[r].approved]
    /\ UNCHANGED <<call, told>>

\* Candidates the client has kept itself, from an information source.
Publish(r) ==
    /\ call[r].job = "confirm_source"
    /\ told[r] = "accepted"
    /\ published[r] = {}
    /\ published' = [published EXCEPT ![r] = call[r].approved]
    /\ UNCHANGED <<call, told, gate>>

Next == \E r \in Requests :
            \/ Stage(r) \/ Review(r) \/ Publish(r)
            \/ \E answer \in {"accepted", "refused"} : Answer(r, answer)

Spec == Init /\ [][Next]_gateVars
==============================================================================
