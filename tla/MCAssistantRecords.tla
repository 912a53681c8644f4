-------------------------- MODULE MCAssistantRecords --------------------------
(***************************************************************************)
(* Instances of AssistantRecords for TLC.                                  *)
(***************************************************************************)
EXTENDS AssistantRecords, TLC

CONSTANTS r1, r2, r3, root, ann, bob, eve, home, other, log, note, alert, Low, Up, New, p, q

\* Eve works in the other organisation, where she asked about a note; Ann is the
\* administrator of Bob, who asked about a log.
Home   == [u \in Users |-> IF u = eve THEN other ELSE home]
Askers == [x \in Logs \cup Alerts |-> IF x = note THEN eve ELSE bob]
OneCase == [n \in Names |-> IF n = Up THEN Low ELSE n]
OneCategory == {<<home, Low>>}

Call(job, user, item, value) ==
    [job |-> job, user |-> user, item |-> item, value |-> value, names |-> {},
     known |-> TRUE]

Faq(user, item, names, known) ==
    [job |-> "faq", user |-> user, item |-> item, value |-> Absent, names |-> names,
     known |-> known]

LogCalls ==
    {Call("rate", bob, log, "up"),
     Call("helpfulness", bob, log, "helpful"), Call("helpfulness", ann, log, "helpful"),
     Call("get_log", bob, log, Absent), Call("get_log", ann, log, Absent),
     Call("list_admin", ann, log, Absent), Call("list_admin", root, log, Absent),
     Call("acknowledge", ann, alert, Absent), Call("acknowledge", eve, alert, Absent)}

CurationCalls ==
    {Call("category", ann, Up, Absent), Call("category", ann, New, Absent),
     Faq(ann, New, {Low, New}, TRUE), Call("browse", bob, New, Absent),
     Call("upsert", ann, Low, "retrieval_augmented"),
     Call("upsert", ann, Low, "frontier_general_knowledge"),
     Call("delete", ann, Low, Absent),
     Call("assign", ann, bob, Absent), Call("assign", ann, eve, Absent)}

EveryCall == LogCalls \cup CurationCalls

\* One user rates an answer twice at once.
TwoRatings == {Call("helpfulness", bob, log, "helpful"),
               Call("helpfulness", bob, log, "unhelpful")}

Interchangeable == Permutations(Requests)
==============================================================================
