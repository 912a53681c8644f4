---------------------------- MODULE MCFaqGeneration ----------------------------
(***************************************************************************)
(* Instances of FaqGeneration for TLC.                                     *)
(***************************************************************************)
EXTENDS FaqGeneration, SequencesExt

CONSTANTS r1, r2, r3, d1, d2

Item(session, draft, ids) == [session |-> session, draft |-> draft, ids |-> ids]

Call(job, target, approved) ==
    [job |-> job, target |-> target, approved |-> approved]

Generate     == Call("generate", r1, {})
Confirm(A)   == Call("confirm", r1, A)
First        == Item(r1, d1, "known")
Second       == Item(r1, d2, "known")
Foreign      == Item(r2, d1, "known")

\* Drafting, every decision about the two candidates of a session, approvals of what
\* is not one of them, and the other way to an FAQ.
Asked ==
    <<Generate, Confirm({}), Confirm({First}), Confirm({Second}), Confirm({First, Second}),
      Confirm({Foreign}), Confirm({First, Item(r1, d2, "unknown")}),
      Confirm({First, Item(r1, d2, "repeated")}),
      Call("from_source", r1, {}), Call("confirm_source", r1, {First})>>

EveryCall == ToSet(Asked)

NoTables     == [org |-> NoKeys, shared |-> NoKeys, allow |-> FALSE]
DefaultOnly  == [NoTables EXCEPT !.org = WithKey(NoKeys, DefaultProvider, 1)]
EveryTable   == {NoTables, DefaultOnly}

\* Which of the other two requests is which does not matter.  Without keys, or without
\* the session that most of the calls are about, there is little to meet over.
MeetingInit ==
    /\ Init
    /\ \E i, j \in 1..Len(Asked) : i <= j /\ call[r2] = Asked[i] /\ call[r3] = Asked[j]
    /\ keys = NoTables \/ call[r1] # Generate => call[r2] = Generate

MeetingSpec ==
    MeetingInit /\ [][Next]_vars /\ \A r \in Requests : WF_vars(Advance(r))
==============================================================================
