----------------------------- MODULE MCWorkspace -----------------------------
(***************************************************************************)
(* Instances of Workspace for TLC: a draft, a request that is submitted, a *)
(* note, a file and a file of another organisation.                        *)
(***************************************************************************)
EXTENDS Workspace, Sequences

CONSTANTS r1, r2, r3, r4, r5, ann, ben, zoe, home, other, draft, sent, note, file, theirs, old

OrgOfMC   == [u \in Users |-> IF u = zoe THEN other ELSE home]
TableOfMC == [i \in Items |-> CASE i \in {draft, sent}  -> "approval"
                                [] i \in {file, theirs} -> "file"
                                [] OTHER                -> "note"]
OwnerOfMC == [i \in Items |-> IF i = theirs THEN other ELSE home]

Call(job, user, table, item) ==
    [job |-> job, user |-> user, table |-> table, item |-> item, permitted |-> TRUE,
     valid |-> TRUE]

Bad(c) == [c EXCEPT !.valid = FALSE]

Asked ==
    <<Call("submit", ann, "approval", draft), Call("approve", ann, "approval", draft),
      Call("approve", ann, "approval", sent), Call("reject", ben, "approval", sent),
      Bad(Call("approve", ben, "approval", sent)), Call("submit", zoe, "approval", draft),
      Call("edit", ben, "approval", draft), Call("delete", ben, "approval", sent),
      Call("create", ann, "approval", draft), Call("edit", ann, "approval", sent),

      Call("create", ann, "file", file), Bad(Call("create", ann, "file", file)),
      Call("delete", ann, "file", file), Call("download", ben, "file", file),
      Call("delete", ben, "file", r1), Call("download", ben, "file", r1),
      Call("list", zoe, "file", file),

      Call("create", ann, "note", note), Call("edit", ann, "note", note),
      Call("delete", ben, "note", note), Call("sweep", ann, "note", note),
      [Call("list", ann, "note", note) EXCEPT !.permitted = FALSE],

      Call("reject", ann, "approval", draft), Call("approve", ben, "approval", draft)>>

Meeting(calls) ==
    {[r \in Requests |-> Asked[CASE r = r1 -> i[1] [] r = r2 -> i[2] [] r = r3 -> i[3]
                                 [] r = r4 -> i[4] [] r = r5 -> i[5]]] : i \in calls}

\* Three requests, and two that are refused.
OfThree(calls) == Meeting({i \o <<22, 22>> : i \in calls})

\* Submissions and decisions beside edits, deletions and each other; uploads,
\* downloads and removals of one file; sweeps; and notes.
Three ==
    OfThree({<<1, 1, 2>>, <<1, 2, 7>>, <<3, 4, 8>>, <<3, 4, 10>>, <<1, 6, 7>>, <<4, 5, 8>>,
             <<1, 9, 10>>, <<1, 2, 4>>, <<1, 1, 7>>, <<3, 3, 4>>, <<4, 7, 9>>, <<2, 8, 8>>,
             <<11, 15, 16>>, <<13, 13, 14>>, <<11, 12, 17>>, <<13, 21, 21>>, <<11, 21, 21>>,
             <<19, 19, 20>>, <<18, 20, 22>>, <<18, 17, 21>>,
             <<11, 15, 15>>, <<13, 14, 17>>, <<21, 21, 21>>, <<11, 13, 18>>})

\* Two submissions of one draft, of which one comes late, and three decisions.
Reopened == Meeting({<<1, 1, 2, 23, 24>>})

MeetingRequests == Three \cup Reopened

TwoDecisions == Meeting({<<3, 4>>})
==============================================================================
