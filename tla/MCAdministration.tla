--------------------------- MODULE MCAdministration --------------------------
(***************************************************************************)
(* Two administrators of the platform, two of one organisation, one of     *)
(* whom is an administrator of a second one with a member of its own, and  *)
(* an address that has no account yet.  A shared key, a key of the first   *)
(* organisation, and a remediation.                                        *)
(***************************************************************************)
EXTENDS Administration

CONSTANTS r1, r2, r3, root, eve, ann, ben, dan, new, o1, o2, k0, k1, p1

RolesOfMC == {<<root, Platform, "admin">>, <<eve, Platform, "admin">>,
              <<ann, o1, "admin">>, <<ben, o1, "admin">>, <<ann, o2, "admin">>,
              <<dan, o2, "user">>}

DefaultOrgOfMC ==
    [u \in Accounts |->
        CASE u \in {ann, ben} -> o1 [] u = dan -> o2 [] OTHER -> Platform]

KeyScopeOfMC == [k \in {k0, k1} |-> IF k = k0 THEN Platform ELSE o1]

Call(job, user, item, option) ==
    [job |-> job, user |-> user, item |-> item, option |-> option, valid |-> TRUE]

Asked ==
    <<Call("create_user", root, new, TRUE), Call("create_user", ann, new, TRUE),
      Call("create_user", ben, new, FALSE), Call("deactivate", ann, ben, FALSE),
      Call("deactivate", ben, ann, FALSE), Call("deactivate", ann, root, FALSE),
      Call("deactivate", root, root, FALSE), Call("reactivate", root, ben, FALSE),
      Call("deactivate", new, ben, FALSE), Call("set_key", new, k1, TRUE),

      Call("set_key", root, k1, TRUE), Call("set_key", ann, k1, FALSE),
      Call("set_key", ann, k1, TRUE), Call("set_key", root, k1, FALSE),
      Call("drop_key", ann, k1, FALSE), Call("drop_key", root, r1, FALSE),
      Call("drop_key", ann, k0, FALSE),
      Call("access", root, o1, TRUE), Call("access", root, o1, FALSE),

      Call("scan", root, p1, TRUE), Call("health", root, p1, TRUE),
      Call("decide", root, p1, TRUE), Call("decide", eve, p1, FALSE),
      [Call("decide", root, p1, TRUE) EXCEPT !.valid = FALSE],
      Call("audit_controls", root, p1, TRUE), Call("audit_controls", ann, p1, TRUE),
      Call("deactivate", ann, dan, FALSE)>>

\* Who creates administrators, and what these may do; administrators who
\* deactivate each other; keys set, and dropped, at once; scans beside the page
\* that shows them; and decisions about one remediation.
MeetingRequests ==
    {[r \in Requests |-> Asked[IF r = r1 THEN i[1] ELSE IF r = r2 THEN i[2] ELSE i[3]]] :
        i \in {<<1, 9, 10>>, <<2, 9, 10>>, <<1, 3, 9>>, <<2, 3, 9>>, <<4, 5, 8>>, <<4, 6, 7>>,
               <<2, 4, 8>>, <<12, 12, 15>>, <<11, 11, 16>>, <<12, 11, 16>>, <<11, 12, 15>>,
               <<18, 19, 18>>, <<13, 14, 17>>, <<20, 20, 21>>, <<22, 23, 22>>,
               <<22, 23, 24>>, <<25, 26, 20>>, <<2, 4, 27>>}}
==============================================================================
