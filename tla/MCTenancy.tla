------------------------------- MODULE MCTenancy -------------------------------
(***************************************************************************)
(* An instance of Tenancy for TLC.                                         *)
(***************************************************************************)
EXTENDS Tenancy, TLC

CONSTANTS r1, r2, r3, root, ann, zoe, home, other, x, y

Call(job, user, key, target, flag) ==
    [job |-> job, user |-> user, key |-> key, target |-> target, flag |-> flag]

CreateAnOrg(user, key)  == Call("create_org", user, key, r1, FALSE)
SwitchTo(user, target)  == Call("switch", user, x, target, FALSE)
CreateCategory(user, key) == Call("create", user, key, r1, FALSE)
List(user)              == Call("list", user, x, r1, FALSE)
Share(user, target, b)  == Call("share", user, x, target, b)

\* A platform administrator at home, a member of another organisation, and a user
\* without one.
Homes == (root :> home) @@ (ann :> other) @@ (zoe :> NoOrg)

\* Everybody may do everything, about the first request's organisation or
\* category.
EveryCall ==
    {CreateAnOrg(ann, x), CreateAnOrg(ann, y), CreateAnOrg(root, x),
     SwitchTo(ann, r1), SwitchTo(ann, other),
     CreateCategory(ann, x), CreateCategory(root, x),
     List(ann), List(root), List(zoe), CreateAnOrg(zoe, y),
     Share(root, r1, TRUE), Share(root, r1, FALSE), Share(ann, r1, TRUE)}
==============================================================================
