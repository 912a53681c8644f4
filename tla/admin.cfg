\* Three requests about users, about keys or about platform health, one of which
\* may be cut off.
SPECIFICATION Spec
CONSTANTS
    r1 = r1
    r2 = r2
    r3 = r3
    root = root
    eve = eve
    ann = ann
    ben = ben
    dan = dan
    new = new
    o1 = o1
    o2 = o2
    k0 = k0
    k1 = k1
    p1 = p1
    Platform = Platform
    Absent = Absent
    Untouched = Untouched
    Requests = {r1, r2, r3}
    Users = {root, eve, ann, ben, dan, new}
    Orgs = {o1, o2}
    Accounts = {root, eve, ann, ben, dan}
    Enrolled = {root, eve, new}
    Roles <- RolesOfMC
    DefaultOrg <- DefaultOrgOfMC
    OldKeys = {k0, k1}
    KeyScope <- KeyScopeOfMC
    Proposals = {p1}
    Workloads <- MeetingRequests
    MaxFaults = 1
INVARIANTS TypeOK WithinReach KeysStayUsable ScansFailClosed
CHECK_DEADLOCK FALSE
