\* Three requests of any kind by a platform administrator, a member and a
\* user without an organisation.
SPECIFICATION Spec
CONSTANTS
    r1 = r1
    r2 = r2
    r3 = r3
    root = root
    ann = ann
    zoe = zoe
    home = home
    other = other
    x = x
    y = y
    NoOrg = NoOrg
    Requests = {r1, r2, r3}
    Orgs = {home, other}
    Users = {root, ann, zoe}
    Superusers = {root}
    Home <- Homes
    Keys = {x, y}
    Calls <- EveryCall
    MaxFaults = 1
INVARIANTS TypeOK Isolation SharedIsEligible OneOrgPerRequest NamesUnique HasDefault
PROPERTIES OnlySwitchesMove
CHECK_DEADLOCK FALSE
