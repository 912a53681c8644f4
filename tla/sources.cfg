\* Three requests over two connections, by an organisation administrator and a
\* platform administrator.
SPECIFICATION FairSpec
CONSTANTS
    r1 = r1
    r2 = r2
    r3 = r3
    root = root
    ann = ann
    Absent = Absent
    Untouched = Untouched
    Requests = {r1, r2, r3}
    Users = {root, ann}
    Admins = {ann}
    Superusers = {root}
    PoolSize = 2
    MaxAttempts = 2
    Workloads <- TestAndAnyTwo
    MaxFaults = 1
INVARIANTS TypeOK AlertsMatchFailures SavedAfterTest
PROPERTIES EveryRequestFinishes
CHECK_DEADLOCK FALSE
