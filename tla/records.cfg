\* Three requests of any kind by a platform administrator, an organisation
\* administrator, the user who asked, and a user of another organisation.
SPECIFICATION Spec
CONSTANTS
    r1 = r1
    r2 = r2
    r3 = r3
    root = root
    ann = ann
    bob = bob
    eve = eve
    home = home
    other = other
    log = log
    alert = alert
    Low = Low
    Up = Up
    New = New
    note = note
    p = p
    q = q
    Absent = Absent
    Untouched = Untouched
    Requests = {r1, r2, r3}
    Users = {root, ann, bob, eve}
    Superusers = {root}
    Orgs = {home, other}
    Org <- Home
    Members = {ann, bob, eve}
    Logs = {log, note}
    Alerts = {alert}
    Asker <- Askers
    Names = {Low, Up, New}
    Fold <- OneCase
    Existing <- OneCategory
    Permissions = {p, q}
    Calls <- EveryCall
    MaxFaults = 1
INVARIANTS TypeOK LogsStayPrivate ManagersAreGranted TracedToAudit
SYMMETRY Interchangeable
CHECK_DEADLOCK FALSE
