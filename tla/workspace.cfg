\* Three requests about notes, approval requests, files and the archive, or five
\* about one approval request; one of them may be cut off.
SPECIFICATION Spec
CONSTANTS
    r1 = r1
    r2 = r2
    r3 = r3
    r4 = r4
    r5 = r5
    ann = ann
    ben = ben
    zoe = zoe
    home = home
    other = other
    draft = draft
    sent = sent
    note = note
    file = file
    theirs = theirs
    old = old
    Absent = Absent
    Untouched = Untouched
    Requests = {r1, r2, r3, r4, r5}
    Users = {ann, ben, zoe}
    Orgs = {home, other}
    UserOrg <- OrgOfMC
    Items = {draft, sent, note, file, theirs}
    ItemTable <- TableOfMC
    ItemOrg <- OwnerOfMC
    Submitted = {sent}
    OldLogs = {old}
    Workloads <- MeetingRequests
    MaxFaults = 1
INVARIANTS TypeOK DecisionsAreGenuine NothingLost
CHECK_DEADLOCK FALSE
