\* Three requests of any kind about one session, which may wait for each other's rows;
\* one may be cut off.
SPECIFICATION MeetingSpec
CONSTANTS
    r1 = r1
    r2 = r2
    r3 = r3
    d1 = d1
    d2 = d2
    Requests = {r1, r2, r3}
    Drafts = {d1, d2}
    Calls <- EveryCall
    KeyTables <- EveryTable
    Providers = {"openai"}
    DefaultProvider = "openai"
    MaxFaults = 1
INVARIANTS TypeOK PublishedAtOnce GateKept ApprovedIsPublished
PROPERTIES KeepsGate EveryRequestFinishes
CHECK_DEADLOCK FALSE
