\* Three requests of two organisations, one of which has a connection that is
\* enabled and may get another one with the same name; one greeting is let
\* through in a window.
SPECIFICATION Spec
CONSTANTS
    r1 = r1
    r2 = r2
    r3 = r3
    home = home
    other = other
    c1 = c1
    c2 = c2
    c3 = c3
    weather = weather
    none = none
    Absent = Absent
    Untouched = Untouched
    Requests = {r1, r2, r3}
    Orgs = {home, other}
    Connections = {c1, c2, c3}
    ConnOrg <- Owner
    ConnName <- SameTag
    Names = {weather, none}
    Registered = {c1, c3}
    Enabled = {c1}
    Ceiling = 1
    MaxWindows = 2
    MaxRounds = 2
    Workloads <- GreetAndAdminister
    MaxFaults = 1
INVARIANTS TypeOK GreetingsAccounted ToolsEnabledOnPurpose
CHECK_DEADLOCK FALSE
