\* One request, any question, three changes by administrators around it.
SPECIFICATION Spec
CONSTANTS
    r1 = r1
    Requests = {r1}
    topic = topic
    Topics = {topic}
    Asked <- EveryQuestion
    Providers = {"openai", "anthropic"}
    DefaultProvider = "openai"
    MaxAttempts = 3
    MaxChanges = 3
    MaxFaults = 1
INVARIANTS TypeOK KeyFoundIfKept
PROPERTIES CallsAreJustified
CHECK_DEADLOCK FALSE
