\* Two tiered requests that meet on the grants, under fairness,
\* with a cut-off and two changes.
SPECIFICATION MeetingSpec
CONSTANTS
    r1 = r1
    r2 = r2
    Requests = {r1, r2}
    topic = topic
    Topics = {topic}
    Asked <- MeetingQuestions
    Providers = {"openai"}
    DefaultProvider = "openai"
    MaxAttempts = 2
    MaxChanges = 2
    MaxFaults = 1
INVARIANTS PipelineInv OutageIsAlerted UnitOfWork UserServedAfterGrants
PROPERTIES KeepsContract EveryQuestionFinishes
CHECK_DEADLOCK FALSE
