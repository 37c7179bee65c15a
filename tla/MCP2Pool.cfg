SPECIFICATION FairSpec
CONSTANTS
    MaxLogins = 2
    MaxJobs = 3
    MaxSubmits = 2
    MaxFaults = 1
INVARIANTS TypeOK AnswerIsOwn CrashNeedsFault
PROPERTIES SubmitReturns DepartureIsCleanedUp
CHECK_DEADLOCK FALSE
