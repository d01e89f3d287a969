SPECIFICATION FairSpec
CONSTANTS
    Session = {s1}
    NoSession = NoSession
    Worker = {w1}
    MaxAcceptPool = 1
    MaxClient = 2
    MaxQueue = 1
    MaxFail = 1
    MayStop = TRUE
    Caller = {"auth", "game", "http"}
    Overlap = FALSE
INVARIANTS SessionPassesClean
PROPERTIES SessionsComeRound StopEndsOrSleeps
CHECK_DEADLOCK FALSE
