SPECIFICATION Spec
CONSTANTS
    Session = {s1}
    NoSession = NoSession
    Worker = {w1, w2}
    MaxAcceptPool = 1
    MaxClient = 2
    MaxQueue = 1
    MaxFail = 1
    MayStop = FALSE
    Caller = {"game"}
    Overlap = TRUE
SYMMETRY Symmetry
INVARIANTS CountsSound SessionInOnePlace
CHECK_DEADLOCK FALSE
