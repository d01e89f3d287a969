SPECIFICATION FairSpec
CONSTANTS
    Producer = {p1, p2}
    Consumer = {c1}
    MaxPut = 3
    NoValue = NoValue
    Elided = TRUE
INVARIANTS NodesSound
PROPERTIES ImplementsFifo CallsReturn
CHECK_DEADLOCK FALSE
