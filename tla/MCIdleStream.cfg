\* One stream: up to six chunks, enough for one each tick
\* until no call with a total budget is open any more, a caller up to one step late.
SPECIFICATION Spec
CONSTANTS
    Idle = 2
    Totals <- MCTotals
    Transports <- MCTransports
    Lag = 1
    MaxItems = 6
PROPERTIES
    Contract
    StreamEnds
    ThreadGoes
