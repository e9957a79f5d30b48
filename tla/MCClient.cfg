CONSTANTS
    Callers     = {c1, c2}
    MaxSockets  = 2
    MaxRequests = 1
    Nothing     = Nothing
SPECIFICATION ClientSpec
INVARIANTS FramesStayWhole ConnectedIsHeard
PROPERTY CallsEnd
CHECK_DEADLOCK FALSE
