CONSTANTS
    MaxConns  = 5
    MaxFaults = 2
SPECIFICATION LinkSpec
INVARIANTS LinkIsGenuine NoHeartIsLost
PROPERTY LinkComesBack
CHECK_DEADLOCK FALSE
