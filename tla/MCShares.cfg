CONSTANTS
    single        = single
    double        = double
    unlimited     = unlimited
    Requests      = {r1, r2, r3}
    Tokens        = {single, double, unlimited}
    MaxDownloads <- MaxDownloadsDef
    None          = None
SPECIFICATION Spec
INVARIANTS UsesAreAccounted RefusalsExplained
SYMMETRY Symmetry
CHECK_DEADLOCK FALSE
