CONSTANTS
    FileIds = {f1, f2}
    Shas = {s1}
    Nodes = {n1}
    Rooms = {r1, r2}
    Names = {a1}
    Workers = {w1, w2}
    Scans = {}
    NoNode = NoNode
    MaxReports = 1
SPECIFICATION Spec
SYMMETRY Symmetry
CONSTRAINTS FewReports NoDiskLoss NoAgeing
INVARIANTS
    DuplicatesExplained
    VersionsFollowRealTime
PROPERTIES
    OnlyTicketedUploadsRevive
