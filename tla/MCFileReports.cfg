CONSTANTS
    FileIds = {f1, f2}
    Shas = {s1, s2}
    Nodes = {n1, n2}
    Rooms = {r1, r2}
    Names = {a1}
    Workers = {w1}
    Scans = {c1}
    NoNode = NoNode
    MaxReports = 1
SPECIFICATION Spec
SYMMETRY Symmetry
CONSTRAINTS FewReports NoBlindReads OneMishap OneCommit
INVARIANTS
    TypeOK
    ListedFilesAreCommitted
    MissingExplained
PROPERTIES
    StaleVerdictsSpareDeletedRows
