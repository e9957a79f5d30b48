CONSTANTS
    Nodes = {n1, n2}
    Uploads = {u1, u2}
    Fds = {d1, d2}
    MaxConns = 3
    None = None
SPECIFICATION Spec
SYMMETRY Symmetry
INVARIANTS
    TablesAgree
    ClosedEntriesExplained
    LoadExplained
    SocketsLeakExplained
PROPERTIES
    LiveLinksAreSpared
