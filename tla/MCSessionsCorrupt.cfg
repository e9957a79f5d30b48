CONSTANTS
    Node = n1
    Sids = {x1}
    TheSha = s1
    Shas = {s1}
    ShaOf <- SameSha
    ChunkCount = 2
    Handlers = {h1, h2}
    MaxObjects = 2
    None = None
CONSTRAINTS NothingExpires
SPECIFICATION Spec
INVARIANTS
    NoCorruptFileIsCommitted
