CONSTANTS
    Node = n1
    Sids = {x1}
    TheSha = s1
    Shas = {s1}
    ShaOf <- SameSha
    ChunkCount = 1
    Handlers = {h1, h2}
    MaxObjects = 2
    None = None
SYMMETRY AlikeHandlers
SPECIFICATION Spec
INVARIANTS
    BlobsAreIntact
    SessionsKeepTheirChunks
    NoSessionIsStranded
PROPERTIES
    ImplementsContentNode
