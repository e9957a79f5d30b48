CONSTANTS
    s1 = s1
    Uploads = {u1}
    Shas = {s1, s2}
    ShaOf <- SameSha
    ChunkCount = 2
    MaxAttempts = 2
    None = None
SPECIFICATION Spec
INVARIANTS
    AcknowledgedStays SuccessIsTrue FailureExplained
PROPERTIES
    UploadsEnd UploadsSettle
