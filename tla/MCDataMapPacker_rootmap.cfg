CONSTANTS
    MIN_CHUNK_SIZE = 1
    MAX_CHUNK_SIZE = 3
    MAX_BLOB_SIZE = 6
    DESCRIPTOR_SIZE = 1
    OWNER_SIZE = 1
    NoOwner = NoOwner
    Owners = {o1, o2}
    MaxFileSize = 40
SPECIFICATION Spec


INVARIANT DryRunReturnsRootDataMap
