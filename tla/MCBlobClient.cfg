CONSTANTS
    MIN_CHUNK_SIZE = 1
    MAX_CHUNK_SIZE = 3
    MAX_BLOB_SIZE = 6
    DESCRIPTOR_SIZE = 1
    OWNER_SIZE = 1
    NoOwner = NoOwner
    c1 = c1
    c2 = c2
    t1 = t1
    t2 = t2
    t3 = t3
    Clients = {c1, c2}
    Tasks = {t1, t2}
    TaskClient <- MCTaskClient
    DataSizes = {2, 10}
    MaxOps = 2
    MaxFailures = 1
    MAX_PACK_DEPTH = 3
SPECIFICATION Spec
INVARIANT TypeOK
PROPERTY DeleteRemovesChain
PROPERTY OperationsReturn
PROPERTY BlobStoreRefinement
