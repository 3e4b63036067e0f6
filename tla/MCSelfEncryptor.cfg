CONSTANTS
    MIN_CHUNK_SIZE = 2
    MAX_CHUNK_SIZE = 5
    MaxReadSize = 40
    None = None
SPECIFICATION Spec
INVARIANT RangeReadReturnsSlice
