\* UserMetadata conversions with a NUL byte in a later string.
CONSTANTS
    Strings = {"a", "n"}
    NulStrings = {"n"}
    None = None
    NullPtr = NullPtr
    Crash = Crash
    MaxAllocs = 5
    MaxCalls = 3
SPECIFICATION Spec
CONSTANTS
    Kinds = {"UserMetadata"}
    AppAccessOpt = {"a", "n"}
INVARIANT NoLeak
