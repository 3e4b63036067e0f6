\* Every conversion with every input; AppAccess names are given (Some).
CONSTANTS
    Strings = {"a", "n"}
    NulStrings = {"n"}
    None = None
    NullPtr = NullPtr
    Crash = Crash
    MaxAllocs = 5
    MaxCalls = 3
SPECIFICATION Spec
CONSTANTS
    Kinds = {"AuthGranted", "AppAccess", "UserMetadata", "MDataEntry"}
    AppAccessOpt = {"a", "n"}
INVARIANT TypeOK
INVARIANT RoundTrip
