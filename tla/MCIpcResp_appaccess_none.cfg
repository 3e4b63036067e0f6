\* AppAccess with a None name or app id, cloned back.
CONSTANTS
    Strings = {"a", "n"}
    NulStrings = {"n"}
    None = None
    NullPtr = NullPtr
    Crash = Crash
    MaxAllocs = 5
    MaxCalls = 3
SPECIFICATION Spec
CONSTANTS
    Kinds = {"AppAccess"}
    AppAccessOpt = {"a", None}
INVARIANT RoundTrip
