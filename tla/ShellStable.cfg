CONSTANTS
    Words = {"w"}
    Values = {"false"}
    MaxArgs = 2
    None = None
SPECIFICATION Spec
INVARIANT StableHonoured
