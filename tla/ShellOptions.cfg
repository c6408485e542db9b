CONSTANTS
    Words = {"w", "1"}
    Values = {"0", "1"}
    MaxArgs = 3
    None = None
SPECIFICATION Spec
INVARIANTS TypeOK OptionsForwarded
