\* Patterns over a, b, * and ?, keys over a and b, both up to 4 bytes.
CONSTANTS
    PatChars = {"a", "b", "*", "?"}
    KeyChars = {"a", "b"}
    MaxLen = 4
SPECIFICATION Spec
INVARIANTS
    GlobAgrees
