SPECIFICATION Spec
CONSTANT NULL = NULL
INVARIANTS RoundTrip NothingIsMadeUp
CHECK_DEADLOCK FALSE
