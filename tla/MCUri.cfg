SPECIFICATION Spec
CONSTANTS
    Bytes = {37, 51, 63, 70, 103, 200}
    MaxEscape = 3
    MaxUnescape = 5
INVARIANTS
    TypeOK
    BuffersSuffice
    CountPredictsSize
    OnlyUnreserved
    RoundTrip
    UnescapesQuotations
CHECK_DEADLOCK FALSE
