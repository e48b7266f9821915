CONSTANTS
    Alpha <- AtoiAlpha
    BufLen = 4
    MaxValue = 1100
    Bases <- CheckedBases
SPECIFICATION Spec
INVARIANT StrtolItoaRoundTrip
