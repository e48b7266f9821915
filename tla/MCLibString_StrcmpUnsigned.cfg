CONSTANTS
    Alpha <- AlphaHigh
    Size = 5
SPECIFICATION Spec
INVARIANT StrcmpUnsigned
