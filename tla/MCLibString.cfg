CONSTANTS
    Alpha <- AlphaHigh
    Size = 5
SPECIFICATION Spec
INVARIANT MemCorrect
INVARIANT StrScanCorrect
INVARIANT StrCopyCorrect
INVARIANT StrtokSplits
