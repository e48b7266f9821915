CONSTANT W = 4
SPECIFICATION Spec
INVARIANT MulsiResult MulCorrect UDivModSiCorrect SDivModSiCorrect DivDiCorrect ShiftsCorrect
