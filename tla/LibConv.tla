------------------------------- MODULE LibConv -------------------------------
(***************************************************************************)
(* The number conversions of src/hellfireos/lib/libc/libc.c: strtol (lines *)
(* 216-245), atoi (247-268) and itoa (295-317).  A C string is a sequence *)
(* of character codes; reading past its end reads the terminating NUL.    *)
(* Positions are C's, counted from 0.  The checked inputs keep every      *)
(* intermediate value far below 2^31, so the uint32_t and int32_t          *)
(* arithmetic of the code never wraps there and is written unbounded.     *)
(***************************************************************************)
EXTENDS Integers, Sequences

NUL == 0
TAB == 9
SPACE == 32
PLUS == 43
MINUS == 45
ZERO == 48
LOWERX == 120

(* The character at C position k of string s.                             *)
Char(s, k) == IF k < Len(s) THEN s[k + 1] ELSE NUL

IsDecimal(ch) == ZERO <= ch /\ ch <= ZERO + 9

(* C's integer division (rounds toward zero).                              *)
Magnitude(v) == IF v < 0 THEN -v ELSE v
CDiv(p, q) == IF (p < 0) = (q < 0) THEN Magnitude(p) \div Magnitude(q)
                                   ELSE -(Magnitude(p) \div Magnitude(q))

-----------------------------------------------------------------------------
(* strtol's digit value of a character (lines 230-235): digits, then any  *)
(* letter of either case from 10 on; -1 stands for the break of line 237. *)
StrtolCharValue(ch) ==
    IF IsDecimal(ch) THEN ch - ZERO
    ELSE IF 65 <= ch /\ ch <= 90 THEN ch - 65 + 10
    ELSE IF 97 <= ch /\ ch <= 122 THEN ch - 97 + 10
    ELSE -1

(* The loop of lines 228-239: at most nine characters (i = 0..8); ch is   *)
(* read and s advanced before the test.  Result: <<value, s>>.             *)
RECURSIVE StrtolLoopNoAdvance(_, _, _, _, _)
(* Mutant: s is not advanced past the character that ends the number.     *)
StrtolLoopNoAdvance(s, base, k, i, value) ==
    IF i > 8 THEN <<value, k>>
    ELSE IF StrtolCharValue(Char(s, k)) < 0 THEN <<value, k>>
    ELSE StrtolLoopNoAdvance(s, base, k + 1, i + 1,
                             value * base + StrtolCharValue(Char(s, k)))

RECURSIVE StrtolLoop(_, _, _, _, _)
StrtolLoop(s, base, k, i, value) ==
    IF i > 8 THEN <<value, k>>
    ELSE IF StrtolCharValue(Char(s, k)) < 0 THEN <<value, k + 1>>
    ELSE StrtolLoop(s, base, k + 1, i + 1,
                    value * base + StrtolCharValue(Char(s, k)))

(* strtol(s, &end, base): <<returned value, position *end points to>>.    *)
strtol(s, base) ==
    LET neg  == Char(s, 0) = MINUS
        k0   == IF neg THEN 1 ELSE 0
        hex  == Char(s, k0) = ZERO /\ Char(s, k0 + 1) = LOWERX
        r    == StrtolLoop(s, IF hex THEN 16 ELSE base,
                           IF hex THEN k0 + 2 ELSE k0, 0, 0)
    IN  <<IF neg THEN -r[1] ELSE r[1], r[2] - 1>>

-----------------------------------------------------------------------------
(* atoi: blanks and tabs are skipped; a '-' counts in f and falls through *)
(* to the '+' case, which steps over the sign.  Result: <<position, f>>.   *)
RECURSIVE AtoiSkipNoStep(_, _, _)
(* Mutant: the '-' case breaks without falling through to the step.      *)
AtoiSkipNoStep(s, k, f) ==
    IF Char(s, k) \in {SPACE, TAB} THEN AtoiSkipNoStep(s, k + 1, f)
    ELSE IF Char(s, k) = MINUS THEN <<k, f + 1>>
    ELSE IF Char(s, k) = PLUS THEN <<k + 1, f>>
    ELSE <<k, f>>

RECURSIVE AtoiSkip(_, _, _)
AtoiSkip(s, k, f) ==
    IF Char(s, k) \in {SPACE, TAB} THEN AtoiSkip(s, k + 1, f)
    ELSE IF Char(s, k) = MINUS THEN <<k + 1, f + 1>>
    ELSE IF Char(s, k) = PLUS THEN <<k + 1, f>>
    ELSE <<k, f>>

RECURSIVE AtoiDigits(_, _, _)
AtoiDigits(s, k, n) ==
    IF IsDecimal(Char(s, k)) THEN AtoiDigits(s, k + 1, n * 10 + Char(s, k) - ZERO)
                             ELSE n

atoi(s) ==
    LET p == AtoiSkip(s, 0, 0)
        n == AtoiDigits(s, p[1], 0)
    IN  IF p[2] # 0 THEN -n ELSE n

-----------------------------------------------------------------------------
(* The digit character of value d (0..35), and itoa's table               *)
(* "zyx...10123...xyz" read at 35 + r: it mirrors around its middle '0', *)
(* so a negative remainder r gives the digit of -r.                        *)
DigitChar(d) == IF d < 10 THEN ZERO + d ELSE 97 + d - 10
ItoaTable(r) == DigitChar(Magnitude(r))

(* The do-while of lines 303-307: digits from the least significant on.   *)
(* Result: <<characters written, tmp_value of the last round>>.            *)
RECURSIVE ItoaDigits(_, _, _)
ItoaDigits(i, base, out) ==
    LET q == CDiv(i, base)
        written == Append(out, ItoaTable(i - q * base))
    IN  IF q # 0 THEN ItoaDigits(q, base, written) ELSE <<written, i>>

(* Lines 311-315: the characters between ptr1 and ptr are swapped pairwise. *)
RECURSIVE ItoaSwap(_, _, _)
ItoaSwap(buf, p1, p) ==
    IF p1 < p THEN ItoaSwap([buf EXCEPT ![p1 + 1] = buf[p + 1], ![p + 1] = buf[p1 + 1]],
                            p1 + 1, p - 1)
              ELSE buf

(* Mutant: the swap loop starts one character late.                      *)
itoaShortSwap(i, base) ==
    IF base < 2 \/ base > 36 THEN <<>>
    ELSE LET r == ItoaDigits(i, base, <<>>)
             out == IF r[2] < 0 THEN Append(r[1], MINUS) ELSE r[1]
         IN  ItoaSwap(out, 1, Len(out) - 1)

(* itoa(i, s, base): the string written to s, without its NUL.             *)
itoa(i, base) ==
    IF base < 2 \/ base > 36 THEN <<>>
    ELSE LET r == ItoaDigits(i, base, <<>>)
             out == IF r[2] < 0 THEN Append(r[1], MINUS) ELSE r[1]
         IN  ItoaSwap(out, 0, Len(out) - 1)

=============================================================================
