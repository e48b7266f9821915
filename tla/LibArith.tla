------------------------------ MODULE LibArith ------------------------------
(***************************************************************************)
(* The software multiply, divide and double-word shift routines of        *)
(* src/hellfireos/lib/libc/libc.c (lines 627-890), which the compiler     *)
(* calls for *, / and % on 32-bit words and for 64-bit operands.          *)
(*                                                                         *)
(* A word has W bits (32 in the build) and a double word 2W bits; every   *)
(* value is held as its unsigned bit pattern, 0 .. 2^W - 1, and a signed  *)
(* C value is that pattern read in two's complement.  The dwords union    *)
(* splits a double word into its high and low words.  Loops are recursive *)
(* operators that take the loop variables as parameters.                  *)
(*                                                                         *)
(* C leaves a shift by W or more bits undefined; the processor then      *)
(* either masks the amount to its low bits (MIPS, RISC-V) or yields zero; *)
(* the routines that can shift so far therefore return the set of the     *)
(* results the build can produce.                                          *)
(***************************************************************************)
EXTENDS Integers, Bitwise, Words

DWordMod == 2^(2 * W)

(* The pattern of integer v on n bits, and the value a pattern stands for  *)
(* in two's complement.                                                    *)
Pattern(v, n) == v % (2^n)
Signed(x, n) == IF x >= 2^(n - 1) THEN x - 2^n ELSE x

(* Unary minus on n bits; the most negative value is its own negation.    *)
Neg(x, n) == Pattern(-x, n)

(* The dwords union: high and low word of a double word, and back.        *)
Lo(x) == x % WordMod
Hi(x) == x \div WordMod
DW(hi, lo) == hi * WordMod + lo

(* Shifts of a word by an amount s the code computes at run time.         *)
ShlW(x, s) == IF s < W THEN {Pattern(x * 2^s, W)}
                       ELSE {Pattern(x * 2^(s % W), W), 0}
ShrW(x, s) == IF s < W THEN {x \div 2^s}
                       ELSE {x \div 2^(s % W), 0}
(* Arithmetic shift of a signed word: copies of the sign bit come in.     *)
SarW(x, s) == IF s < W THEN {Pattern(Signed(x, W) \div 2^s, W)}
                       ELSE {Pattern(Signed(x, W) \div 2^(s % W), W),
                             Pattern(Signed(x, W) \div 2^(W - 1), W)}

-----------------------------------------------------------------------------
(* __mulsi3: shift-and-add; answer, a and b wrap at the word width.       *)
RECURSIVE MulsiLoop(_, _, _)
MulsiLoop(answer, a, b) ==
    IF b = 0 THEN answer
    ELSE MulsiLoop(IF (b & 1) # 0 THEN Pattern(answer + a, W) ELSE answer,
                   Pattern(a * 2, W), b \div 2)

mulsi3(a, b) == MulsiLoop(0, a, b)

(* __muldsi3: the full double-word product of two words, built from the  *)
(* four products of their half words.                                      *)
HalfBits == W \div 2
LowerMask == 2^HalfBits - 1

(* Mutant: the cross product of line 652 is left out.                     *)
muldsi3NoCross(a, b) ==
    LET lo1 == Pattern((a & LowerMask) * (b & LowerMask), W)
        t1  == Pattern((lo1 \div 2^HalfBits) + (a \div 2^HalfBits) * (b & LowerMask), W)
        lo2 == Pattern((lo1 & LowerMask) + (t1 & LowerMask) * 2^HalfBits, W)
        hi1 == t1 \div 2^HalfBits
        hi2 == Pattern(hi1 + (a \div 2^HalfBits) * (b \div 2^HalfBits), W)
    IN  DW(hi2, lo2)

muldsi3(a, b) ==
    LET lo1 == Pattern((a & LowerMask) * (b & LowerMask), W)
        t1  == Pattern((lo1 \div 2^HalfBits) + (a \div 2^HalfBits) * (b & LowerMask), W)
        lo2 == Pattern((lo1 & LowerMask) + Pattern((t1 & LowerMask) * 2^HalfBits, W), W)
        hi1 == t1 \div 2^HalfBits
        t2  == Pattern((lo2 \div 2^HalfBits) + (b \div 2^HalfBits) * (a & LowerMask), W)
        lo3 == Pattern((lo2 & LowerMask) + Pattern((t2 & LowerMask) * 2^HalfBits, W), W)
        hi2 == Pattern(hi1 + t2 \div 2^HalfBits, W)
        hi3 == Pattern(hi2 + (a \div 2^HalfBits) * (b \div 2^HalfBits), W)
    IN  DW(hi3, lo3)

(* __muldi3: product of the low words, plus the two cross products in the *)
(* high word (the high-by-high product falls off the end).                 *)
muldi3(x, y) ==
    LET r == muldsi3(Lo(x), Lo(y))
    IN  DW(Pattern(Hi(r) + mulsi3(Hi(x), Lo(y)) + mulsi3(Lo(x), Hi(y)), W), Lo(r))

-----------------------------------------------------------------------------
(* __udivmodsi4: the first loop shifts den up (and the quotient bit with  *)
(* it) while it is below num and its top bit is clear; the second loop    *)
(* subtracts den back down.                                                *)
RECURSIVE ScaleNoTopBit(_, _, _)
(* Mutant: the top-bit test of line 677 is dropped, den may overflow.     *)
ScaleNoTopBit(num, den, bit) ==
    IF den < num /\ bit # 0
    THEN ScaleNoTopBit(num, Pattern(den * 2, W), Pattern(bit * 2, W))
    ELSE <<den, bit>>

RECURSIVE Scale(_, _, _)
Scale(num, den, bit) ==
    IF den < num /\ bit # 0 /\ (den & 2^(W - 1)) = 0
    THEN Scale(num, Pattern(den * 2, W), Pattern(bit * 2, W))
    ELSE <<den, bit>>

RECURSIVE Reduce(_, _, _, _)
Reduce(num, den, bit, res) ==
    IF bit = 0 THEN <<num, res>>
    ELSE IF num >= den
         THEN Reduce(num - den, den \div 2, bit \div 2, res | bit)
         ELSE Reduce(num, den \div 2, bit \div 2, res)

udivmodsi4(num, den, modwanted) ==
    LET s == Scale(num, den, 1)
        r == Reduce(num, s[1], s[2], 0)
    IN  IF modwanted # 0 THEN r[1] ELSE r[2]

udivsi3(a, b) == udivmodsi4(a, b, 0)
umodsi3(a, b) == udivmodsi4(a, b, 1)

(* A negative operand is negated (INT_MIN stays INT_MIN, read unsigned).  *)
IsNeg(x, n) == Signed(x, n) < 0
Abs(x, n) == IF IsNeg(x, n) THEN Neg(x, n) ELSE x

(* __divsi3: the quotient is negated when exactly one operand is negative. *)
divsi3(a, b) ==
    LET res == udivmodsi4(Abs(a, W), Abs(b, W), 0)
    IN  IF IsNeg(a, W) # IsNeg(b, W) THEN Neg(res, W) ELSE res

(* Mutant: the sign of the remainder also follows the divisor.            *)
modsi3Xor(a, b) ==
    LET res == udivmodsi4(Abs(a, W), Abs(b, W), 1)
    IN  IF IsNeg(a, W) # IsNeg(b, W) THEN Neg(res, W) ELSE res

(* __modsi3: the remainder takes the sign of the dividend only.           *)
modsi3(a, b) ==
    LET res == udivmodsi4(Abs(a, W), Abs(b, W), 1)
    IN  IF IsNeg(a, W) THEN Neg(res, W) ELSE res

-----------------------------------------------------------------------------
(* The double-word shifts.  bm = 32 - b is computed in a uint32_t, so the *)
(* test bm <= 0 holds for b = W only: for b above W, bm wraps to a large  *)
(* value and the code takes the branch meant for b below W.               *)
ShiftBm(b) == Pattern(W - b, W)

(* Mutant: the carries from the low word into the high word are lost.     *)
ashldi3NoCarry(u, b) ==
    IF b = 0 THEN {u}
    ELSE IF ShiftBm(b) <= 0
         THEN {DW(h, 0) : h \in ShlW(Lo(u), Neg(ShiftBm(b), W))}
         ELSE {DW(h, l) : h \in ShlW(Hi(u), b), l \in ShlW(Lo(u), b)}

(* __ashldi3 *)
ashldi3(u, b) ==
    IF b = 0 THEN {u}
    ELSE IF ShiftBm(b) <= 0
         THEN {DW(h, 0) : h \in ShlW(Lo(u), Neg(ShiftBm(b), W))}
         ELSE {DW(h | c, l) : h \in ShlW(Hi(u), b), c \in ShrW(Lo(u), ShiftBm(b)),
                              l \in ShlW(Lo(u), b)}

(* __ashrdi3: for bm = 0 the low word is taken from uu.s.low (line 780).  *)
ashrdi3(u, b) ==
    IF b = 0 THEN {u}
    ELSE IF ShiftBm(b) <= 0
         THEN {DW(h, l) : h \in SarW(Hi(u), W - 1),
                          l \in ShrW(Lo(u), Neg(ShiftBm(b), W))}
         ELSE {DW(h, l | c) : h \in SarW(Hi(u), b), l \in ShrW(Lo(u), b),
                              c \in ShlW(Hi(u), ShiftBm(b))}

(* __lshrdi3 *)
lshrdi3(u, b) ==
    IF b = 0 THEN {u}
    ELSE IF ShiftBm(b) <= 0
         THEN {DW(0, l) : l \in ShrW(Hi(u), Neg(ShiftBm(b), W))}
         ELSE {DW(h, l | c) : h \in ShrW(Hi(u), b), l \in ShrW(Lo(u), b),
                              c \in ShlW(Hi(u), ShiftBm(b))}

-----------------------------------------------------------------------------
(* __udivmoddi4 for den # 0 (den = 0 divides by zero, line 818): den is   *)
(* shifted up until its sign bit is set, then subtracted back down.       *)
RECURSIVE DiScale(_, _)
DiScale(den, qbit) ==
    IF Signed(den, 2 * W) >= 0
    THEN DiScale(Pattern(den * 2, 2 * W), Pattern(qbit * 2, 2 * W))
    ELSE <<den, qbit>>

RECURSIVE DiReduceStrict(_, _, _, _)
(* Mutant: den <= num of line 827 written den < num.                       *)
DiReduceStrict(num, den, qbit, quot) ==
    IF qbit = 0 THEN <<quot, num>>
    ELSE IF den < num
         THEN DiReduceStrict(num - den, den \div 2, qbit \div 2, Pattern(quot + qbit, 2 * W))
         ELSE DiReduceStrict(num, den \div 2, qbit \div 2, quot)

RECURSIVE DiReduce(_, _, _, _)
DiReduce(num, den, qbit, quot) ==
    IF qbit = 0 THEN <<quot, num>>
    ELSE IF den <= num
         THEN DiReduce(num - den, den \div 2, qbit \div 2, Pattern(quot + qbit, 2 * W))
         ELSE DiReduce(num, den \div 2, qbit \div 2, quot)

(* <<quotient, remainder>>; the remainder is what *rem_p receives.        *)
udivmoddi4(num, den) ==
    LET s == DiScale(den, 1)
    IN  DiReduce(num, s[1], s[2], 0)

umoddi3(num, den) == udivmoddi4(num, den)[2]
udivdi3(num, den) == udivmoddi4(num, den)[1]

(* __moddi3: minus is toggled by a negative den as well (line 862).       *)
moddi3(num, den) ==
    LET minus == IsNeg(num, 2 * W) # IsNeg(den, 2 * W)
        v == umoddi3(Abs(num, 2 * W), Abs(den, 2 * W))
    IN  IF minus THEN Neg(v, 2 * W) ELSE v

(* __divdi3 *)
divdi3(num, den) ==
    LET minus == IsNeg(num, 2 * W) # IsNeg(den, 2 * W)
        v == udivdi3(Abs(num, 2 * W), Abs(den, 2 * W))
    IN  IF minus THEN Neg(v, 2 * W) ELSE v

=============================================================================
