----------------------------- MODULE MCLibArith -----------------------------
(***************************************************************************)
(* Checks the libc arithmetic routines against the arithmetic they stand  *)
(* for, on words of W bits (W = 4 in the cfgs: words 0..15, double words  *)
(* 0..255).  The caller passes every pair of double words <<x, y>> in     *)
(* turn; the word routines take their low words, the shifts the amount    *)
(* y % 2W, which covers every amount the compiler can pass.               *)
(***************************************************************************)
EXTENDS LibArith, Mulsi3Loop

VARIABLES x, y

vars == <<x, y, mvars>>

(* A pair whose high words are zero is a pair of words: on these the      *)
(* caller also runs __mulsi3's loop step by step.                          *)
IsWordPair(p, q) == Hi(p) = 0 /\ Hi(q) = 0

Init == x = 0 /\ y = 0 /\ MulEnter(0, 0)

(* The next pair of arguments, once the loop of the last call returned.   *)
Call ==
    /\ b = 0
    /\ y' = (y + 1) % DWordMod
    /\ x' = IF y = DWordMod - 1 THEN (x + 1) % DWordMod ELSE x
    /\ IF IsWordPair(x', y')
       THEN /\ ma' = x' /\ mb' = y' /\ answer' = 0 /\ a' = x' /\ b' = y'
       ELSE UNCHANGED mvars

Next == Call \/ (MulStep /\ UNCHANGED <<x, y>>)

Spec == Init /\ [][Next]_vars

lx == Lo(x)
ly == Lo(y)
sh == y % (2 * W)

(* The quotient and remainder of C99: the quotient rounds toward zero and *)
(* the remainder has the sign of the dividend.                             *)
Magnitude(v) == IF v < 0 THEN -v ELSE v
TruncDiv(p, q) == IF (p < 0) = (q < 0) THEN Magnitude(p) \div Magnitude(q)
                                       ELSE -(Magnitude(p) \div Magnitude(q))
TruncRem(p, q) == p - TruncDiv(p, q) * q

-----------------------------------------------------------------------------
(* __mulsi3 gives the product modulo the word, __muldsi3 the whole double *)
(* word product, __muldi3 the double word product modulo the double word. *)
MulCorrect ==
    /\ mulsi3(lx, ly) = Pattern(lx * ly, W)
    /\ muldsi3(lx, ly) = lx * ly
    /\ muldi3(x, y) = Pattern(x * y, 2 * W)

(* __udivsi3 and __umodsi3 (through __udivmodsi4) give the unsigned       *)
(* quotient and remainder of every word by every non-zero word.            *)
UDivModSiCorrect ==
    ly # 0 => /\ udivsi3(lx, ly) = lx \div ly
             /\ umodsi3(lx, ly) = lx % ly

(* __divsi3 and __modsi3 give C's signed quotient and remainder, except   *)
(* for the quotient INT_MIN / -1 which overflows.                           *)
SDivModSiCorrect ==
    ly # 0 =>
      /\ ~(lx = 2^(W - 1) /\ Signed(ly, W) = -1) =>
            Signed(divsi3(lx, ly), W) = TruncDiv(Signed(lx, W), Signed(ly, W))
      /\ Signed(modsi3(lx, ly), W) = TruncRem(Signed(lx, W), Signed(ly, W))

(* __udivdi3 and __umoddi3 (through __udivmoddi4), and __divdi3, give the *)
(* quotient and remainder of double words by a non-zero double word.       *)
DivDiCorrect ==
    y # 0 =>
      /\ udivdi3(x, y) = x \div y
      /\ umoddi3(x, y) = x % y
      /\ ~(x = 2^(2 * W - 1) /\ Signed(y, 2 * W) = -1) =>
            Signed(divdi3(x, y), 2 * W) = TruncDiv(Signed(x, 2 * W), Signed(y, 2 * W))

(* __moddi3 gives C's signed remainder: the sign of the dividend.          *)
ModDiCorrect ==
    y # 0 => Signed(moddi3(x, y), 2 * W) = TruncRem(Signed(x, 2 * W), Signed(y, 2 * W))

(* What a double-word shift by s must give.                                *)
ShlRef(u, s) == Pattern(u * 2^s, 2 * W)
ShrRef(u, s) == u \div 2^s
SarRef(u, s) == Pattern(Signed(u, 2 * W) \div 2^s, 2 * W)

(* Every result the build can produce for a shift by less than a word,    *)
(* and for the left and logical right shift by exactly a word, is the     *)
(* shifted double word.                                                    *)
ShiftsCorrect ==
    /\ sh <= W => ashldi3(x, sh) = {ShlRef(x, sh)} /\ lshrdi3(x, sh) = {ShrRef(x, sh)}
    /\ sh < W => ashrdi3(x, sh) = {SarRef(x, sh)}

(* __ashrdi3 by exactly a word moves the high word into the low word.     *)
AshrdiWordShiftCorrect ==
    sh = W => ashrdi3(x, sh) = {SarRef(x, sh)}

(* __ashldi3 and __lshrdi3 by more than a word (and less than two) shift  *)
(* the double word.                                                        *)
WideShiftsCorrect ==
    W < sh => ashldi3(x, sh) = {ShlRef(x, sh)} /\ lshrdi3(x, sh) = {ShrRef(x, sh)}

=============================================================================
