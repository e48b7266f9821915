----------------------------- MODULE Mulsi3Loop -----------------------------
(***************************************************************************)
(* __mulsi3 of src/hellfireos/lib/libc/libc.c (lines 627-637), one        *)
(* iteration of its while loop per step.  a, b and answer are the C       *)
(* variables, all uint32_t (W bits); ma and mb remember the arguments the *)
(* caller passed, so that the result can be stated when the loop exits.   *)
(* b & 1 is the low bit b % 2, a <<= 1 wraps at the word and b >>= 1 is   *)
(* the floor half.                                                          *)
(***************************************************************************)
EXTENDS Integers, Words, TLAPS

VARIABLES ma, mb, answer, a, b

mvars == <<ma, mb, answer, a, b>>

(* The call __mulsi3(p, q): answer = 0 (line 628).                        *)
MulEnter(p, q) == ma = p /\ mb = q /\ answer = 0 /\ a = p /\ b = q

MulInit == \E p, q \in Word : MulEnter(p, q)

(* Mutant: a is shifted before it is added.                                *)
MulStepShiftFirst ==
    /\ b # 0
    /\ answer' = IF b % 2 = 1 THEN (answer + ((a * 2) % WordMod)) % WordMod
                              ELSE answer
    /\ a' = (a * 2) % WordMod
    /\ b' = b \div 2
    /\ UNCHANGED <<ma, mb>>

(* Lines 630-635: while b is not zero, add a if the low bit of b is set,  *)
(* then double a and halve b.                                              *)
MulStep ==
    /\ b # 0
    /\ answer' = IF b % 2 = 1 THEN (answer + a) % WordMod ELSE answer
    /\ a' = (a * 2) % WordMod
    /\ b' = b \div 2
    /\ UNCHANGED <<ma, mb>>

MulSpec == MulInit /\ [][MulStep]_mvars

MulTypeOK == /\ ma \in Word /\ mb \in Word
             /\ answer \in Word /\ a \in Word /\ b \in Word

(* When the loop of __mulsi3 exits (b = 0, line 636), answer is the       *)
(* product of the two arguments modulo the word: the shift-and-add never  *)
(* loses a partial product, even though a and answer wrap on the way.     *)
MulsiResult == b = 0 => answer = (ma * mb) % WordMod

(* The loop invariant: what is still to add, a * b, and the answer so far *)
(* make up the product, up to a multiple of the word.                     *)
MulInv == MulTypeOK /\ (answer + a * b - ma * mb) % WordMod = 0

-----------------------------------------------------------------------------
(* Facts about integer division by a positive divisor.                    *)
LEMMA DivRange ==
    ASSUME NEW m \in Nat \ {0}, NEW u \in Int
    PROVE  u % m \in 0 .. m - 1
  OBVIOUS

LEMMA DivDef ==
    ASSUME NEW m \in Nat \ {0}, NEW u \in Int
    PROVE  u % m = u - m * (u \div m) /\ u \div m \in Int
  OBVIOUS

LEMMA ModZero ==
    ASSUME NEW m \in Nat \ {0}, NEW u \in Int, u % m = 0
    PROVE  \E k \in Int : u = k * m
<1>1. u % m = u - m * (u \div m) /\ u \div m \in Int
  BY DivDef
<1>2. u = (u \div m) * m
  BY <1>1
<1>3. QED
  BY <1>1, <1>2

LEMMA ModUnique ==
    ASSUME NEW m \in Nat \ {0}, NEW u \in Int, NEW q \in Int, NEW r \in 0 .. m - 1,
           u = q * m + r
    PROVE  u % m = r
  OBVIOUS

(* The wrap of an addition or a doubling subtracts a multiple of the word. *)
LEMMA Wrap ==
    ASSUME NEW u \in Int
    PROVE  /\ u % WordMod = u - (u \div WordMod) * WordMod
           /\ u \div WordMod \in Int
           /\ u % WordMod \in Word
<1>1. u % WordMod = u - WordMod * (u \div WordMod) /\ u \div WordMod \in Int
  BY WordModPositive, DivDef
<1>2. u % WordMod \in Word
  BY WordModPositive, DivRange DEF Word
<1>3. QED
  BY <1>1, <1>2, WordModPositive

(* The algebra of one iteration: dropping the low bit r of b = 2h + r,    *)
(* adding r * a and doubling a keep answer + a * b fixed up to multiples  *)
(* of the word.                                                            *)
LEMMA MulRing ==
    ASSUME NEW m \in Int, NEW s \in Int, NEW x \in Int, NEW y \in Int, NEW p \in Int,
           NEW h \in Int, NEW r \in Int, NEW k \in Int, NEW qa \in Int, NEW qs \in Int,
           y = 2 * h + r, s + x * y - p = k * m
    PROVE  (s + r * x - qs * m) + (x * 2 - qa * m) * h - p = (k - qs - qa * h) * m + 0
  OBVIOUS

-----------------------------------------------------------------------------
(* The call enters the loop in the invariant: nothing added yet, a * b is *)
(* the whole product.                                                      *)
LEMMA MulInvInit == MulInit => MulInv
<1> SUFFICES ASSUME NEW p \in Word, NEW q \in Word, MulEnter(p, q) PROVE MulInv
  BY DEF MulInit
<1>1. MulTypeOK
  BY WordModPositive DEF MulEnter, MulTypeOK, Word
<1>2. answer + a * b - ma * mb = 0 * WordMod + 0
  BY WordModPositive DEF MulEnter, Word
<1>3. answer + a * b - ma * mb \in Int
  BY <1>1, WordModPositive DEF MulTypeOK, Word
<1>4. QED
  BY <1>1, <1>2, <1>3, WordModPositive, ModUnique DEF MulInv

(* One iteration keeps the invariant: the bit of b it drops is either     *)
(* added to answer or was zero, and the wrap of answer and a only removes *)
(* multiples of the word.                                                  *)
LEMMA MulInvStep == MulInv /\ MulStep => MulInv'
<1> SUFFICES ASSUME MulInv, MulStep PROVE MulInv'
  OBVIOUS
<1> DEFINE h == b \div 2
           r == b % 2
           qa == (a * 2) \div WordMod
           qs == IF r = 1 THEN (answer + a) \div WordMod ELSE 0
<1>1. /\ ma \in Int /\ mb \in Int /\ answer \in Int /\ a \in Int /\ b \in Int
      /\ b \in Word /\ (answer + a * b - ma * mb) % WordMod = 0
  BY WordModPositive DEF MulInv, MulTypeOK, Word
<1>2. PICK k \in Int : answer + a * b - ma * mb = k * WordMod
  <2>1. answer + a * b - ma * mb \in Int
    BY <1>1
  <2>2. QED
    BY <1>1, <2>1, WordModPositive, ModZero
<1>3. b = 2 * h + r /\ r \in 0 .. 1 /\ h \in Int
  BY <1>1, DivDef, DivRange
<1>4. h \in Word
  BY <1>1, <1>3, WordModPositive DEF Word
<1>5. a' = a * 2 - qa * WordMod /\ qa \in Int /\ a' \in Word
  BY <1>1, Wrap DEF MulStep
<1>6. answer' = answer + r * a - qs * WordMod /\ qs \in Int /\ answer' \in Word
  <2>1. CASE r = 1
    <3>1. answer' = (answer + a) % WordMod
      BY <2>1 DEF MulStep
    <3>2. /\ (answer + a) % WordMod = (answer + a) - ((answer + a) \div WordMod) * WordMod
          /\ (answer + a) \div WordMod \in Int
          /\ (answer + a) % WordMod \in Word
      BY <1>1, Wrap
    <3>3. qs = (answer + a) \div WordMod /\ r * a = a
      BY <2>1, <1>1
    <3>4. QED
      BY <1>1, <3>1, <3>2, <3>3, WordModPositive
  <2>2. CASE r = 0
    BY <2>2, <1>1, WordModPositive DEF MulStep, MulInv, MulTypeOK
  <2>3. QED
    BY <1>3, <2>1, <2>2
<1>7. b' = h /\ ma' = ma /\ mb' = mb /\ ma' \in Word /\ mb' \in Word
  BY DEF MulStep, MulInv, MulTypeOK
<1> HIDE DEF h, r, qa, qs
<1>8. (answer + r * a - qs * WordMod) + (a * 2 - qa * WordMod) * h - ma * mb
        = (k - qs - qa * h) * WordMod + 0
  BY <1>1, <1>2, <1>3, <1>5, <1>6, WordModPositive, MulRing
<1>9. answer' + a' * b' - ma' * mb' = (k - qs - qa * h) * WordMod + 0
  BY <1>5, <1>6, <1>7, <1>8
<1>10. /\ k - qs - qa * h \in Int
       /\ answer' + a' * b' - ma' * mb' \in Int
  BY <1>3, <1>4, <1>5, <1>6, <1>7, WordModPositive DEF Word
<1>11. (answer' + a' * b' - ma' * mb') % WordMod = 0
  <2>1. WordMod \in Nat \ {0} /\ 0 \in 0 .. WordMod - 1
    BY WordModPositive
  <2>2. QED
    BY <1>9, <1>10, <2>1, ModUnique, Zenon
<1>12. QED
  BY <1>4, <1>5, <1>6, <1>7, <1>11 DEF MulInv, MulTypeOK

(* On exit the invariant says answer is the product modulo the word.      *)
LEMMA MulInvResult == MulInv => MulsiResult
<1> SUFFICES ASSUME MulInv, b = 0 PROVE answer = (ma * mb) % WordMod
  BY DEF MulsiResult
<1>1. /\ ma \in Int /\ mb \in Int /\ answer \in Int /\ answer \in Word
      /\ (answer + a * b - ma * mb) % WordMod = 0 /\ a \in Int
  BY WordModPositive DEF MulInv, MulTypeOK, Word
<1>2. (answer - ma * mb) % WordMod = 0 /\ answer - ma * mb \in Int
  BY <1>1
<1>3. PICK k \in Int : answer - ma * mb = k * WordMod
  BY <1>2, WordModPositive, ModZero
<1>4. ma * mb = (-k) * WordMod + answer /\ ma * mb \in Int /\ -k \in Int
  BY <1>1, <1>3, WordModPositive
<1>5. WordMod \in Nat \ {0} /\ answer \in 0 .. WordMod - 1
  BY <1>1, WordModPositive DEF Word
<1>6. QED
  BY <1>4, <1>5, ModUnique, Zenon

(* __mulsi3 returns the product of its arguments modulo 2^W, for every    *)
(* even word width W >= 2 and every pair of words (lines 627-637).        *)
THEOREM MulsiCorrect == MulSpec => []MulsiResult
<1>1. MulInv /\ UNCHANGED mvars => MulInv'
  BY DEF MulInv, MulTypeOK, mvars
<1>2. MulSpec => []MulInv
  BY MulInvInit, MulInvStep, <1>1, PTL DEF MulSpec
<1>3. QED
  BY <1>2, MulInvResult, PTL

=============================================================================
