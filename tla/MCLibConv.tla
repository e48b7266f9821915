------------------------------ MODULE MCLibConv ------------------------------
(***************************************************************************)
(* Checks atoi and strtol against C's definition of the value a numeral   *)
(* stands for, itoa against the numeral C's printf would write, and       *)
(* strtol as itoa's inverse.  Call number n hands the parsers the n-th     *)
(* buffer of BufLen characters drawn from Alpha (a NUL in the alphabet    *)
(* makes the shorter strings) and the formatter the n-th pair of a value  *)
(* in -MaxValue..MaxValue and a base of Bases; the counter runs until     *)
(* both have seen every input.  MaxValue is above 2^9 so that base 2      *)
(* needs more than nine digits.                                            *)
(***************************************************************************)
EXTENDS LibConv

CONSTANTS
    Alpha,      \* a sequence of distinct character codes
    BufLen,
    MaxValue,
    Bases       \* a sequence of bases, valid or not

VARIABLE n

ParseCalls == Len(Alpha)^BufLen
Values == 2 * MaxValue + 1
FormatCalls == Values * Len(Bases)
Calls == IF ParseCalls > FormatCalls THEN ParseCalls ELSE FormatCalls

Init == n = 0

(* The next call.                                                          *)
Call == n' = (n + 1) % Calls

Spec == Init /\ [][Call]_n

buf == [j \in 1 .. BufLen |-> Alpha[((n \div Len(Alpha)^(j - 1)) % Len(Alpha)) + 1]]

(* C's reading of a numeral in base 10: blanks, an optional sign, then    *)
(* the longest run of decimal digits, which ends at position DigitsEnd.   *)
Blank == {SPACE, TAB}
BlankEnd(s) == CHOOSE w \in 0 .. Len(s) :
                  (\A j \in 0 .. w - 1 : Char(s, j) \in Blank) /\ Char(s, w) \notin Blank
DigitsStart(s) == BlankEnd(s) + (IF Char(s, BlankEnd(s)) \in {PLUS, MINUS} THEN 1 ELSE 0)
DigitsEnd(s) == CHOOSE e \in DigitsStart(s) .. Len(s) :
                  (\A j \in DigitsStart(s) .. e - 1 : IsDecimal(Char(s, j)))
                  /\ ~IsDecimal(Char(s, e))
DigitsValue(s) ==
    LET v[e \in DigitsStart(s) .. DigitsEnd(s)] ==
            IF e = DigitsStart(s) THEN 0 ELSE v[e - 1] * 10 + Char(s, e - 1) - ZERO
    IN  v[DigitsEnd(s)]
CValue(s) == IF Char(s, BlankEnd(s)) = MINUS THEN -DigitsValue(s) ELSE DigitsValue(s)

(* The string the code sees: the buffer up to its first NUL.              *)
Str == LET e == CHOOSE e \in 0 .. BufLen : (\A j \in 0 .. e - 1 : Char(buf, j) # NUL)
                                            /\ Char(buf, e) = NUL
       IN  SubSeq(buf, 1, e)

-----------------------------------------------------------------------------
(* atoi returns C's value of every numeral: blanks and tabs, a sign, and  *)
(* the decimal digits up to the first other character.                    *)
AtoiCorrect == atoi(buf) = CValue(Str)

(* strtol in base 10 returns C's value of a signed decimal numeral and,   *)
(* when it read digits, sets *end just past the last of them.              *)
StrtolDecimalCorrect ==
    (\A j \in 1 .. Len(Str) : Str[j] = MINUS \/ IsDecimal(Str[j])) =>
        /\ strtol(buf, 10)[1] = CValue(Str)
        /\ DigitsEnd(Str) > DigitsStart(Str) => strtol(buf, 10)[2] = DigitsEnd(Str)

(* strtol in base 10 returns C's value of every string without blanks or *)
(* a '+': a character that is no decimal digit ends the numeral.         *)
StrtolCorrect ==
    (\A j \in 1 .. Len(Str) : Str[j] \notin Blank \cup {PLUS}) =>
        strtol(buf, 10)[1] = CValue(Str)

(* Alphabets: the numerals of atoi; signed decimal digits with blanks and *)
(* '+'; and digits with the letters 'a' and 'x'.                          *)
AtoiAlpha == <<NUL, SPACE, TAB, PLUS, MINUS, ZERO, ZERO + 1, ZERO + 9>>
LetterAlpha == <<NUL, MINUS, ZERO, ZERO + 1, 97, LOWERX>>

-----------------------------------------------------------------------------
ival == ((n % FormatCalls) % Values) - MaxValue
ibase == Bases[((n % FormatCalls) \div Values) + 1]

(* The digits of m >= 0 in base b, most significant first.                 *)
DigitCount(m, b) == CHOOSE k \in 1 .. 32 : m < b^k /\ (k = 1 \/ b^(k - 1) <= m)
Numeral(m, b) == [j \in 1 .. DigitCount(m, b) |->
                     DigitChar((m \div b^(DigitCount(m, b) - j)) % b)]

-----------------------------------------------------------------------------
(* itoa writes '-' before the digits of a negative value and the digits,  *)
(* most significant first, in every base from 2 to 36; for another base   *)
(* it writes the empty string.                                             *)
ItoaCorrect ==
    itoa(ival, ibase) =
        IF ibase < 2 \/ ibase > 36 THEN <<>>
        ELSE IF ival < 0 THEN <<MINUS>> \o Numeral(-ival, ibase)
        ELSE Numeral(ival, ibase)

(* strtol reads back the value itoa wrote, in every base from 2 to 36.    *)
StrtolItoaRoundTrip ==
    ibase \in 2 .. 36 => strtol(itoa(ival, ibase), ibase)[1] = ival

(* Bases below 2 and above 36, small ones, and those printf uses.         *)
CheckedBases == <<0, 1, 2, 3, 8, 10, 16, 36, 37>>

====
