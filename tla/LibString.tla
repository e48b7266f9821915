------------------------------ MODULE LibString ------------------------------
(***************************************************************************)
(* The string and memory routines of src/hellfireos/lib/libc/libc.c,     *)
(* lines 5-214.  Memory is a sequence m of bytes (bit patterns 0..255)    *)
(* and a pointer is a C position in it, counted from 0; NULL is -1.  A    *)
(* routine that writes returns the memory after the call.  Every loop is  *)
(* a recursive operator over the loop's pointers, and reads the memory as *)
(* the earlier iterations left it, so overlapping copies behave as the    *)
(* code makes them behave.                                                 *)
(***************************************************************************)
EXTENDS Integers, Sequences

Null == -1

Byte(m, p) == m[p + 1]
Store(m, p, v) == [m EXCEPT ![p + 1] = v]

(* An int8_t read of a byte.                                               *)
SChar(v) == IF v >= 128 THEN v - 256 ELSE v

(* The position of the NUL that ends the string at p.                     *)
RECURSIVE StrEnd(_, _)
StrEnd(m, p) == IF Byte(m, p) = 0 THEN p ELSE StrEnd(m, p + 1)

-----------------------------------------------------------------------------
(* strcpy (5-13) and the copy loop of strcat (35-37): do-while up to and  *)
(* including the NUL.                                                      *)
RECURSIVE CopyStr(_, _, _)
CopyStr(m, d, s) ==
    LET c == Byte(m, s) IN
    IF c = 0 THEN Store(m, d, c) ELSE CopyStr(Store(m, d, c), d + 1, s + 1)

strcpy(m, d, s) == CopyStr(m, d, s)

(* strncpy (15-27): after the NUL, the rest of the n bytes are zeroed.     *)
RECURSIVE Pad(_, _, _, _)
Pad(m, d, i, n) == IF i < n THEN Pad(Store(m, d, 0), d + 1, i + 1, n) ELSE m

RECURSIVE NCopy(_, _, _, _, _)
NCopy(m, d, s, i, n) ==
    IF i >= n THEN m
    ELSE LET c == Byte(m, s) IN
         IF c = 0 THEN Pad(Store(m, d, c), d + 1, i + 1, n)
                  ELSE NCopy(Store(m, d, c), d + 1, s + 1, i + 1, n)

strncpy(m, d, s, n) == NCopy(m, d, s, 0, n)

(* strcat (29-40)                                                           *)
strcat(m, d, s) == CopyStr(m, StrEnd(m, d), s)

(* strncat (42-54): each byte is copied before --n < 0 is tested; when it *)
(* holds, the byte just copied is overwritten with the NUL.                *)
RECURSIVE NCat(_, _, _, _)
(* Mutant: the test reads --n <= 0, one byte short.                        *)
NCatShort(m, d, s, n) ==
    LET c == Byte(m, s) IN
    IF c = 0 THEN Store(m, d, c)
    ELSE IF n - 1 <= 0 THEN Store(m, d, 0)
    ELSE NCat(Store(m, d, c), d + 1, s + 1, n - 1)

NCat(m, d, s, n) ==
    LET c == Byte(m, s) IN
    IF c = 0 THEN Store(m, d, c)
    ELSE IF n - 1 < 0 THEN Store(m, d, 0)
    ELSE NCat(Store(m, d, c), d + 1, s + 1, n - 1)

strncat(m, d, s, n) == NCat(m, StrEnd(m, d), s, n)

-----------------------------------------------------------------------------
(* strcmp (56-62) and strncmp (64-70) compare int8_t characters.          *)
RECURSIVE strcmpAt(_, _, _)
strcmpAt(m, a, b) ==
    IF Byte(m, a) = Byte(m, b)
    THEN IF Byte(m, a) = 0 THEN 0 ELSE strcmpAt(m, a + 1, b + 1)
    ELSE SChar(Byte(m, a)) - SChar(Byte(m, b))

strcmp(m, a, b) == strcmpAt(m, a, b)

RECURSIVE strncmp(_, _, _, _)
(* Mutant: the count test reads --n > 0, one character short.             *)
strncmpShort(m, a, b, n) ==
    IF n - 1 <= 0 THEN 0
    ELSE IF Byte(m, a) = Byte(m, b)
         THEN IF Byte(m, a) = 0 THEN 0 ELSE strncmp(m, a + 1, b + 1, n - 1)
         ELSE SChar(Byte(m, a)) - SChar(Byte(m, b))

strncmp(m, a, b, n) ==
    IF n - 1 < 0 THEN 0
    ELSE IF Byte(m, a) = Byte(m, b)
         THEN IF Byte(m, a) = 0 THEN 0 ELSE strncmp(m, a + 1, b + 1, n - 1)
         ELSE SChar(Byte(m, a)) - SChar(Byte(m, b))

(* strstr (72-82): i counts the matching bytes of find at string.          *)
RECURSIVE MatchLen(_, _, _, _)
MatchLen(m, a, b, i) ==
    IF Byte(m, a + i) = Byte(m, b + i) /\ Byte(m, b + i) # 0
    THEN MatchLen(m, a, b, i + 1) ELSE i

RECURSIVE strstr(_, _, _)
strstr(m, a, b) ==
    IF Byte(m, b + MatchLen(m, a, b, 0)) = 0 THEN a
    ELSE IF Byte(m, a) = 0 THEN Null
    ELSE strstr(m, a + 1, b)

(* strlen (84-92)                                                          *)
strlen(m, p) == StrEnd(m, p) - p

(* strchr (94-100): c is compared as an int8_t, i.e. its low byte.        *)
RECURSIVE strchr(_, _, _)
strchr(m, p, c) ==
    IF Byte(m, p) = c % 256 THEN p
    ELSE IF Byte(m, p) = 0 THEN Null
    ELSE strchr(m, p + 1, c)

(* strpbrk (102-114): the first byte of str that occurs in set.            *)
RECURSIVE InSet(_, _, _)
InSet(m, c, p) == Byte(m, p) # 0 /\ (c = Byte(m, p) \/ InSet(m, c, p + 1))

RECURSIVE strpbrk(_, _, _)
strpbrk(m, s, set) ==
    IF Byte(m, s) = 0 THEN Null
    ELSE IF InSet(m, Byte(m, s), set) THEN s
    ELSE strpbrk(m, s + 1, set)

(* strsep (116-127): <<returned pointer, new *pp, memory>>.                *)
strsep(m, pp, delim) ==
    IF pp = Null THEN <<Null, pp, m>>
    ELSE LET q == strpbrk(m, pp, delim) IN
         IF q # Null THEN <<pp, q + 1, Store(m, q, 0)>>
                     ELSE <<pp, Null, m>>

-----------------------------------------------------------------------------
(* memcpy (167-175): a forward byte copy.                                  *)
RECURSIVE Forward(_, _, _, _)
Forward(m, d, s, n) ==
    IF n = 0 THEN m ELSE Forward(Store(m, d, Byte(m, s)), d + 1, s + 1, n - 1)

memcpy(m, d, s, n) == Forward(m, d, s, n)

(* memmove (177-192): forward when src is at or above dst, else backward  *)
(* from the end.                                                           *)
RECURSIVE Backward(_, _, _, _)
Backward(m, d, s, n) ==
    IF n = 0 THEN m
    ELSE Backward(Store(m, d - 1, Byte(m, s - 1)), d - 1, s - 1, n - 1)

(* Mutant: the direction test is dropped and memmove always copies        *)
(* forward, as memcpy does.                                                *)
memmoveForward(m, d, s, n) == Forward(m, d, s, n)

memmove(m, d, s, n) ==
    IF s >= d THEN Forward(m, d, s, n) ELSE Backward(m, d + n, s + n, n)

(* memcmp (194-205) compares uint8_t bytes and returns -1, 0 or 1.         *)
RECURSIVE memcmp(_, _, _, _)
memcmp(m, a, b, n) ==
    IF n # 0 /\ Byte(m, a) = Byte(m, b) THEN memcmp(m, a + 1, b + 1, n - 1)
    ELSE IF n = 0 THEN 0
    ELSE IF Byte(m, a) < Byte(m, b) THEN -1 ELSE 1

(* memset (207-214): the low byte of c, n times.                           *)
RECURSIVE memset(_, _, _, _)
memset(m, p, c, n) ==
    IF n = 0 THEN m ELSE memset(Store(m, p, c % 256), p + 1, c, n - 1)


-----------------------------------------------------------------------------
(* strtok (129-165) keeps its place in the static last (NULL at start).  *)
(* One call: <<returned pointer, memory, new last>>.  Leading delimiters  *)
(* are skipped (the goto cont loop); the token ends at the next           *)
(* delimiter, which is overwritten with NUL, or at the string's NUL, which *)
(* ends the tokenizing (s = NULL).                                          *)
(* Mutant: the goto cont is lost, leading delimiters are not skipped.     *)
SkipDelimsNone(m, s, d) == s

RECURSIVE SkipDelims(_, _, _)
SkipDelims(m, s, d) ==
    IF Byte(m, s) # 0 /\ InSet(m, Byte(m, s), d) THEN SkipDelims(m, s + 1, d)
                                                 ELSE s

RECURSIVE TokEnd(_, _, _)
TokEnd(m, s, d) ==
    IF Byte(m, s) = 0 \/ InSet(m, Byte(m, s), d) THEN s ELSE TokEnd(m, s + 1, d)

strtok(m, s, d, last) ==
    LET start == IF s = Null THEN last ELSE s
        b == SkipDelims(m, start, d)
        e == TokEnd(m, b + 1, d)
    IN  IF start = Null THEN <<Null, m, last>>
        ELSE IF Byte(m, b) = 0 THEN <<Null, m, Null>>
        ELSE IF Byte(m, e) = 0 THEN <<b, m, Null>>
        ELSE <<b, Store(m, e, 0), e + 1>>

====
