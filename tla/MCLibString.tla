----------------------------- MODULE MCLibString -----------------------------
(***************************************************************************)
(* Checks the string and memory routines of libc against what the C      *)
(* standard says they compute.  The caller passes, in turn, every memory  *)
(* of Size bytes whose last byte is NUL and whose others are drawn from   *)
(* Alpha, with every pair of pointers p, q into it and every count k in   *)
(* 0 .. Size - 1.  A routine is checked only on the calls the standard    *)
(* defines: objects inside the memory, and no overlap where the standard  *)
(* forbids it (memmove is the one routine that must handle overlap).      *)
(* Each call also hands strtok a text of TextLen characters over TokAlpha *)
(* to tokenize, as a caller does: strtok(text, delim), then               *)
(* strtok(NULL, delim) until NULL, with strtok's static last carried from *)
(* call to call.                                                          *)
(***************************************************************************)
EXTENDS LibString

CONSTANTS Alpha, Size

VARIABLE n

Letters == Size - 1
Calls == Len(Alpha)^Letters * Size * Size * Size

Init == n = 0
Call == n' = (n + 1) % Calls
Spec == Init /\ [][Call]_n

mem == [i \in 1 .. Size |->
           IF i = Size THEN 0
           ELSE Alpha[((n \div Len(Alpha)^(i - 1)) % Len(Alpha)) + 1]]
rest == n \div Len(Alpha)^Letters
p == rest % Size
q == (rest \div Size) % Size
k == (rest \div (Size * Size)) % Size

-----------------------------------------------------------------------------
(* C's view of the memory.                                                 *)
Sign(x) == IF x > 0 THEN 1 ELSE IF x < 0 THEN -1 ELSE 0
MinOf(a, b) == IF a < b THEN a ELSE b

(* The NUL that ends the string at a, and the string's bytes before it.   *)
RefEnd(a) == CHOOSE e \in a .. Size - 1 :
                 mem[e + 1] = 0 /\ \A j \in a .. e - 1 : mem[j + 1] # 0
RefStr(a) == SubSeq(mem, a + 1, RefEnd(a))
Terminated(a) == RefStr(a) \o <<0>>

(* Order of two byte sequences as unsigned chars, up to the first        *)
(* difference; both are assumed to differ within their common length when *)
(* they differ at all.                                                     *)
Order(s, t) ==
    IF s = t THEN 0
    ELSE LET i == CHOOSE i \in 1 .. MinOf(Len(s), Len(t)) :
                     s[i] # t[i] /\ \A j \in 1 .. i - 1 : s[j] = t[j]
         IN  IF s[i] < t[i] THEN -1 ELSE 1

Prefix(s, c) == SubSeq(s, 1, MinOf(c, Len(s)))
IsAscii(a) == \A j \in 1 .. Len(RefStr(a)) : RefStr(a)[j] < 128

(* The memory with bytes written from position d on.                      *)
Write(d, bytes) == [i \in 1 .. Size |->
                       IF d < i /\ i <= d + Len(bytes) THEN bytes[i - d]
                                                       ELSE mem[i]]
Disjoint(a1, a2, b1, b2) == a2 <= b1 \/ b2 <= a1

(* The first of a set of positions, or NULL.                               *)
FirstOr(S) == IF S = {} THEN Null ELSE CHOOSE i \in S : \A j \in S : i <= j

-----------------------------------------------------------------------------
(* memmove copies k bytes from q to p as if through a buffer, whatever    *)
(* the overlap; memcpy does so for disjoint regions; memset writes the    *)
(* low byte of c; memcmp orders k bytes as unsigned chars.                 *)
Moved == Write(p, SubSeq(mem, q + 1, q + k))
FillByte == (Alpha[(q % Len(Alpha)) + 1] + 256 * (k % 2))

MemCorrect ==
    /\ p + k <= Size /\ q + k <= Size =>
          /\ memmove(mem, p, q, k) = Moved
          /\ Disjoint(p, p + k, q, q + k) => memcpy(mem, p, q, k) = Moved
          /\ memcmp(mem, p, q, k) = Order(SubSeq(mem, p + 1, p + k),
                                          SubSeq(mem, q + 1, q + k))
    /\ p + k <= Size =>
          memset(mem, p, FillByte, k) = Write(p, [i \in 1 .. k |-> FillByte % 256])

(* strlen, strchr (c taken as its low byte, the NUL findable), strstr,    *)
(* strpbrk and strsep find what the standard says; strcmp and strncmp    *)
(* order 7-bit strings as the standard orders them.                        *)
StrScanCorrect ==
    LET f == RefStr(q)
        scan == RefEnd(p)
        brk == FirstOr({i \in p .. scan - 1 :
                           \E j \in 1 .. Len(f) : mem[i + 1] = f[j]})
    IN
    /\ strlen(mem, p) = Len(RefStr(p))
    /\ strchr(mem, p, FillByte) =
          FirstOr({i \in p .. scan : mem[i + 1] = FillByte % 256})
    /\ strstr(mem, p, q) =
          FirstOr({i \in p .. scan : i + Len(f) <= scan
                                     /\ SubSeq(mem, i + 1, i + Len(f)) = f})
    /\ strpbrk(mem, p, q) = brk
    /\ strsep(mem, p, q) = IF brk = Null THEN <<p, Null, mem>>
                                         ELSE <<p, brk + 1, Write(brk, <<0>>)>>
    /\ IsAscii(p) /\ IsAscii(q) =>
          /\ Sign(strcmp(mem, p, q)) = Order(Terminated(p), Terminated(q))
          /\ Sign(strncmp(mem, p, q, k)) =
                Order(Prefix(Terminated(p), k), Prefix(Terminated(q), k))

(* strcmp orders any two strings as unsigned chars, as the standard       *)
(* requires; the code compares int8_t values.                             *)
StrcmpUnsigned ==
    Sign(strcmp(mem, p, q)) = Order(Terminated(p), Terminated(q))

(* strcpy, strncpy (padding with NULs), strcat and strncat (at most k     *)
(* bytes and a NUL) write what the standard says, when the objects are    *)
(* disjoint and fit in the memory.                                         *)
StrCopyCorrect ==
    LET s == RefStr(q)
        e == RefEnd(p)
        padded == [i \in 1 .. k |-> IF i <= Len(s) THEN s[i] ELSE 0]
        part == Prefix(s, k) \o <<0>>
    IN
    /\ p + Len(s) < Size /\ Disjoint(p, p + Len(s) + 1, q, q + Len(s) + 1) =>
          strcpy(mem, p, q) = Write(p, s \o <<0>>)
    /\ p + k <= Size /\ Disjoint(p, p + k, q, q + Len(s) + 1) =>
          strncpy(mem, p, q, k) = Write(p, padded)
    /\ e + Len(s) < Size /\ Disjoint(p, e + Len(s) + 1, q, q + Len(s) + 1) =>
          strcat(mem, p, q) = Write(e, s \o <<0>>)
    /\ e + Len(part) <= Size /\ Disjoint(p, e + Len(part), q, q + Len(s) + 1) =>
          strncat(mem, p, q, k) = Write(e, part)

-----------------------------------------------------------------------------
(* The tokenization: the text, a NUL, the delimiters ", " and a NUL.       *)
TokAlpha == <<97, 98, 44, 32>>
TokDelims == <<44, 32>>
TextLen == 5
DelimAt == TextLen + 1
text == [i \in 1 .. TextLen |-> TokAlpha[((n \div 4^(i - 1)) % 4) + 1]]
tokMem == text \o <<0>> \o TokDelims \o <<0>>

(* The caller's loop: strtok(NULL, delim) until NULL; the pointers it got, *)
(* the memory and last as the calls left them.                            *)
RECURSIVE Drive(_, _, _)
Drive(m, l, ptrs) ==
    LET r == strtok(m, Null, DelimAt, l) IN
    IF r[1] = Null THEN <<ptrs, m, r[3]>> ELSE Drive(r[2], r[3], Append(ptrs, r[1]))

Tokenized ==
    LET r == strtok(tokMem, 0, DelimAt, Null) IN
    IF r[1] = Null THEN <<<< >>, r[2], r[3]>> ELSE Drive(r[2], r[3], <<r[1]>>)

IsDelim(c) == \E i \in 1 .. Len(TokDelims) : TokDelims[i] = c

(* The tokens of a text: its maximal runs of bytes that are not delimiters. *)
RECURSIVE Split(_, _, _)
Split(s, cur, acc) ==
    LET close == IF cur # << >> THEN Append(acc, cur) ELSE acc IN
    IF s = << >> THEN close
    ELSE IF IsDelim(Head(s)) THEN Split(Tail(s), << >>, close)
    ELSE Split(Tail(s), Append(cur, Head(s)), acc)

(* The string at pointer a in memory m.                                   *)
RECURSIVE StrAt(_, _)
StrAt(m, a) == IF Byte(m, a) = 0 THEN << >> ELSE <<Byte(m, a)>> \o StrAt(m, a + 1)

(* Once strtok has returned NULL, the pointers it returned point, in the  *)
(* memory as the calls left it, to the text's tokens in order (leading,   *)
(* repeated and trailing delimiters skipped), and a further strtok(NULL)  *)
(* returns NULL again: the static last (libc.c:133) is left consistent.   *)
StrtokSplits ==
    LET ptrs == Tokenized[1]
        m == Tokenized[2]
    IN  /\ [i \in 1 .. Len(ptrs) |-> StrAt(m, ptrs[i])] = Split(text, << >>, << >>)
        /\ strtok(m, Null, DelimAt, Tokenized[3])[1] = Null

AlphaHigh == <<0, 97, 98, 200>>

====
