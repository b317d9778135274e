------------------------------ MODULE Strings ------------------------------
(***************************************************************************)
(* The string and number functions of kernel/common.c, kernel/string.c,    *)
(* kernel/stdlib.c and apps/shell.c, on arrays of character codes (indices *)
(* start at 0, NUL ends a string).  A loop that only looks for a place in  *)
(* an array is the least index at which it stops; reading on past the end  *)
(* of an array has no value here: callers pass arrays that hold a NUL.     *)
(***************************************************************************)
EXTENDS Integers, Sequences, FiniteSetsExt

NUL == 0
Space == 32
Minus == 45
Zero == 48
UpperA == 65
LowerA == 97

\* The array that holds the characters of the sequence s and their NUL.
CString(s) == [i \in 0 .. Len(s) |-> IF i < Len(s) THEN s[i + 1] ELSE NUL]

----------------------------------------------------------------------------
\* Both count the NUL.
str_get_len(src) == Min({i \in DOMAIN src : src[i] = NUL}) + 1

strlen(s) == Min({i + 1 : i \in {j \in DOMAIN s : s[j] = NUL}})

\* The characters of the string in the array a.
StringOf(a) == [i \in 1 .. str_get_len(a) - 1 |-> a[i - 1]]

\* -1 when key does not occur before the NUL.
str_find_char(src, key) ==
    LET i == Min({j \in DOMAIN src : src[j] \in {key, NUL}})
    IN  IF src[i] = key THEN i ELSE -1

\* memcpy has the same loop.
copy_mem(src, from, dst, size) ==
    [i \in DOMAIN dst |-> IF i < size THEN src[from + i] ELSE dst[i]]

str_compare(src, dst) ==
    LET i == Min({j \in DOMAIN src \cap DOMAIN dst : NUL \in {src[j], dst[j]} \/ src[j] # dst[j]})
    IN  IF NUL \notin {src[i], dst[i]} THEN src[i] - dst[i]
        ELSE IF src[i] # NUL THEN 1 ELSE IF dst[i] # NUL THEN -1 ELSE 0

strcmp(s1, s2) ==
    LET i == Min({j \in DOMAIN s1 \cap DOMAIN s2 : s1[j] # s2[j] \/ s1[j] = NUL})
    IN  s1[i] - s2[i]

\* Mutant: the characters are compared before n is looked at.
NCompareOneMore(s1, s2, n) ==
    LET i == Min({j \in DOMAIN s1 \cap DOMAIN s2 : j = n \/ s1[j] # s2[j] \/ s1[j] = NUL})
    IN  s1[i] - s2[i]

strncmp(s1, s2, n) ==
    LET i == Min({j \in DOMAIN s1 \cap DOMAIN s2 : j = n \/ s1[j] # s2[j] \/ s1[j] = NUL})
    IN  IF i = n THEN 0 ELSE s1[i] - s2[i]

\* The array afterwards, and the returned pointer as an index of it.
strcpy(dest, src) ==
    [array |-> copy_mem(src, 0, dest, str_get_len(src)), result |-> str_get_len(src)]

----------------------------------------------------------------------------
(***************************************************************************)
(* Numbers.  mod is 2^32: int and long wrap around (the multiplications    *)
(* and additions of str_conv_ahex_int are two's complement).               *)
(***************************************************************************)
pow(num, multer, mod) ==
    LET p[m \in Nat] == IF m = 0 THEN 1 ELSE (p[m - 1] * num) % mod
    IN  p[multer]

\* The calls of pow that are on the stack at once: one for each digit, when the
\* first of them is converted.
pow_depth(hex_str) == str_get_len(hex_str) - 1

\* num to the power n without overflow.
Power(num, n) ==
    LET p[m \in Nat] == IF m = 0 THEN 1 ELSE p[m - 1] * num
    IN  p[n]

HexDigit(c) == IF c \in Zero .. Zero + 9 THEN c - Zero ELSE c - LowerA + 10

\* Mutant: the weight of a digit counts the NUL.
AhexShifted(hex_str, mod) ==
    LET len == str_get_len(hex_str)
        val[i \in 0 .. len - 1] ==
            IF i = 0 THEN 0
            ELSE (val[i - 1] + HexDigit(hex_str[i - 1]) * pow(16, len - i, mod)) % mod
    IN  val[len - 1]

\* val[i] is the sum before character i is looked at.
str_conv_ahex_int(hex_str, mod) ==
    LET len == str_get_len(hex_str)
        val[i \in 0 .. len - 1] ==
            IF i = 0 THEN 0
            ELSE (val[i - 1] + HexDigit(hex_str[i - 1]) * pow(16, len - 2 - (i - 1), mod)) % mod
    IN  val[len - 1]

\* The loop that itoa and itox share: the last digit is taken off until no
\* other is left.
Digits(n, base) ==
    LET Digit(d) == IF d < 10 THEN Zero + d ELSE LowerA + d - 10
        num[k \in Nat] == IF k < base THEN <<Digit(k)>>
                          ELSE Append(num[k \div base], Digit(k % base))
    IN  num[n]

\* -n is n itself for the smallest number, and C's remainder of a negative
\* number is negative: its one digit comes from below '0'.
itoa(n, mod) ==
    IF n >= 0 THEN Digits(n, 10)
    ELSE IF n = -(mod \div 2) THEN <<Minus, Zero - ((-n) % 10)>>
    ELSE <<Minus>> \o Digits(-n, 10)

itox(n) == Digits(n, 16)

\* The characters dump_hex puts on the screen, from left to right.
dump_hex(val, num_digits) ==
    LET Digit(d) == IF d < 10 THEN Zero + d ELSE UpperA + d - 10
    IN  [j \in 1 .. num_digits |-> Digit((val \div Power(16, num_digits - j)) % 16)]
=============================================================================
