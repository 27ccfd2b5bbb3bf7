------------------------------ MODULE Strings ------------------------------
(***************************************************************************)
(* The string library, string.c, and the number that vfs_list_files prints *)
(* by itself.  Memory is a function from 0 on to bytes, and a pointer into *)
(* it the function that starts there; what is read behind its end is an    *)
(* error of TLC.  A loop is a recursive function of its counter.           *)
(***************************************************************************)
EXTENDS Integers, Sequences, SequencesExt

CONSTANT INT_MAX    \* 2^31 - 1; the largest uint32_t is 2 * INT_MAX + 1

ASSUME IntMaxAssumption == INT_MAX \in Nat /\ INT_MAX \div 65536 < 32768

\* A string and what lies behind its terminator; and the string that is there.
Memory(text, behind) ==
    LET bytes == text \o <<0>> \o behind
    IN  [i \in 0 .. Len(bytes) - 1 |-> bytes[i + 1]]

From(mem, offset) ==
    [i \in {j \in DOMAIN mem : j + offset \in DOMAIN mem} |-> mem[i + offset]]

NULL == -1

strlen(str) ==
    LET len[i \in Nat] == IF str[i] = 0 THEN i ELSE len[i + 1]
    IN  len[0]

Text(str) == [i \in 1 .. strlen(str) |-> str[i - 1]]

\* After a mutant, which stops at the end of s1 only when s2 ends there too.
strcmp_Prefix(s1, s2) ==
    LET diff[i \in Nat] ==
            IF s1[i] # 0 /\ s1[i] = s2[i] THEN diff[i + 1]
            ELSE IF s1[i] = 0 THEN 0 ELSE s1[i] - s2[i]
    IN  diff[0]

strcmp(s1, s2) ==
    LET diff[i \in Nat] ==
            IF s1[i] # 0 /\ s1[i] = s2[i] THEN diff[i + 1] ELSE s1[i] - s2[i]
    IN  diff[0]

strncmp(s1, s2, n) ==
    LET diff[i \in Nat] ==
            IF i = n THEN 0
            ELSE IF s1[i] # 0 /\ s1[i] = s2[i] THEN diff[i + 1]
            ELSE s1[i] - s2[i]
    IN  diff[0]

\* The index of the character.
strchr(str, ch) ==
    LET at[i \in Nat] ==
            IF str[i] = ch % 256 THEN i ELSE IF str[i] = 0 THEN NULL ELSE at[i + 1]
    IN  at[0]

\* These return the memory at their destination.
memset(buf, value, size) ==
    [i \in DOMAIN buf |-> IF i < size THEN value % 256 ELSE buf[i]]

memcpy(dst, src, size) == [i \in DOMAIN dst |-> IF i < size THEN src[i] ELSE dst[i]]

strcpy(dest, src) == memcpy(dest, src, strlen(src) + 1)

----------------------------------------------------------------------------
(* Numbers, as the digits that are printed.                                *)

\* From the last digit on, down from buf[10].
print_uint(num) ==
    LET digits[n \in Nat] == IF n = 0 THEN <<>> ELSE Append(digits[n \div 10], n % 10)
    IN  IF num = 0 THEN <<0>> ELSE digits[num]

\* What an int holds of a uint32_t.
ToInt(num) == IF num <= INT_MAX THEN num ELSE num - 2 * (INT_MAX + 1)

\* The last digit first, and then turned round.  The length is taken for an int, and
\* the loop over a negative one ends before its first digit.
list_number(length) ==
    LET val       == ToInt(length)
        temp[v \in Nat] == IF v = 0 THEN <<>> ELSE <<v % 10>> \o temp[v \div 10]
    IN  IF val = 0 THEN <<0>> ELSE IF val > 0 THEN Reverse(temp[val]) ELSE <<>>

print_hex(value) ==
    LET rest[i \in 1 .. 9] == IF i = 9 THEN value ELSE rest[i + 1] \div 16
    IN  [i \in 1 .. 8 |-> rest[i + 1] % 16]
=============================================================================
