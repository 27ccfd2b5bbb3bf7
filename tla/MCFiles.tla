------------------------------ MODULE MCFiles ------------------------------
(***************************************************************************)
(* Instances of Files for TLC: the names and the contents are those of     *)
(* lines typed at the shell, and a name is what a slot of MAX_FILENAME     *)
(* bytes keeps of it.  The functions the kernel takes lines apart with are *)
(* checked here over all short strings.                                    *)
(***************************************************************************)
EXTENDS Files, CommandLine

CONSTANTS
    TypedNames, TypedContents,    \* in ASCII
    Alphabet,                     \* bytes
    MaxText,                      \* bound: the length of the strings
    Numbers

ASSUME AlphabetAssumption == Alphabet \subseteq 1 .. 255
\* uint32_t.
IsUint32(n) == n \in Nat /\ n - INT_MAX - 1 <= INT_MAX

ASSUME NumbersAssumption == (\A n \in Numbers : IsUint32(n)) /\ MaxText \in Nat

\* x, y and xy; c and "d e"; and what the line before them, old, has left behind theirs.
ShortNames    == {<<120>>, <<121>>, <<120, 121>>}
ShortContents == {<<99>>, <<100, Space, 101>>}
Old           == <<111, 108, 100>>

\* The commands that the typed lines write <name> <content> are.
Typed ==
    {execute_command(Memory(WriteSpace \o n \o <<Space>> \o c, Old)) :
        n \in TypedNames, c \in TypedContents}

LineNames == {t.filename : t \in Typed}

LineContents == {t.content : t \in Typed}

OldSlot == memset([i \in 0 .. MAX_FILENAME - 1 |-> 0], 122, MAX_FILENAME)

StoredNames ==
    [n \in LineNames |-> Text(StoredName(OldSlot, Memory(n, <<>>)))]

----------------------------------------------------------------------------
Texts == BoundedSeq(Alphabet, MaxText)

IsWord(n) == n # <<>> /\ Space \notin ToSet(n)

Before(s, t) ==
    \/ IsStrictPrefix(s, t)
    \/ \E i \in 1 .. Len(s) :
          i <= Len(t) /\ s[i] < t[i] /\ \A j \in 1 .. i - 1 : s[j] = t[j]

Cut(s, n) == SubSeq(s, 1, IF n < Len(s) THEN n ELSE Len(s))

Value(digits, base) == FoldLeft(LAMBDA v, d : v * base + d, 0, digits)

Compares(cmp, s, t) == (cmp < 0 <=> Before(s, t)) /\ (cmp = 0 <=> s = t)

StringsAgree ==
    /\ \A s, t \in Texts :
          LET a == Memory(s, t)
              b == Memory(t, <<255>>)
          IN  /\ strlen(a) = Len(s) /\ Text(a) = s
              /\ Compares(strcmp(a, b), s, t)
              /\ \A n \in 0 .. MaxText + 1 :
                    Compares(strncmp(a, b, n), Cut(s, n), Cut(t, n))
              /\ Text(strcpy(a, b)) = t
              /\ \A i \in DOMAIN a : i > Len(t) => strcpy(a, b)[i] = a[i]
    /\ \A s \in Texts, c \in Alphabet \cup {0} :
          LET places == {i \in 0 .. Len(s) : Memory(s, <<>>)[i] = c}
          IN  strchr(Memory(s, <<c>>), c) =
                  IF places = {} THEN NULL ELSE CHOOSE i \in places : \A j \in places : i <= j
    /\ \A n \in Numbers :
          /\ list_number(n) = IF n <= INT_MAX THEN print_uint(n) ELSE <<>>
          /\ Value(print_uint(n), 10) = n
          /\ Len(print_uint(n)) <= 11 /\ (n # 0 => print_uint(n)[1] # 0)
          /\ Value(print_hex(n), 16) = n /\ ToSet(print_hex(n)) \subseteq 0 .. 15

Heads == {<<>>, WriteSpace, Front(WriteSpace), CatSpace, Front(CatSpace)}
             \cup {Ascii[w] : w \in Words}

LinesAgree ==
    \A head \in Heads, tail \in Texts, old \in {<<>>, Old} :
        LET line == head \o tail
            run  == execute_command(Memory(line, old))
        IN  /\ \A n, c \in Texts :
                  run = WriteOf(n, c) <=>
                      /\ IsWord(n) /\ c # <<>>
                      /\ line = WriteSpace \o n \o <<Space>> \o c
            /\ \A n \in Texts :
                  run = CatOf(n) <=> n # <<>> /\ line = CatSpace \o n
            /\ \A w \in Words : run = Command(w) <=> line = Ascii[w]

\* Whatever the state: it is asked once, before vfs_init and any command.
AtFirst == reset = -1 /\ NoCommand /\ created = {}

(***************************************************************************)
(* The string functions, on bytes above 127 too, whatever lies behind the  *)
(* terminator, are what C says they are: strcmp orders strings as their    *)
(* unsigned bytes do (string.h: "negative if s1 < s2"), strncmp compares   *)
(* their first n, strchr finds the first place and the terminator, strcpy  *)
(* writes a string and nothing behind it.  print_uint and print_hex print  *)
(* the number, without a leading 0 or in eight hexadecimal digits; so does *)
(* vfs_list_files, unless it is 2^31 or more: of such a size it prints     *)
(* nothing.                                                                *)
(***************************************************************************)
LibraryAgrees == AtFirst => StringsAgree

(***************************************************************************)
(* A line is a cat or a write exactly if it was typed as one, with just    *)
(* the name and the content that were typed (shell.c: "write <filename>    *)
(* <content>"), and one of the other commands exactly if it is its word;   *)
(* what the buffer held before makes no difference.                        *)
(***************************************************************************)
LinesParseAsTyped == AtFirst => LinesAgree
=============================================================================
