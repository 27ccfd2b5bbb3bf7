---------------------------- MODULE CommandLine ----------------------------
(***************************************************************************)
(* What execute_command, shell.c, makes of a line, and what                *)
(* vfs_create_file, vfs.c, keeps of a file's name: the places where the    *)
(* kernel depends on its string library.                                   *)
(***************************************************************************)
EXTENDS Strings

CONSTANT MAX_FILENAME

ASSUME FilenameAssumption == MAX_FILENAME \in Nat \ {0}

\* The commands that are one word, in ASCII; and "cat " and "write ".
Ascii ==
    [help      |-> <<104, 101, 108, 112>>,
     version   |-> <<118, 101, 114, 115, 105, 111, 110>>,
     timer     |-> <<116, 105, 109, 101, 114>>,
     testdelay |-> <<116, 101, 115, 116, 100, 101, 108, 97, 121>>,
     mem       |-> <<109, 101, 109>>,
     testmem   |-> <<116, 101, 115, 116, 109, 101, 109>>,
     testheap  |-> <<116, 101, 115, 116, 104, 101, 97, 112>>,
     crash     |-> <<99, 114, 97, 115, 104>>,
     divzero   |-> <<100, 105, 118, 122, 101, 114, 111>>,
     ps        |-> <<112, 115>>,
     ls        |-> <<108, 115>>,
     clear     |-> <<99, 108, 101, 97, 114>>,
     reboot    |-> <<114, 101, 98, 111, 111, 116>>]

Words == DOMAIN Ascii

Space == 32

CatSpace   == <<99, 97, 116, 32>>
WriteSpace == <<119, 114, 105, 116, 101, 32>>

Command(word)   == [command |-> word, filename |-> <<>>, content |-> <<>>]
CatOf(n)        == [command |-> "cat", filename |-> n, content |-> <<>>]
WriteOf(n, c)   == [command |-> "write", filename |-> n, content |-> c]

\* cat <filename>
CatCommand(filename) ==
    IF strlen(filename) = 0 THEN Command("usage") ELSE CatOf(Text(filename))

\* write <filename> <content>
WriteCommand(args) ==
    LET space == strchr(args, Space)
        cut   == [args EXCEPT ![space] = 0]
        rest  == From(cut, space + 1)
    IN  IF space = NULL THEN Command("usage")
        ELSE IF strlen(cut) > 0 /\ strlen(rest) > 0
        THEN WriteOf(Text(cut), Text(rest))
        ELSE Command("usage")

StartsWith(buffer, text) == strncmp(buffer, Memory(text, <<>>), Len(text)) = 0

\* The commands with arguments, for a line that is none of the words.
Dispatch(buffer) ==
    CASE StartsWith(buffer, CatSpace)   -> CatCommand(From(buffer, 4))
      [] StartsWith(buffer, WriteSpace) -> WriteCommand(From(buffer, 6))
      [] OTHER                          -> Command("unknown")

\* After a mutant: what follows the word is not compared.
IsCommand_Prefix(buffer, word) == StartsWith(buffer, Ascii[word])

IsCommand(buffer, word) == strcmp(buffer, Memory(Ascii[word], <<>>)) = 0

execute_command(buffer) ==
    IF \E w \in Words : IsCommand(buffer, w)
    THEN Command(CHOOSE w \in Words : IsCommand(buffer, w))
    ELSE Dispatch(buffer)

\* The name in a slot that held another one.
StoredName(slot, name) ==
    LET len      == strlen(name)
        name_len == IF len >= MAX_FILENAME THEN MAX_FILENAME - 1 ELSE len
    IN  [memcpy(slot, name, name_len) EXCEPT ![name_len] = 0]
=============================================================================
