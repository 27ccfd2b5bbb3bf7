------------------------------- MODULE Files -------------------------------
(***************************************************************************)
(* The RAM file system, vfs.c, and the commands that use it: write, which  *)
(* creates a file, and cat, which looks one up and prints it.  Commands    *)
(* run in the keyboard interrupt with interrupts on, so one can interrupt  *)
(* another, and any of them vfs_init; a step is the code between two looks *)
(* at the file table.                                                      *)
(*                                                                         *)
(* All that matters of a name is what is left of it in MAX_FILENAME - 1    *)
(* characters.  The heap is taken to give a buffer or NULL.                *)
(***************************************************************************)
EXTENDS Integers, FiniteSets

CONSTANTS
    Names,       \* the names a command can spell
    Stored,      \* Stored[n]: what the file table keeps of the name n
    Contents,    \* the contents, as write passes them
    MaxFiles,    \* MAX_FILES
    Writers,     \* the write commands that can be open at once
    Readers,     \* the cat commands that can be open at once
    OneWriter    \* TRUE: no write starts while another is open

Empty == <<>>     \* a name of no characters; a buffer that is NULL

ASSUME NamesAssumption == Stored \in [Names -> Names] /\ Empty \notin Names
ASSUME ContentsAssumption == Empty \notin Contents
ASSUME MaxAssumption == MaxFiles \in Nat \ {0}
ASSUME OneAssumption == OneWriter \in BOOLEAN

VARIABLES
    file_table,   \* the slots
    file_count,
    reset,        \* the slots vfs_init has cleared; -1 before it starts
    nameless,     \* of slot number reset it has cleared the name, not yet the rest
    write,        \* write[w]: where the command w is, and its arguments
    cat,          \* cat[r]: the file the command r has looked up
    created       \* auxiliary: the <<name, content>> write has reported created,
                  \* but for those vfs_init has dropped since

vars == <<file_table, file_count, reset, nameless, write, cat, created>>

Slots   == 0 .. MaxFiles - 1
NoNode  == [name |-> Empty, buffer |-> Empty]
Node    == [name : Names \cup {Empty}, buffer : Contents \cup {Empty}]
Parts   == {"node", "count"}
Closed  == [pc |-> "closed", name |-> Empty, content |-> Empty, slot |-> 0,
            due |-> {}]
NoFile  == [name |-> Empty, slot |-> 0]

\* The slots in which a file is listed.
Listed == {i \in Slots : i < file_count}

File(i) == <<file_table[i].name, file_table[i].buffer>>

Init ==
    /\ file_table = [i \in Slots |-> NoNode]
    /\ file_count = 0
    /\ reset = -1
    /\ nameless = FALSE
    /\ write = [w \in Writers |-> Closed]
    /\ cat = [r \in Readers |-> NoFile]
    /\ created = {}

----------------------------------------------------------------------------
(* vfs_init: commands interrupt it, and it goes on when they have returned. *)

NoCommand == (\A w \in Writers : write[w] = Closed) /\ (\A r \in Readers : cat[r] = NoFile)

VfsInit ==
    /\ reset = -1 /\ NoCommand
    /\ file_count' = 0
    /\ reset' = 0
    /\ created' = {}
    /\ UNCHANGED <<file_table, nameless, write, cat>>

\* The loop, slot by slot: the name, then the rest.  A file that a command has put
\* into the slot meanwhile is dropped; one put there between the two stores keeps its
\* name in the list, without a buffer.
Dropped(i) == IF i \in Listed THEN created \ {File(i)} ELSE created

ClearName ==
    /\ reset \in Slots /\ ~nameless /\ NoCommand
    /\ file_table' = [file_table EXCEPT ![reset].name = Empty]
    /\ nameless' = TRUE
    /\ created' = Dropped(reset)
    /\ UNCHANGED <<file_count, reset, write, cat>>

ClearNode ==
    /\ reset \in Slots /\ nameless /\ NoCommand
    /\ file_table' = [file_table EXCEPT ![reset].buffer = Empty]
    /\ nameless' = FALSE
    /\ reset' = reset + 1
    /\ created' = Dropped(reset)
    /\ UNCHANGED <<file_count, write, cat>>

----------------------------------------------------------------------------
(* vfs_create_file                                                         *)

Begun(n, c) == [Closed EXCEPT !.pc = "name", !.name = n, !.content = c]

\* The table is not full, after a mutant: it never is.
HasRoom_Always == TRUE

HasRoom == file_count < MaxFiles

\* No file has the name, after a mutant that does not look.
IsNew_Always(n) == TRUE

IsNew(n) == \A i \in Listed : file_table[i].name # n

\* The returns -1 and -2 change nothing and are left out.
Check(w) ==
    /\ write[w] = Closed
    /\ OneWriter => \A v \in Writers : write[v] = Closed
    /\ HasRoom
    /\ \E n \in Names, c \in Contents :
          IsNew(n) /\ write' = [write EXCEPT ![w] = Begun(n, c)]
    /\ UNCHANGED <<file_table, file_count, reset, nameless, cat, created>>

\* kmalloc returns NULL: -3.
NoBuffer(w) ==
    /\ write[w].pc = "name"
    /\ write' = [write EXCEPT ![w] = Closed]
    /\ UNCHANGED <<file_table, file_count, reset, nameless, cat, created>>

\* The slot of a new file, after a mutant: the one before.
NewSlot_Before == IF file_count = 0 THEN 0 ELSE file_count - 1

NewSlot == file_count

\* The name, cut to what fits, and the load of file_count for what follows.
WriteName(w) ==
    /\ write[w].pc = "name"
    /\ file_table' = [file_table EXCEPT ![NewSlot].name = Stored[write[w].name]]
    /\ write' = [write EXCEPT ![w].pc = "stores", ![w].slot = NewSlot,
                              ![w].due = Parts]
    /\ UNCHANGED <<file_count, reset, nameless, cat, created>>

\* The stores to the node and to file_count.  The source has them in this order,
\* the -O2 build in the other one: nothing tells the compiler that an interrupt
\* looks.  After the last one write reports "File created successfully!".
StoreDone(w, part) ==
    /\ write[w].pc = "stores" /\ part \in write[w].due
    /\ IF write[w].due = {part}
       THEN /\ write' = [write EXCEPT ![w] = Closed]
            /\ created' = created \cup {<<write[w].name, write[w].content>>}
       ELSE /\ write' = [write EXCEPT ![w].due = @ \ {part}]
            /\ UNCHANGED created

\* Flags, length and buffer.
WriteNode(w) ==
    /\ StoreDone(w, "node")
    /\ file_table' = [file_table EXCEPT ![write[w].slot].buffer = write[w].content]
    /\ UNCHANGED <<file_count, reset, nameless, cat>>

\* file_count++, after a mutant: the slot is not taken.
Taken_Not(slot) == slot

Taken(slot) == slot + 1

Count(w) ==
    /\ StoreDone(w, "count")
    /\ file_count' = Taken(write[w].slot)
    /\ UNCHANGED <<file_table, reset, nameless, cat>>

----------------------------------------------------------------------------
(* vfs_read_file                                                           *)

\* The slots it looks at, after a mutant that does not stop at file_count.
Searched_All == Slots

Searched == Listed

\* The first slot with the name; cat keeps the pointer.
Find(r) ==
    /\ cat[r] = NoFile
    /\ \E n \in Names, i \in Searched :
          /\ file_table[i].name = n
          /\ \A j \in Searched : j < i => file_table[j].name # n
          /\ cat' = [cat EXCEPT ![r] = [name |-> n, slot |-> i]]
    /\ UNCHANGED <<file_table, file_count, reset, nameless, write, created>>

\* cat prints file->buffer.
PrintFile(r) ==
    /\ cat[r] # NoFile
    /\ cat' = [cat EXCEPT ![r] = NoFile]
    /\ UNCHANGED <<file_table, file_count, reset, nameless, write, created>>

----------------------------------------------------------------------------
Write(w) == Check(w) \/ NoBuffer(w) \/ WriteName(w) \/ WriteNode(w) \/ Count(w)

Cat(r) == Find(r) \/ PrintFile(r)

Next ==
    \/ VfsInit \/ ClearName \/ ClearNode
    \/ (\E w \in Writers : Write(w)) \/ (\E r \in Readers : Cat(r))

Spec == Init /\ [][Next]_vars

----------------------------------------------------------------------------
TypeOK ==
    /\ file_table \in [Slots -> Node]
    /\ file_count \in 0 .. MaxFiles
    /\ reset \in -1 .. MaxFiles
    /\ nameless \in BOOLEAN
    /\ write \in [Writers -> [pc : {"closed", "name", "stores"},
                              name : Names \cup {Empty},
                              content : Contents \cup {Empty},
                              slot : Slots, due : SUBSET Parts]]
    /\ cat \in [Readers -> [name : Names \cup {Empty}, slot : Slots]]
    /\ created \in SUBSET (Names \X Contents)

(***************************************************************************)
(* No two files have the same name (vfs.c: "filenames must be unique").    *)
(* A slot whose name vfs_init has cleared behind a write has none.         *)
(***************************************************************************)
NamesAreUnique ==
    \A i, j \in Listed :
        file_table[i].name = file_table[j].name /\ file_table[i].name # Empty => i = j

(***************************************************************************)
(* A file that write has reported created is there under the name it was   *)
(* given, with the content it was given, from then on, unless vfs_init has *)
(* not come by yet.                                                        *)
(***************************************************************************)
ReadsBack ==
    \A f \in created : \E i \in Listed :
        /\ File(i) = f
        /\ \A j \in Listed : j < i => file_table[j].name # f[1]

(***************************************************************************)
(* What a cat prints, of the slots that vfs_init has cleared, is a file    *)
(* that was created under that name, also when the cat interrupts a write  *)
(* or a write interrupts the cat, and whatever the order of write's last   *)
(* stores: a node that is listed before it is complete has no buffer,      *)
(* which cat takes for no file.                                            *)
(***************************************************************************)
PrintsCreatedFiles ==
    \A r \in Readers :
        cat[r] # NoFile /\ cat[r].slot < reset /\ file_table[cat[r].slot].buffer # Empty =>
            <<cat[r].name, file_table[cat[r].slot].buffer>> \in created

(***************************************************************************)
(* The slots that vfs_init has cleared, as cat sees them, are a FileStore: *)
(* a file appears all at once, and stays.                                  *)
(***************************************************************************)
Visible == {i \in Listed : i < reset /\ file_table[i].buffer # Empty}

Content(n) ==
    file_table[CHOOSE i \in Visible : file_table[i].name = n].buffer

VisibleFiles == [n \in {file_table[i].name : i \in Visible} |-> Content(n)]

Store == INSTANCE FileStore WITH files <- VisibleFiles

IsFileStore == Store!Spec
=============================================================================
