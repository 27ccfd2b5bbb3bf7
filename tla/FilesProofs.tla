---------------------------- MODULE FilesProofs ----------------------------
(***************************************************************************)
(* The file system and the commands that use it, for any number of files,  *)
(* names and commands, one write at a time and names that fit.             *)
(***************************************************************************)
EXTENDS MCFiles, StackLemmas

----------------------------------------------------------------------------
(***************************************************************************)
(* The inductive invariant behind the properties, for OneWriter and names  *)
(* that fit.                                                               *)
(***************************************************************************)
NamesFit == \A n \in Names : Stored[n] = n

OneOpen == \A v, w \in Writers : write[v] # Closed /\ write[w] # Closed => v = w

\* The write w, which has looked at the table, and what it has stored so far.
WriteInv(w) ==
    /\ write[w].pc = "closed" => write[w] = Closed
    /\ write[w].pc # "closed" => write[w].name \in Names /\ write[w].content \in Contents
    /\ write[w].pc = "name" => HasRoom /\ IsNew(write[w].name)
    /\ write[w].pc = "stores" =>
          /\ write[w].due # {}
          /\ \A f \in created : f[1] # write[w].name
          /\ file_table[write[w].slot].name = write[w].name
          /\ "node" \notin write[w].due =>
                file_table[write[w].slot].buffer = write[w].content
          /\ "node" \in write[w].due /\ write[w].slot < reset =>
                file_table[write[w].slot].buffer = Empty
          /\ IF "count" \in write[w].due
             THEN write[w].slot = file_count /\ IsNew(write[w].name)
             ELSE write[w].slot + 1 = file_count

\* The file a cat has looked up is listed under the name.
CatInv(r) ==
    cat[r] # NoFile => /\ cat[r].slot \in Listed
                       /\ file_table[cat[r].slot].name = cat[r].name

\* Behind vfs_init a slot that is not listed is empty, but for a write's.
RestIsEmpty ==
    \A i \in Slots :
        i >= file_count /\ i < reset =>
            \/ file_table[i].buffer = Empty
            \/ \E w \in Writers : write[w].pc = "stores" /\ write[w].slot = i

\* What was created is listed, and what is listed behind vfs_init was created.
CreatedInv ==
    /\ \A f \in created : \E i \in Listed : File(i) = f
    /\ \A i \in Listed : i < reset /\ file_table[i].buffer # Empty => File(i) \in created

FilesInv ==
    /\ TypeOK
    /\ OneOpen
    /\ \A w \in Writers : WriteInv(w)
    /\ \A r \in Readers : CatInv(r)
    /\ NamesAreUnique
    /\ RestIsEmpty
    /\ CreatedInv

----------------------------------------------------------------------------
WriteType ==
    [pc : {"closed", "name", "stores"}, name : Names \cup {Empty},
     content : Contents \cup {Empty}, slot : Slots, due : SUBSET Parts]

\* The parts of the types that the lemmas below need of the slots, the counter and the
\* calls.
LEMMA Values ==
    ASSUME TypeOK
    PROVE  /\ MaxFiles \in Nat \ {0} /\ 0 \in Slots
           /\ file_count \in 0 .. MaxFiles /\ Listed = 0 .. file_count - 1
           /\ Listed \subseteq Slots
           /\ \A i \in Slots : /\ file_table[i] \in Node
                               /\ file_table[i].name \in Names \cup {Empty}
                               /\ file_table[i].buffer \in Contents \cup {Empty}
           /\ \A w \in Writers : /\ write[w] \in WriteType /\ write[w].slot \in Slots
                                 /\ write[w].pc \in {"closed", "name", "stores"}
                                 /\ write[w].due \in SUBSET Parts
<1>1. MaxFiles \in Nat \ {0} /\ file_count \in 0 .. MaxFiles /\ Slots = 0 .. MaxFiles - 1
  BY MaxAssumption DEF TypeOK, Slots
<1>2. Listed = 0 .. file_count - 1 /\ Listed \subseteq Slots /\ 0 \in Slots
  BY <1>1 DEF Listed
<1>3. \A w \in Writers : write[w] \in WriteType
  BY DEF TypeOK, WriteType
<1>4. \A i \in Slots : file_table[i] \in Node
  BY DEF TypeOK
<1> QED
  BY <1>1, <1>2, <1>3, <1>4 DEF WriteType, Node

\* A command that is closed is not at any other step.
LEMMA ClosedIsClosed == Closed.pc = "closed" /\ NoFile.name = Empty /\ NoFile.slot = 0
  BY DEF Closed, NoFile

\* The table as the image has it, before vfs_init, satisfies the invariant.
LEMMA InitiallyFiles == Init => FilesInv
<1> SUFFICES ASSUME Init PROVE FilesInv
  OBVIOUS
<1>1. /\ file_table = [i \in Slots |-> NoNode] /\ file_count = 0 /\ reset = -1
      /\ write = [w \in Writers |-> Closed] /\ cat = [r \in Readers |-> NoFile]
      /\ created = {}
  BY DEF Init
<1>2. MaxFiles \in Nat \ {0} /\ 0 \in Slots
  BY MaxAssumption DEF Slots
<1>3. TypeOK
  <2>1. nameless \in BOOLEAN
    BY DEF Init
  <2> QED
    BY <1>1, <1>2, <2>1 DEF TypeOK, NoNode, Node, Closed, NoFile, Parts
<1>4. Listed = {}
  BY <1>1 DEF Listed, Slots
<1>5. \A w \in Writers : WriteInv(w)
  BY <1>1 DEF WriteInv, Closed
<1> QED
  BY <1>1, <1>3, <1>4, <1>5, <1>2
     DEF FilesInv, OneOpen, CatInv, NamesAreUnique, RestIsEmpty, CreatedInv, Slots, NoNode

\* vfs_init, which sets file_count to 0 and then clears slot by slot, keeps the
\* invariant.
LEMMA VfsInitKeeps ==
    ASSUME FilesInv, VfsInit
    PROVE  FilesInv'
<1>1. /\ NoCommand /\ file_count' = 0 /\ reset' = 0 /\ created' = {}
      /\ UNCHANGED <<file_table, nameless, write, cat>>
  BY DEF VfsInit
<1>2. \A w \in Writers : write'[w] = Closed
  BY <1>1 DEF NoCommand
<1>3. \A r \in Readers : cat'[r] = NoFile
  BY <1>1 DEF NoCommand
<1>4. Listed' = {}
  BY <1>1 DEF Listed, Slots
<1>5. TypeOK'
  BY <1>1, Values DEF FilesInv, TypeOK
<1>6. \A w \in Writers : WriteInv(w)'
  BY <1>2, ClosedIsClosed DEF WriteInv
<1>7. RestIsEmpty'
  BY <1>1 DEF RestIsEmpty, Slots
<1> QED
  BY <1>1, <1>2, <1>3, <1>4, <1>5, <1>6, <1>7
     DEF FilesInv, OneOpen, CatInv, NamesAreUnique, CreatedInv

\* A step of the loop, which empties a part of a slot.
LEMMA ClearSlotKeeps ==
    ASSUME FilesInv, ClearName \/ ClearNode
    PROVE  FilesInv'
<1>1. /\ reset \in Slots /\ NoCommand /\ created' = Dropped(reset)
      /\ reset' = reset + 1 \/ reset' = reset
      /\ UNCHANGED <<file_count, write, cat>>
  BY DEF ClearName, ClearNode
<1>2. \A w \in Writers : write'[w] = Closed
  BY <1>1 DEF NoCommand
<1>3. \A r \in Readers : cat'[r] = NoFile
  BY <1>1 DEF NoCommand
<1>4. /\ Listed' = Listed /\ file_count' = file_count /\ file_count \in 0 .. MaxFiles
      /\ \A i \in Slots : i # reset => file_table'[i] = file_table[i]
      /\ \/ reset' = reset /\ file_table'[reset].name = Empty
         \/ /\ reset' = reset + 1 /\ file_table'[reset].buffer = Empty
            /\ file_table'[reset].name = file_table[reset].name
  <2>1. file_table[reset] \in Node
    BY <1>1 DEF FilesInv, TypeOK
  <2> QED
    BY <1>1, <2>1 DEF Listed, FilesInv, TypeOK, ClearName, ClearNode, Node
<1>5. \A i \in Slots : i < reset' => i < reset \/ (i = reset /\ file_table'[i].buffer = Empty)
  <2>1. \A i \in Slots : i < reset + 1 => i < reset \/ i = reset
    BY <1>1 DEF Slots
  <2>2. ~ (reset < reset)
    BY <1>1 DEF Slots
  <2> QED
    BY <1>1, <1>4, <2>1, <2>2
<1>6. \A i \in Slots : i < reset => i # reset
  BY <1>1 DEF Slots
<1>7. Listed \subseteq Slots
  BY DEF Listed
<1>8. TypeOK'
  <2>1. reset' \in -1 .. MaxFiles
    BY <1>1, MaxAssumption DEF Slots
  <2>2. file_table' \in [Slots -> Node]
    BY <1>1 DEF ClearName, ClearNode, FilesInv, TypeOK, Node
  <2>3. nameless' \in BOOLEAN
    BY DEF ClearName, ClearNode
  <2>4. created' \in SUBSET (Names \X Contents)
    BY <1>1 DEF Dropped, FilesInv, TypeOK
  <2> QED
    BY <1>1, <2>1, <2>2, <2>3, <2>4 DEF FilesInv, TypeOK
<1>9. \A w \in Writers : WriteInv(w)'
  BY <1>2, ClosedIsClosed DEF WriteInv
<1>10. NamesAreUnique'
  <2>1. \A i \in Slots : file_table'[i].name \in {file_table[i].name, Empty}
    BY <1>4
  <2> QED
    BY <1>4, <1>7, <2>1 DEF NamesAreUnique, FilesInv
<1>11. RestIsEmpty'
  <2>1. \A w \in Writers : write[w].pc # "stores"
    BY <1>1, ClosedIsClosed DEF NoCommand
  <2> QED
    BY <1>4, <1>5, <1>6, <2>1 DEF RestIsEmpty, FilesInv
<1>12. CreatedInv'
  <2>1. ASSUME NEW f \in created'
        PROVE  \E i \in Listed' : File(i)' = f
    <3>1. PICK i \in Listed : File(i) = f
      BY <1>1, <2>1 DEF FilesInv, CreatedInv, Dropped
    <3>2. i # reset
      BY <1>1, <2>1, <3>1 DEF Dropped
    <3>3. File(i)' = f
      BY <1>4, <1>7, <3>1, <3>2 DEF File
    <3> QED
      BY <1>4, <3>3
  <2>2. ASSUME NEW i \in Listed', i < reset', file_table'[i].buffer # Empty
        PROVE  File(i)' \in created'
    <3>1. i \in Listed /\ i \in Slots /\ i # reset /\ i < reset /\ file_table'[i] = file_table[i]
      BY <1>4, <1>5, <1>6, <1>7, <2>2
    <3>2. File(i) \in created /\ File(i)' = File(i)
      BY <2>2, <3>1 DEF FilesInv, CreatedInv, File
    <3>3. file_table[i].name # Empty
      BY <3>2, NamesAssumption DEF File, FilesInv, TypeOK
    <3>4. reset \in Listed => File(i) # File(reset)
      BY <3>1, <3>3 DEF FilesInv, NamesAreUnique, File
    <3> QED
      BY <1>1, <3>2, <3>4 DEF Dropped
  <2> QED
    BY <2>1, <2>2 DEF CreatedInv
<1> QED
  BY <1>2, <1>3, <1>8, <1>9, <1>10, <1>11, <1>12 DEF FilesInv, OneOpen, CatInv

\* A step that leaves the table and vfs_init alone, and of the commands changes
\* the write w only, to a value that is sound.
LEMMA OneWriteMoves ==
    ASSUME FilesInv, NEW w \in Writers, NEW c \in WriteType,
           write' = [write EXCEPT ![w] = c],
           UNCHANGED <<file_table, file_count, reset, nameless, cat, created>>,
           \A v \in Writers : write[v] # Closed => v = w,
           WriteInv(w)', write[w].pc # "stores"
    PROVE  FilesInv'
<1>1. /\ Listed' = Listed
      /\ \A v \in Writers : write'[v] = IF v = w THEN c ELSE write[v]
  BY DEF Listed, FilesInv, TypeOK
<1>2. TypeOK'
  BY DEF FilesInv, TypeOK, WriteType
<1>3. \A v \in Writers : WriteInv(v)'
  <2>1. \A v \in Writers : v # w => write'[v] = Closed
    BY <1>1
  <2> QED
    BY <2>1, ClosedIsClosed DEF WriteInv
<1>4. OneOpen'
  BY <1>1 DEF OneOpen
<1>5. RestIsEmpty'
  <2>1. \A v \in Writers : write[v].pc # "stores"
    BY ClosedIsClosed
  <2> QED
    BY <2>1 DEF FilesInv, RestIsEmpty
<1>6. CreatedInv'
  BY <1>1 DEF FilesInv, CreatedInv, File
<1>7. NamesAreUnique' /\ \A r \in Readers : CatInv(r)'
  BY <1>1 DEF FilesInv, NamesAreUnique, CatInv
<1> QED
  BY <1>2, <1>3, <1>4, <1>5, <1>6, <1>7 DEF FilesInv

\* write has found room and no file with the name.
LEMMA CheckKeeps ==
    ASSUME FilesInv, OneWriter, NEW w \in Writers, Check(w)
    PROVE  FilesInv'
<1>1. PICK n \in Names, c \in Contents : IsNew(n) /\ write' = [write EXCEPT ![w] = Begun(n, c)]
  BY DEF Check
<1>2. /\ \A v \in Writers : write[v] = Closed
      /\ HasRoom /\ UNCHANGED <<file_table, file_count, reset, nameless, cat, created>>
  BY DEF Check
<1>3. PICK b \in WriteType : b = Begun(n, c)
  BY Values DEF Begun, Closed, WriteType, FilesInv
<1>4. b.pc = "name" /\ b.name = n /\ b.content = c
  BY <1>3 DEF Begun, Closed
<1>5. write'[w] = b
  BY <1>1, <1>3 DEF FilesInv, TypeOK
<1>6. WriteInv(w)'
  BY <1>1, <1>2, <1>4, <1>5 DEF WriteInv, HasRoom, IsNew, Listed
<1> QED
  BY <1>1, <1>2, <1>3, <1>6, OneWriteMoves, ClosedIsClosed

\* vfs_create_file giving up for want of a buffer keeps the invariant.
LEMMA NoBufferKeeps ==
    ASSUME FilesInv, NEW w \in Writers, NoBuffer(w)
    PROVE  FilesInv'
<1>1. /\ write[w].pc = "name" /\ write' = [write EXCEPT ![w] = Closed]
      /\ UNCHANGED <<file_table, file_count, reset, nameless, cat, created>>
  BY DEF NoBuffer
<1>2. Closed \in WriteType
  BY Values DEF Closed, WriteType, FilesInv
<1>3. write'[w] = Closed
  BY <1>1 DEF FilesInv, TypeOK
<1>4. \A v \in Writers : write[v] # Closed => v = w
  BY <1>1, ClosedIsClosed DEF FilesInv, OneOpen
<1>5. WriteInv(w)'
  BY <1>3, ClosedIsClosed DEF WriteInv
<1> QED
  BY <1>1, <1>2, <1>4, <1>5, OneWriteMoves

\* The name goes into the slot after the last file, where nothing is found.
LEMMA WriteNameKeeps ==
    ASSUME FilesInv, NamesFit, NEW w \in Writers, WriteName(w)
    PROVE  FilesInv'
<1>1. /\ write[w].pc = "name"
      /\ file_table' = [file_table EXCEPT ![file_count].name = Stored[write[w].name]]
      /\ write' = [write EXCEPT ![w].pc = "stores", ![w].slot = file_count, ![w].due = Parts]
      /\ UNCHANGED <<file_count, reset, nameless, cat, created>>
  BY DEF WriteName, NewSlot
<1>2. /\ write[w].name \in Names /\ write[w].content \in Contents
      /\ file_count < MaxFiles /\ IsNew(write[w].name)
      /\ Stored[write[w].name] = write[w].name
  BY <1>1 DEF FilesInv, WriteInv, HasRoom, NamesFit
<1>3. /\ file_count \in Slots /\ file_count \notin Listed /\ Listed \subseteq Slots
      /\ Listed' = Listed /\ write[w] \in WriteType
  BY <1>1, <1>2, Values DEF FilesInv, Listed, Slots
<1>4. \A i \in Slots : /\ file_table'[i].buffer = file_table[i].buffer
                       /\ file_table'[i].name = IF i = file_count THEN write[w].name
                                                 ELSE file_table[i].name
                       /\ i # file_count => file_table'[i] = file_table[i]
  BY <1>1, <1>2, <1>3, Values DEF FilesInv, TypeOK, Node
<1>5. PICK c \in WriteType : c = [write[w] EXCEPT !.pc = "stores", !.slot = file_count, !.due = Parts]
  BY <1>3 DEF WriteType
<1>6. \A v \in Writers : write'[v] = IF v = w THEN c ELSE write[v]
  BY <1>1, <1>5 DEF FilesInv, TypeOK
<1>7. /\ c.pc = "stores" /\ c.slot = file_count /\ c.due = Parts
      /\ c.name = write[w].name /\ c.content = write[w].content
  BY <1>3, <1>5 DEF WriteType
<1>8. \A v \in Writers : write[v] # Closed => v = w
  BY <1>1, ClosedIsClosed DEF FilesInv, OneOpen
<1>9. TypeOK'
  <2>1. file_table' \in [Slots -> Node]
    <3>1. file_table \in [Slots -> Node]
      BY DEF FilesInv, TypeOK
    <3>2. ASSUME NEW i \in Slots
          PROVE  file_table'[i] \in Node
      BY <1>1, <1>2, <3>1 DEF Node
    <3> QED
      BY <1>1, <3>1, <3>2
  <2>2. write' = [write EXCEPT ![w] = c]
    BY <1>1, <1>5 DEF FilesInv, TypeOK
  <2>3. write' \in [Writers -> WriteType]
    BY <2>2 DEF FilesInv, TypeOK, WriteType
  <2> QED
    BY <1>1, <2>1, <2>3 DEF FilesInv, TypeOK, WriteType
<1>10. OneOpen'
  BY <1>6, <1>8 DEF OneOpen
<1>11. \A v \in Writers : WriteInv(v)'
  <2>1. \A v \in Writers \ {w} : WriteInv(v)'
    BY <1>6, <1>8, ClosedIsClosed DEF WriteInv
  <2>2. file_count < reset => file_table[file_count].buffer = Empty
    <3>1. \A v \in Writers : write[v].pc # "stores"
      BY <1>1, <1>8, ClosedIsClosed
    <3>2. file_count >= file_count
      BY <1>3 DEF Slots
    <3> QED
      BY <1>3, <3>1, <3>2 DEF FilesInv, RestIsEmpty
  <2>3. IsNew(write[w].name)'
    <3>1. \A i \in Listed : file_table'[i].name # write[w].name
      BY <1>2, <1>3, <1>4 DEF IsNew
    <3> QED
      BY <1>3, <1>6, <1>7, <3>1 DEF IsNew
  <2>4. \A f \in created : f[1] # write[w].name
    BY <1>2 DEF FilesInv, CreatedInv, IsNew, File
  <2>5. WriteInv(w)'
    <3>1. PICK k : k = file_count
      OBVIOUS
    <3>2. /\ write'[w] = c /\ c.pc = "stores" /\ c.slot = k /\ c.due = Parts
          /\ c.name \in Names /\ c.content \in Contents
      BY <1>2, <1>6, <1>7, <3>1
    <3>3. /\ file_table'[k].name = c.name /\ file_table'[k].buffer = file_table[k].buffer
          /\ file_count' = k /\ reset' = reset /\ created' = created
      BY <1>1, <1>3, <1>4, <1>7, <3>1
    <3>4. /\ k < reset => file_table'[k].buffer = Empty
          /\ IsNew(c.name)' /\ \A f \in created' : f[1] # c.name
      BY <1>7, <2>2, <2>3, <2>4, <3>1, <3>2, <3>3
    <3> QED
      BY <3>2, <3>3, <3>4 DEF WriteInv, Parts
  <2> QED
    BY <2>1, <2>5
<1>12. RestIsEmpty'
  BY <1>1, <1>4, <1>6, <1>8, <1>7, ClosedIsClosed DEF RestIsEmpty, FilesInv
<1>13. CreatedInv'
  BY <1>1, <1>3, <1>4 DEF FilesInv, CreatedInv, File
<1>14. NamesAreUnique' /\ \A r \in Readers : CatInv(r)'
  BY <1>1, <1>3, <1>4 DEF FilesInv, NamesAreUnique, CatInv
<1> QED
  BY <1>9, <1>10, <1>11, <1>12, <1>13, <1>14 DEF FilesInv

\* One of the last two stores of a write, which is done with it or has the
\* other one left.
LEMMA StoreMoves ==
    ASSUME FilesInv, NEW w \in Writers, NEW part \in Parts, StoreDone(w, part)
    PROVE  /\ write[w].pc = "stores" /\ part \in write[w].due
           /\ write[w].name \in Names /\ write[w].content \in Contents
           /\ write[w].slot \in Slots
           /\ \A v \in Writers \ {w} : write[v] = Closed /\ write'[v] = Closed
           /\ write' \in [Writers -> WriteType]
           /\ \/ /\ write[w].due = {part} /\ write'[w] = Closed
                 /\ created' = created \cup {<<write[w].name, write[w].content>>}
              \/ /\ write[w].due = Parts /\ created' = created
                 /\ write'[w].pc = "stores" /\ write'[w].due = Parts \ {part}
                 /\ write'[w].name = write[w].name /\ write'[w].slot = write[w].slot
                 /\ write'[w].content = write[w].content
<1>1. write[w].pc = "stores" /\ part \in write[w].due
  BY DEF StoreDone
<1>2. /\ write[w] \in WriteType /\ write[w].slot \in Slots /\ write[w].due \in SUBSET Parts
      /\ write \in [Writers -> WriteType]
  BY Values DEF FilesInv, TypeOK, WriteType
<1>3. write[w].name \in Names /\ write[w].content \in Contents
  BY <1>1 DEF FilesInv, WriteInv
<1>4. \A v \in Writers \ {w} : write[v] = Closed
  BY <1>1, ClosedIsClosed DEF FilesInv, OneOpen
<1>5. CASE write[w].due = {part}
  <2>1. /\ write' = [write EXCEPT ![w] = Closed]
        /\ created' = created \cup {<<write[w].name, write[w].content>>}
    BY <1>5 DEF StoreDone
  <2>2. Closed \in WriteType
    BY Values DEF Closed, WriteType, FilesInv
  <2> QED
    BY <1>1, <1>2, <1>3, <1>4, <1>5, <2>1, <2>2
<1>6. CASE write[w].due # {part}
  <2>1. write' = [write EXCEPT ![w].due = @ \ {part}] /\ created' = created
    BY <1>6 DEF StoreDone
  <2>2. write[w].due = Parts
    BY <1>1, <1>2, <1>6 DEF Parts
  <2>3. PICK c \in WriteType : c = [write[w] EXCEPT !.due = Parts \ {part}]
    BY <1>2 DEF WriteType
  <2>4. write' = [write EXCEPT ![w] = c]
    BY <1>2, <2>1, <2>2, <2>3
  <2>5. write' \in [Writers -> WriteType] /\ write'[w] = c /\ \A v \in Writers \ {w} : write'[v] = write[v]
    BY <1>2, <2>4
  <2>6. /\ c.pc = "stores" /\ c.due = Parts \ {part} /\ c.name = write[w].name
        /\ c.slot = write[w].slot /\ c.content = write[w].content
    BY <1>1, <1>2, <2>3 DEF WriteType
  <2> QED
    BY <1>1, <1>2, <1>3, <1>4, <2>1, <2>2, <2>5, <2>6
<1> QED
  BY <1>5, <1>6

\* Storing the buffer and the size into the node keeps the invariant, in either order
\* with the count.
LEMMA WriteNodeKeeps ==
    ASSUME FilesInv, NEW w \in Writers, WriteNode(w)
    PROVE  FilesInv'
<1>1. /\ StoreDone(w, "node") /\ UNCHANGED <<file_count, reset, nameless, cat>>
      /\ file_table' = [file_table EXCEPT ![write[w].slot].buffer = write[w].content]
  BY DEF WriteNode
<1>2. "node" \in Parts
  BY DEF Parts
<1>3. PICK i \in Slots : i = write[w].slot
  BY <1>1, <1>2, StoreMoves
<1>4. /\ write[w].pc = "stores" /\ "node" \in write[w].due
      /\ write[w].name \in Names /\ write[w].content \in Contents
      /\ \A v \in Writers \ {w} : write[v] = Closed /\ write'[v] = Closed
      /\ write' \in [Writers -> WriteType]
      /\ \/ /\ write[w].due = {"node"} /\ write'[w] = Closed
            /\ created' = created \cup {<<write[w].name, write[w].content>>}
         \/ /\ write[w].due = Parts /\ created' = created
            /\ write'[w].pc = "stores" /\ write'[w].due = Parts \ {"node"}
            /\ write'[w].name = write[w].name /\ write'[w].slot = i
            /\ write'[w].content = write[w].content
  BY <1>1, <1>2, <1>3, StoreMoves
<1>5. /\ file_table' \in [Slots -> Node]
      /\ \A j \in Slots : /\ file_table'[j].name = file_table[j].name
                          /\ j # i => file_table'[j] = file_table[j]
      /\ file_table'[i].buffer = write[w].content
  BY <1>1, <1>3, <1>4 DEF FilesInv, TypeOK, Node
<1>6. /\ Listed' = Listed /\ Listed \subseteq Slots
      /\ file_count \in 0 .. MaxFiles /\ Slots = 0 .. MaxFiles - 1 /\ MaxFiles \in Nat \ {0}
  BY <1>1, Values DEF Listed, FilesInv, Slots
<1>7. file_table[i].name = write[w].name
  BY <1>3, <1>4 DEF FilesInv, WriteInv
<1>8. TypeOK'
  <2>1. created' \in SUBSET (Names \X Contents)
    BY <1>4 DEF FilesInv, TypeOK
  <2> QED
    BY <1>1, <1>4, <1>5, <2>1 DEF FilesInv, TypeOK, WriteType
<1>9. OneOpen'
  BY <1>4 DEF OneOpen
<1>10. \A v \in Writers : WriteInv(v)'
  <2>1. \A v \in Writers \ {w} : WriteInv(v)'
    BY <1>4, ClosedIsClosed DEF WriteInv
  <2>2. CASE write'[w] = Closed
    BY <2>1, <2>2, ClosedIsClosed DEF WriteInv
  <2>3. CASE write[w].due = Parts /\ write'[w].pc = "stores"
    <3>1. /\ write'[w].due = Parts \ {"node"} /\ write'[w].name = write[w].name
          /\ write'[w].slot = i /\ write'[w].content = write[w].content
      BY <1>4, <2>3, ClosedIsClosed DEF Parts
    <3>2. i = file_count /\ IsNew(write[w].name)
      BY <1>3, <1>4, <2>3 DEF FilesInv, WriteInv, Parts
    <3>3. IsNew(write[w].name)'
      <4>1. \A j \in Listed : file_table'[j].name # write[w].name
        BY <1>5, <1>6, <3>2 DEF IsNew
      <4> QED
        BY <1>6, <3>1, <4>1 DEF IsNew
    <3>4. \A f \in created' : f[1] # write[w].name
      BY <1>4, <2>3, ClosedIsClosed DEF FilesInv, WriteInv
    <3>5. WriteInv(w)'
      BY <1>1, <1>4, <1>5, <1>7, <2>3, <3>1, <3>2, <3>3, <3>4 DEF WriteInv, Parts
    <3> QED
      BY <2>1, <3>5
  <2> QED
    BY <1>4, <2>2, <2>3
<1>11. RestIsEmpty'
  <2> SUFFICES ASSUME NEW j \in Slots, j >= file_count, j < reset,
                      file_table'[j].buffer # Empty
               PROVE  \E v \in Writers : write'[v].pc = "stores" /\ write'[v].slot = j
    BY <1>1 DEF RestIsEmpty
  <2>1. j = i
    <3> SUFFICES ASSUME j # i PROVE FALSE
      OBVIOUS
    <3>1. file_table[j].buffer # Empty
      BY <1>5
    <3>2. \E v \in Writers : write[v].pc = "stores" /\ write[v].slot = j
      BY <3>1 DEF FilesInv, RestIsEmpty
    <3> QED
      BY <1>3, <1>4, <3>2, ClosedIsClosed
  <2>2. "count" \in write[w].due
    BY <1>3, <1>4, <1>6, <2>1 DEF FilesInv, WriteInv
  <2> QED
    BY <1>4, <2>1, <2>2
<1>12. CreatedInv'
  <2>1. write[w].due = {"node"} => i \in Listed
    BY <1>3, <1>4, <1>6 DEF FilesInv, WriteInv, Listed
  <2>2. write[w].due = Parts => i \notin Listed
    BY <1>3, <1>4, <1>6 DEF FilesInv, WriteInv, Listed, Parts
  <2>3. File(i)' = <<write[w].name, write[w].content>>
    BY <1>5, <1>7 DEF File
  <2>4. \A j \in Slots : j # i => File(j)' = File(j)
    BY <1>5 DEF File
  <2>5. File(i) \notin created
    BY <1>4, <1>7 DEF FilesInv, WriteInv, File
  <2>6. ASSUME NEW f \in created'
        PROVE  \E j \in Listed' : File(j)' = f
    <3>1. CASE f = <<write[w].name, write[w].content>> /\ write[w].due = {"node"}
      BY <1>6, <2>1, <2>3, <3>1
    <3>2. CASE f \in created
      <4>1. PICK j \in Listed : File(j) = f
        BY <3>2 DEF FilesInv, CreatedInv
      <4> QED
        BY <1>6, <2>4, <2>5, <3>2, <4>1
    <3> QED
      BY <1>4, <2>6, <3>1, <3>2
  <2>7. ASSUME NEW j \in Listed', j < reset', file_table'[j].buffer # Empty
        PROVE  File(j)' \in created'
    <3>1. CASE j = i
      BY <1>4, <1>6, <2>2, <2>3, <2>7, <3>1
    <3>2. CASE j # i
      <4>1. File(j) \in created
        BY <1>1, <1>5, <1>6, <2>7, <3>2 DEF FilesInv, CreatedInv
      <4> QED
        BY <1>4, <1>6, <2>4, <2>7, <3>2, <4>1
    <3> QED
      BY <3>1, <3>2
  <2> QED
    BY <2>6, <2>7 DEF CreatedInv
<1>13. NamesAreUnique' /\ \A r \in Readers : CatInv(r)'
  BY <1>1, <1>5, <1>6 DEF FilesInv, NamesAreUnique, CatInv
<1> QED
  BY <1>8, <1>9, <1>10, <1>11, <1>12, <1>13 DEF FilesInv

\* file_count++ keeps the invariant: the slot becomes a file's.
LEMMA CountKeeps ==
    ASSUME FilesInv, NEW w \in Writers, Count(w)
    PROVE  FilesInv'
<1>1. /\ StoreDone(w, "count") /\ UNCHANGED <<file_table, reset, nameless, cat>>
      /\ file_count' = write[w].slot + 1
  BY DEF Count, Taken
<1>2. "count" \in Parts
  BY DEF Parts
<1>3. PICK i \in Slots : i = write[w].slot
  BY <1>1, <1>2, StoreMoves
<1>4. /\ write[w].pc = "stores" /\ "count" \in write[w].due
      /\ write[w].name \in Names /\ write[w].content \in Contents
      /\ \A v \in Writers \ {w} : write[v] = Closed /\ write'[v] = Closed
      /\ write' \in [Writers -> WriteType]
      /\ \/ /\ write[w].due = {"count"} /\ write'[w] = Closed
            /\ created' = created \cup {<<write[w].name, write[w].content>>}
         \/ /\ write[w].due = Parts /\ created' = created
            /\ write'[w].pc = "stores" /\ write'[w].due = Parts \ {"count"}
            /\ write'[w].name = write[w].name /\ write'[w].slot = i
            /\ write'[w].content = write[w].content
  BY <1>1, <1>2, <1>3, StoreMoves
<1>5. /\ i = file_count /\ IsNew(write[w].name) /\ file_table[i].name = write[w].name
      /\ "node" \notin write[w].due => file_table[i].buffer = write[w].content
      /\ "node" \in write[w].due /\ i < reset => file_table[i].buffer = Empty
      /\ \A f \in created : f[1] # write[w].name
  BY <1>3, <1>4 DEF FilesInv, WriteInv
<1>6. /\ file_count' = i + 1 /\ i + 1 \in 0 .. MaxFiles
      /\ Listed = 0 .. i - 1 /\ Listed' = 0 .. i
      /\ Slots = 0 .. MaxFiles - 1 /\ MaxFiles \in Nat \ {0} /\ reset' = reset
  BY <1>1, <1>3, <1>5, Values DEF Listed, FilesInv, Slots
<1>7. Listed' = Listed \cup {i} /\ i \notin Listed /\ Listed' \subseteq Slots
  BY <1>6
<1>8. TypeOK'
  <2>1. created' \in SUBSET (Names \X Contents)
    BY <1>4 DEF FilesInv, TypeOK
  <2> QED
    BY <1>1, <1>4, <1>6, <2>1 DEF FilesInv, TypeOK, WriteType
<1>9. OneOpen'
  BY <1>4 DEF OneOpen
<1>10. \A v \in Writers : WriteInv(v)'
  <2>1. \A v \in Writers \ {w} : WriteInv(v)'
    BY <1>4, ClosedIsClosed DEF WriteInv
  <2>2. CASE write'[w] = Closed
    BY <2>1, <2>2, ClosedIsClosed DEF WriteInv
  <2>3. CASE write[w].due = Parts /\ write'[w].pc = "stores"
    <3>1. /\ write'[w].due = Parts \ {"count"} /\ write'[w].name = write[w].name
          /\ write'[w].slot = i /\ write'[w].content = write[w].content
      BY <1>4, <2>3, ClosedIsClosed DEF Parts
    <3>2. \A f \in created' : f[1] # write[w].name
      BY <1>4, <1>5, <2>3, ClosedIsClosed DEF Parts
    <3>3. WriteInv(w)'
      BY <1>1, <1>4, <1>5, <1>6, <2>3, <3>1, <3>2 DEF WriteInv, Parts
    <3> QED
      BY <2>1, <3>3
  <2> QED
    BY <1>4, <2>2, <2>3
<1>11. RestIsEmpty'
  <2> SUFFICES ASSUME NEW j \in Slots, j >= i + 1, j < reset
               PROVE  file_table[j].buffer = Empty
    BY <1>1, <1>6 DEF RestIsEmpty
  <2>1. j >= file_count /\ j # i
    BY <1>5, <1>6
  <2> QED
    BY <1>3, <1>4, <2>1, ClosedIsClosed DEF FilesInv, RestIsEmpty
<1>12. CreatedInv'
  <2>1. \A j \in Slots : File(j)' = File(j)
    BY <1>1 DEF File
  <2>2. ASSUME NEW f \in created'
        PROVE  \E j \in Listed' : File(j)' = f
    <3>1. CASE f \in created
      BY <1>7, <2>1, <3>1 DEF FilesInv, CreatedInv
    <3>2. CASE f = <<write[w].name, write[w].content>> /\ write[w].due = {"count"}
      <4>1. File(i) = f
        BY <1>5, <3>2 DEF File
      <4> QED
        BY <1>7, <2>1, <4>1
    <3> QED
      BY <1>4, <2>2, <3>1, <3>2
  <2>3. ASSUME NEW j \in Listed', j < reset', file_table'[j].buffer # Empty
        PROVE  File(j)' \in created'
    <3>1. CASE j = i
      <4>1. "node" \notin write[w].due
        BY <1>1, <1>5, <2>3, <3>1
      <4>2. File(i) = <<write[w].name, write[w].content>>
        BY <1>5, <4>1 DEF File
      <4> QED
        BY <1>4, <1>7, <2>1, <3>1, <4>1, <4>2 DEF Parts
    <3>2. CASE j # i
      BY <1>1, <1>4, <1>7, <2>1, <2>3, <3>2 DEF FilesInv, CreatedInv
    <3> QED
      BY <3>1, <3>2
  <2> QED
    BY <2>2, <2>3 DEF CreatedInv
<1>13. NamesAreUnique'
  BY <1>1, <1>5, <1>7 DEF FilesInv, NamesAreUnique, IsNew
<1>14. \A r \in Readers : CatInv(r)'
  BY <1>1, <1>7 DEF FilesInv, CatInv
<1> QED
  BY <1>8, <1>9, <1>10, <1>11, <1>12, <1>13, <1>14 DEF FilesInv

\* A step that changes what a cat keeps, to a file that is listed or to none.
LEMMA CatMoves ==
    ASSUME FilesInv, NEW r \in Readers, NEW c \in [name : Names \cup {Empty}, slot : Slots],
           cat' = [cat EXCEPT ![r] = c],
           c # NoFile => c.slot \in Listed /\ file_table[c.slot].name = c.name,
           UNCHANGED <<file_table, file_count, reset, nameless, write, created>>
    PROVE  FilesInv'
<1>1. Listed' = Listed
  BY DEF Listed
<1>2. TypeOK'
  BY DEF FilesInv, TypeOK
<1>3. OneOpen' /\ \A w \in Writers : WriteInv(w)'
  BY <1>1 DEF FilesInv, OneOpen, WriteInv, HasRoom, IsNew
<1>4. \A s \in Readers : CatInv(s)'
  <2>1. \A s \in Readers : cat'[s] = IF s = r THEN c ELSE cat[s]
    BY DEF FilesInv, TypeOK
  <2> QED
    BY <1>1, <2>1 DEF FilesInv, CatInv
<1>5. NamesAreUnique' /\ RestIsEmpty' /\ CreatedInv'
  BY <1>1 DEF FilesInv, NamesAreUnique, RestIsEmpty, CreatedInv, File
<1> QED
  BY <1>2, <1>3, <1>4, <1>5 DEF FilesInv

\* vfs_read_file finding a slot, or cat printing what is there, keeps the invariant.
LEMMA CatKeeps ==
    ASSUME FilesInv, NEW r \in Readers, Cat(r)
    PROVE  FilesInv'
<1>1. CASE Find(r)
  <2>1. PICK n \in Names, i \in Listed :
            file_table[i].name = n /\ cat' = [cat EXCEPT ![r] = [name |-> n, slot |-> i]]
    BY <1>1 DEF Find, Searched
  <2>2. PICK c \in [name : Names \cup {Empty}, slot : Slots] : c = [name |-> n, slot |-> i]
    BY Values DEF FilesInv
  <2>3. c.name = n /\ c.slot = i
    BY <2>2
  <2> QED
    BY <1>1, <2>1, <2>2, <2>3, CatMoves DEF Find
<1>2. CASE PrintFile(r)
  <2>1. NoFile \in [name : Names \cup {Empty}, slot : Slots]
    BY Values DEF FilesInv, NoFile
  <2> QED
    BY <1>2, <2>1, CatMoves DEF PrintFile
<1> QED
  BY <1>1, <1>2 DEF Cat

\* A step in which no variable changes keeps the invariant.
LEMMA StutterKeeps ==
    ASSUME FilesInv, UNCHANGED vars
    PROVE  FilesInv'
<1>1. Listed' = Listed
  BY DEF Listed, vars
<1>2. TypeOK' /\ OneOpen' /\ \A w \in Writers : WriteInv(w)'
  BY <1>1 DEF vars, FilesInv, TypeOK, OneOpen, WriteInv, HasRoom, IsNew
<1>3. NamesAreUnique' /\ RestIsEmpty' /\ CreatedInv' /\ \A r \in Readers : CatInv(r)'
  BY <1>1 DEF vars, FilesInv, NamesAreUnique, RestIsEmpty, CreatedInv, File, CatInv
<1> QED
  BY <1>2, <1>3 DEF FilesInv

\* Every step of vfs.c and its callers keeps the invariant.
LEMMA NextKeeps ==
    ASSUME FilesInv, OneWriter, NamesFit, [Next]_vars
    PROVE  FilesInv'
<1>1. ASSUME NEW w \in Writers, Write(w) PROVE FilesInv'
  BY <1>1, CheckKeeps, NoBufferKeeps, WriteNameKeeps, WriteNodeKeeps, CountKeeps DEF Write
<1> QED
  BY <1>1, VfsInitKeeps, ClearSlotKeeps, CatKeeps, StutterKeeps DEF Next

(***************************************************************************)
(* The inductive invariant, when no write interrupts another (vfs.c, 69)   *)
(* and no name is longer than a slot has room for (vfs.c, 72).             *)
(***************************************************************************)
THEOREM FilesInvariant ==
    ASSUME OneWriter, NamesFit
    PROVE  Spec => []FilesInv
<1>1. FilesInv /\ [Next]_vars => FilesInv'
  BY NextKeeps
<1> QED
  BY <1>1, InitiallyFiles, PTL DEF Spec

(***************************************************************************)
(* What vfs.c keeps has its type: no slot past the table is written, and   *)
(* file_count never passes MAX_FILES.                                      *)
(***************************************************************************)
THEOREM FilesTypeCorrect ==
    ASSUME OneWriter, NamesFit
    PROVE  Spec => []TypeOK
<1>1. FilesInv => TypeOK
  BY DEF FilesInv
<1> QED
  BY <1>1, FilesInvariant, PTL

(***************************************************************************)
(* vfs_create_file's check keeps file names unique for as long as no other *)
(* write comes between it and the store to file_count.                     *)
(***************************************************************************)
THEOREM NamesStayUnique ==
    ASSUME OneWriter, NamesFit
    PROVE  Spec => []NamesAreUnique
<1>1. FilesInv => NamesAreUnique
  BY DEF FilesInv
<1> QED
  BY <1>1, FilesInvariant, PTL

\* A created file is the only one, and so the first one, with its name.
LEMMA CreatedIsFirst == FilesInv => ReadsBack
<1> SUFFICES ASSUME FilesInv, NEW f \in created
             PROVE  \E i \in Listed : /\ File(i) = f
                                      /\ \A j \in Listed : j < i => file_table[j].name # f[1]
  BY DEF ReadsBack
<1>1. PICK i \in Listed : File(i) = f
  BY DEF FilesInv, CreatedInv
<1>2. file_table[i].name = f[1] /\ f[1] # Empty
  BY <1>1, NamesAssumption DEF File, FilesInv, TypeOK
<1>3. \A j \in Listed : file_table[j].name = f[1] => j = i
  BY <1>2 DEF FilesInv, NamesAreUnique
<1>4. i \in Int
  BY DEF Listed, Slots
<1> QED
  BY <1>1, <1>3, <1>4

(***************************************************************************)
(* A file that write has reported created is what cat finds under its      *)
(* name from then on, whichever of write's last two stores comes first.    *)
(***************************************************************************)
THEOREM CreatedReadsBack ==
    ASSUME OneWriter, NamesFit
    PROVE  Spec => []ReadsBack
  BY FilesInvariant, CreatedIsFirst, PTL

\* What a cat has looked up, if it has a buffer, was created.
LEMMA FoundWasCreated == FilesInv => PrintsCreatedFiles
<1> SUFFICES ASSUME FilesInv, NEW r \in Readers, cat[r] # NoFile, cat[r].slot < reset,
                    file_table[cat[r].slot].buffer # Empty
             PROVE  <<cat[r].name, file_table[cat[r].slot].buffer>> \in created
  BY DEF PrintsCreatedFiles
<1>1. cat[r].slot \in Listed /\ file_table[cat[r].slot].name = cat[r].name
  BY DEF FilesInv, CatInv
<1> QED
  BY <1>1 DEF FilesInv, CreatedInv, File

(***************************************************************************)
(* A cat that interrupts a write, or that a write interrupts, prints a     *)
(* file that was created under the name it was asked for, or none.         *)
(***************************************************************************)
THEOREM PrintsOnlyCreated ==
    ASSUME OneWriter, NamesFit
    PROVE  Spec => []PrintsCreatedFiles
  BY FilesInvariant, FoundWasCreated, PTL

----------------------------------------------------------------------------
(* Files implements FileStore.                                             *)

\* What a name finds among slots of different names is the slot with the name.
LEMMA TheSlotWith ==
    ASSUME NEW V, NEW t, \A j, k \in V : t[j].name = t[k].name => j = k,
           NEW j \in V, NEW n, t[j].name = n
    PROVE  t[CHOOSE i \in V : t[i].name = n].buffer = t[j].buffer
<1>1. (CHOOSE i \in V : t[i].name = n) = j
  OBVIOUS
<1> QED
  BY <1>1

\* The visible slots hold files of different names.
LEMMA VisibleNames ==
    ASSUME FilesInv
    PROVE  /\ Visible \in SUBSET Slots /\ IsFiniteSet(Visible)
           /\ \A j \in Visible : file_table[j].name \in Names
           /\ \A j, k \in Visible : file_table[j].name = file_table[k].name => j = k
           /\ \A j \in Visible : Content(file_table[j].name) = file_table[j].buffer
<1>1. Visible \subseteq Slots /\ Visible \subseteq Listed
  BY DEF Visible, Listed
<1>2. \A j \in Visible : file_table[j].name \in Names
  BY DEF FilesInv, TypeOK, CreatedInv, File, Visible
<1>3. \A j, k \in Visible : file_table[j].name = file_table[k].name => j = k
  BY <1>1, <1>2, NamesAssumption DEF FilesInv, NamesAreUnique
<1>4. ASSUME NEW j \in Visible
      PROVE  Content(file_table[j].name) = file_table[j].buffer
  BY <1>3, TheSlotWith DEF Content
<1>5. IsFiniteSet(Visible)
  <2>1. IsFiniteSet(0 .. MaxFiles - 1)
    BY MaxAssumption, FS_Interval
  <2> QED
    BY <1>1, <2>1, FS_Subset DEF Slots
<1> QED
  BY <1>1, <1>2, <1>3, <1>4, <1>5

\* A step after which the same slots are visible, with the same files, is none
\* of the FileStore's.
LEMMA SameFiles ==
    ASSUME FilesInv, FilesInv', Visible' = Visible,
           \A j \in Visible : file_table'[j] = file_table[j]
    PROVE  VisibleFiles' = VisibleFiles
<1> DEFINE N == {file_table[i].name : i \in Visible}
<1>1. {file_table[i].name : i \in Visible}' = N
  OBVIOUS
<1>2. ASSUME NEW n \in N PROVE Content(n)' = Content(n)
  <2>1. PICK j \in Visible : file_table[j].name = n
    OBVIOUS
  <2>2. Content(n) = file_table[j].buffer
    BY <2>1, VisibleNames
  <2>3. \A k, l \in Visible' : file_table'[k].name = file_table'[l].name => k = l
    BY VisibleNames
  <2>4. Content(n)' = file_table'[j].buffer
    BY <2>1, <2>3, TheSlotWith DEF Content
  <2> QED
    BY <2>2, <2>4
<1> QED
  BY <1>1, <1>2 DEF VisibleFiles

\* A step after which one more slot is visible creates the file in it.
LEMMA OneMoreFile ==
    ASSUME FilesInv, FilesInv', NEW i \in Slots, i \notin Visible,
           Visible' = Visible \cup {i},
           \A j \in Visible : file_table'[j] = file_table[j],
           NEW n \in Names, NEW c \in Contents,
           file_table'[i].name = n, file_table'[i].buffer = c
    PROVE  Store!Create(n, c)
<1> DEFINE N == {file_table[j].name : j \in Visible}
<1>1. \A k, l \in Visible' : file_table'[k].name = file_table'[l].name => k = l
  <2>1. Visible' \subseteq Listed'
    BY DEF Visible
  <2>2. \A k \in Visible' : file_table'[k].name \in Names
    BY VisibleNames
  <2> QED
    BY <2>1, <2>2, NamesAssumption DEF FilesInv, NamesAreUnique
<1>2. DOMAIN VisibleFiles = N
  BY DEF VisibleFiles
<1>3. n \notin N
  BY <1>1
<1>4. Cardinality(N) < MaxFiles
  <2> DEFINE f == [j \in Visible |-> file_table[j].name]
  <2>1. IsFiniteSet(Visible) /\ Visible \in SUBSET Slots
    BY VisibleNames
  <2>2. Cardinality(N) = Cardinality(Visible)
    <3>1. f \in [Visible -> N] /\ \A y \in N : \E x \in Visible : f[x] = y
      OBVIOUS
    <3>2. \A x, y \in Visible : f[x] = f[y] => x = y
      BY VisibleNames
    <3> HIDE DEF f, N
    <3> QED
      BY <2>1, <3>1, <3>2, ImageCardinality
  <2>3. /\ IsFiniteSet(Slots) /\ Cardinality(Slots) = MaxFiles
        /\ Cardinality(Visible \cup {i}) <= Cardinality(Slots)
    <3>1. /\ IsFiniteSet(0 .. MaxFiles - 1)
          /\ Cardinality(0 .. MaxFiles - 1) = MaxFiles
      BY MaxAssumption, FS_Interval
    <3> QED
      BY <2>1, <3>1, FS_Subset DEF Slots
  <2>4. Cardinality(Visible \cup {i}) = Cardinality(Visible) + 1
    BY <2>1, FS_AddElement
  <2>5. Cardinality(Visible) \in Nat
    BY <2>1, FS_CardinalityType
  <2> QED
    BY <2>2, <2>3, <2>4, <2>5, MaxAssumption
<1>5. VisibleFiles' = [m \in N \cup {n} |-> IF m = n THEN c ELSE VisibleFiles[m]]
  <2>1. {file_table[j].name : j \in Visible}' = N \cup {n}
    OBVIOUS
  <2>2. ASSUME NEW m \in N \cup {n}
        PROVE  Content(m)' = IF m = n THEN c ELSE VisibleFiles[m]
    <3>1. CASE m = n
      BY <1>1, <3>1, TheSlotWith DEF Content
    <3>2. CASE m # n
      <4>1. PICK j \in Visible : file_table[j].name = m
        BY <3>2
      <4>2. VisibleFiles[m] = file_table[j].buffer
        BY <3>2, <4>1, VisibleNames DEF VisibleFiles
      <4>3. Content(m)' = file_table'[j].buffer
        BY <1>1, <4>1, TheSlotWith DEF Content
      <4> QED
        BY <3>2, <4>1, <4>2, <4>3
    <3> QED
      BY <3>1, <3>2
  <2> QED
    BY <2>1, <2>2 DEF VisibleFiles
<1>6. Store!Cardinality(N) = Cardinality(N)
  BY DEF Cardinality, Store!Cardinality
<1> QED
  BY <1>2, <1>3, <1>4, <1>5, <1>6 DEF Store!Create

\* A store of a write, at any point between the others.
LEMMA WriteNodeShows ==
    ASSUME FilesInv, FilesInv', NEW w \in Writers, WriteNode(w)
    PROVE  [Store!Next]_VisibleFiles
<1>1. /\ StoreDone(w, "node") /\ UNCHANGED <<file_count, reset, nameless, cat>>
      /\ file_table' = [file_table EXCEPT ![write[w].slot].buffer = write[w].content]
      /\ "node" \in Parts
  BY DEF WriteNode, Parts
<1>2. /\ write[w].pc = "stores" /\ "node" \in write[w].due /\ write[w].slot \in Slots
      /\ write[w].name \in Names /\ write[w].content \in Contents
  BY <1>1, StoreMoves
<1>3. PICK i \in Slots : i = write[w].slot
  BY <1>2
<1>4. /\ \A j \in Slots : j # i => file_table'[j] = file_table[j]
      /\ file_table'[i].buffer = write[w].content /\ file_table'[i].name = write[w].name
      /\ Listed' = Listed /\ Listed \subseteq Slots /\ reset' = reset
      /\ write[w].content # Empty
  BY <1>1, <1>2, <1>3, ContentsAssumption DEF FilesInv, TypeOK, Node, WriteInv, Listed
<1>5. i \notin Visible
  BY <1>2, <1>3 DEF FilesInv, WriteInv, Visible
<1>6. Visible' = Visible \cup (IF i \in Listed /\ i < reset THEN {i} ELSE {})
  BY <1>4, <1>5 DEF Visible
<1>7. \A j \in Visible : file_table'[j] = file_table[j]
  BY <1>4, <1>5 DEF Visible
<1>8. CASE i \in Listed /\ i < reset
  BY <1>2, <1>4, <1>5, <1>6, <1>7, <1>8, OneMoreFile DEF Store!Next
<1>9. CASE ~ (i \in Listed /\ i < reset)
  BY <1>6, <1>7, <1>9, SameFiles
<1> QED
  BY <1>8, <1>9

\* file_count++ is the step in which the abstract store gets the file, if the node is
\* written already; otherwise nothing is seen to change.
LEMMA CountShows ==
    ASSUME FilesInv, FilesInv', NEW w \in Writers, Count(w)
    PROVE  [Store!Next]_VisibleFiles
<1>1. /\ StoreDone(w, "count") /\ UNCHANGED <<file_table, reset, nameless, cat>>
      /\ file_count' = write[w].slot + 1 /\ "count" \in Parts
  BY DEF Count, Taken, Parts
<1>2. /\ write[w].pc = "stores" /\ "count" \in write[w].due /\ write[w].slot \in Slots
      /\ write[w].name \in Names /\ write[w].content \in Contents
  BY <1>1, StoreMoves
<1>3. PICK i \in Slots : i = write[w].slot
  BY <1>2
<1>4. /\ i = file_count /\ file_table[i].name = write[w].name
      /\ "node" \notin write[w].due => file_table[i].buffer = write[w].content
      /\ "node" \in write[w].due /\ i < reset => file_table[i].buffer = Empty
      /\ write[w].content # Empty
  BY <1>2, <1>3, ContentsAssumption DEF FilesInv, WriteInv
<1>5. Listed' = Listed \cup {i} /\ i \notin Listed
  BY <1>1, <1>3, <1>4, Values DEF FilesInv, Slots, Listed
<1>6. i \notin Visible
  BY <1>5 DEF Visible
<1>7. Visible' = Visible \cup (IF i < reset /\ file_table[i].buffer # Empty THEN {i} ELSE {})
  BY <1>1, <1>5 DEF Visible
<1>8. CASE i < reset /\ file_table[i].buffer # Empty
  <2>1. file_table[i].buffer = write[w].content
    BY <1>4, <1>8
  <2> QED
    BY <1>1, <1>2, <1>4, <1>6, <1>7, <1>8, <2>1, OneMoreFile DEF Store!Next
<1>9. CASE ~ (i < reset /\ file_table[i].buffer # Empty)
  BY <1>1, <1>7, <1>9, SameFiles
<1> QED
  BY <1>8, <1>9

\* Every other step, the copying of the name included, leaves the files that can be
\* seen as they are.
LEMMA NothingShows ==
    ASSUME FilesInv, FilesInv',
           \/ VfsInit \/ ClearName \/ ClearNode \/ UNCHANGED vars
           \/ \E w \in Writers : Check(w) \/ NoBuffer(w) \/ WriteName(w)
           \/ \E r \in Readers : Cat(r)
    PROVE  VisibleFiles' = VisibleFiles
<1>1. CASE VfsInit
  <2>1. Visible = {} /\ Visible' = {}
    BY <1>1 DEF VfsInit, Visible, Listed, Slots
  <2> QED
    BY <2>1, SameFiles
<1>2. CASE ClearName \/ ClearNode
  <2>1. /\ reset \in Slots /\ Listed' = Listed
        /\ \A j \in Slots : j # reset => file_table'[j] = file_table[j]
        /\ \/ reset' = reset
           \/ reset' = reset + 1 /\ file_table'[reset].buffer = Empty
    <3>1. reset \in Slots => file_table[reset] \in Node
      BY DEF FilesInv, TypeOK
    <3> QED
      BY <1>2, <3>1 DEF ClearName, ClearNode, Listed, FilesInv, TypeOK, Node
  <2>2. /\ \A j \in Slots : j < reset + 1 <=> j < reset \/ j = reset
        /\ ~ (reset < reset)
    BY <2>1 DEF Slots
  <2>3. Visible' = Visible /\ reset \notin Visible
    BY <2>1, <2>2 DEF Visible, Listed
  <2> QED
    BY <2>1, <2>3, SameFiles DEF Visible, Listed
<1>3. ASSUME UNCHANGED <<file_table, file_count, reset>>
      PROVE  VisibleFiles' = VisibleFiles
  <2>1. Visible' = Visible
    BY <1>3 DEF Visible, Listed
  <2> QED
    BY <1>3, <2>1, SameFiles
<1>4. ASSUME NEW w \in Writers, WriteName(w)
      PROVE  VisibleFiles' = VisibleFiles
  <2>1. /\ file_table' = [file_table EXCEPT ![file_count].name = Stored[write[w].name]]
        /\ UNCHANGED <<file_count, reset, nameless>>
    BY <1>4 DEF WriteName, NewSlot
  <2>2. /\ file_count \notin Listed /\ Listed' = Listed
        /\ \A j \in Slots : j # file_count => file_table'[j] = file_table[j]
    BY <2>1, Values DEF FilesInv, TypeOK, Listed
  <2>3. Visible' = Visible /\ \A j \in Visible : file_table'[j] = file_table[j]
    BY <2>1, <2>2, Values DEF Visible, FilesInv
  <2> QED
    BY <2>3, SameFiles
<1> QED
  BY <1>1, <1>2, <1>3, <1>4 DEF vars, Check, NoBuffer, Cat, Find, PrintFile

(***************************************************************************)
(* What cat can see of the file table is a FileStore (vfs.h): a file comes *)
(* all at once, at the later of write's last two stores, stays as it is,   *)
(* and there are never more than MAX_FILES.                                *)
(***************************************************************************)
THEOREM ImplementsFileStore ==
    ASSUME OneWriter, NamesFit
    PROVE  Spec => IsFileStore
<1>1. Init => Store!Init
  <2>1. Init => Visible = {}
    BY DEF Init, Visible, Listed, Slots
  <2> QED
    BY <2>1 DEF Store!Init, VisibleFiles
<1>2. FilesInv /\ FilesInv' /\ [Next]_vars => [Store!Next]_VisibleFiles
  <2> SUFFICES ASSUME FilesInv, FilesInv', [Next]_vars
               PROVE  [Store!Next]_VisibleFiles
    OBVIOUS
  <2>1. ASSUME NEW w \in Writers, Write(w)
        PROVE  [Store!Next]_VisibleFiles
    BY <2>1, WriteNodeShows, CountShows, NothingShows DEF Write
  <2> QED
    BY <2>1, NothingShows DEF Next
<1> QED
  BY <1>1, <1>2, FilesInvariant, PTL DEF Spec, IsFileStore, Store!Spec

----------------------------------------------------------------------------
(***************************************************************************)
(* The string library.  A loop of Strings is a recursive function of its   *)
(* counter; what it returns is its value at the first counter at which it  *)
(* stops.                                                                  *)
(***************************************************************************)
\* A loop that returns val[i] at the first counter i in stop.
Loop(stop, val, g) == g = [i \in Nat |-> IF i \in stop THEN val[i] ELSE g[i + 1]]

\* The counter at which it stops.
First(n, stop) == n \in stop /\ \A m \in 0 .. n - 1 : m \notin stop

\* There is such a function, whatever the counters at which it stops: the value at the
\* least of them that is not below the counter, and any value when there is none.
LEMMA LoopExists ==
    ASSUME NEW stop \in SUBSET Nat, NEW val
    PROVE  \E g : Loop(stop, val, g)
<1> DEFINE after(i) == {j \in Nat : j \in stop /\ i <= j}
           g == [i \in Nat |-> IF after(i) = {} THEN 0 ELSE val[Min(after(i))]]
<1>1. ASSUME NEW i \in Nat
      PROVE  g[i] = IF i \in stop THEN val[i] ELSE g[i + 1]
  <2>1. CASE i \in stop
    <3>1. /\ i \in after(i) /\ after(i) \in SUBSET Nat /\ after(i) # {}
          /\ \A j \in after(i) : i <= j
      <4> HIDE DEF g
      <4> QED
        BY <2>1
    <3>2. Min(after(i)) \in after(i) /\ Min(after(i)) <= i
      <4> HIDE DEF after
      <4> QED
        BY <3>1, MinOfNumbers
    <3>3. Min(after(i)) = i
      <4> HIDE DEF after
      <4> QED
        BY <3>1, <3>2
    <3> HIDE DEF after
    <3> QED
      BY <2>1, <3>1, <3>3
  <2>2. CASE i \notin stop
    <3>1. after(i) = after(i + 1) /\ i + 1 \in Nat
      <4>1. \A j \in Nat : j \in stop => (i <= j <=> i + 1 <= j)
        BY <2>2
      <4> HIDE DEF g
      <4> QED
        BY <4>1
    <3> HIDE DEF after
    <3> QED
      BY <2>2, <3>1
  <2> QED
    BY <2>1, <2>2
<1> HIDE DEF g
<1>2. g = [i \in Nat |-> IF i \in stop THEN val[i] ELSE g[i + 1]]
  <2>1. g = [i \in Nat |-> g[i]]
    BY Zenon DEF g
  <2> QED
    BY <1>1, <2>1, Zenon
<1> QED
  BY <1>2 DEF Loop

\* Entered at 0, the loop returns the value at the first counter at which it stops.
LEMMA LoopEnds ==
    ASSUME NEW stop \in SUBSET Nat, NEW val, NEW g,
           Loop(stop, val, g),
           NEW n, First(n, stop)
    PROVE  g[0] = val[n]
<1>1. ASSUME NEW i \in Nat
      PROVE  g[i] = IF i \in stop THEN val[i] ELSE g[i + 1]
  <2> DEFINE h == [j \in Nat |-> IF j \in stop THEN val[j] ELSE g[j + 1]]
  <2>1. h[i] = IF i \in stop THEN val[i] ELSE g[i + 1]
    OBVIOUS
  <2>2. g = h
    BY DEF Loop
  <2> HIDE DEF h
  <2> QED
    BY <2>1, <2>2
<1> DEFINE Off == {k \in 0 .. n : g[n - k] # val[n]}
<1>2. ASSUME Off # {}
      PROVE  FALSE
  <2>1. Off \in SUBSET Nat
    OBVIOUS
  <2>2. PICK k \in Off : \A j \in Off : k <= j
    <3> HIDE DEF Off
    <3> QED
      BY <1>2, <2>1, FirstOfNumbers
  <2>3. n \in Nat /\ k \in 0 .. n /\ g[n - k] # val[n]
    BY DEF First
  <2>4. k # 0
    BY <1>1, <2>3 DEF First
  <2>5. k - 1 \in 0 .. n /\ k - 1 \notin Off
    BY <2>2, <2>3, <2>4
  <2>6. g[n - (k - 1)] = val[n]
    BY <2>5
  <2>7. n - k \in Nat /\ n - k \in 0 .. n - 1 /\ n - (k - 1) = n - k + 1
    BY <2>3, <2>4
  <2> QED
    BY <1>1, <2>3, <2>6, <2>7 DEF First
<1>3. n \in 0 .. n /\ n - n = 0
  BY DEF First
<1> QED
  BY <1>2, <1>3

\* The bytes of a string, and of memory.
Chars == 1 .. 255

Bytes == 0 .. 255

\* What lies where in the memory of a string: its bytes, the terminator and what is
\* behind.
LEMMA MemoryBytes ==
    ASSUME NEW s \in Seq(Chars), NEW behind \in Seq(Bytes),
           NEW m, m = Memory(s, behind)
    PROVE  /\ Len(s) \in Nat /\ Len(behind) \in Nat
           /\ DOMAIN m = 0 .. Len(s) + Len(behind)
           /\ \A i \in 0 .. Len(s) - 1 : m[i] = s[i + 1] /\ m[i] \in Chars
           /\ m[Len(s)] = 0
           /\ \A i \in 1 .. Len(behind) : m[Len(s) + i] = behind[i]
<1> DEFINE z == s \o <<0>>
           all == z \o behind
<1>1. /\ s \in Seq(Bytes) /\ <<0>> \in Seq(Bytes) /\ Len(<<0>>) = 1 /\ <<0>>[1] = 0
      /\ Len(s) \in Nat /\ Len(behind) \in Nat
      /\ \A i \in 1 .. Len(s) : s[i] \in Chars
  BY StackElements DEF Chars, Bytes
<1>2. /\ z \in Seq(Bytes) /\ Len(z) = Len(s) + 1 /\ z[Len(s) + 1] = 0
      /\ \A i \in 1 .. Len(s) : z[i] = s[i]
  <2>1. z \in Seq(Bytes) /\ Len(z) = Len(s) + Len(<<0>>)
        /\ \A i \in 1 .. Len(s) + Len(<<0>>) :
              z[i] = IF i <= Len(s) THEN s[i] ELSE <<0>>[i - Len(s)]
    BY <1>1, ConcatProperties, Zenon
  <2> HIDE DEF z
  <2> QED
    BY <1>1, <2>1
<1>3. /\ Len(all) = Len(s) + 1 + Len(behind)
      /\ \A i \in 1 .. Len(s) : all[i] = s[i]
      /\ all[Len(s) + 1] = 0
      /\ \A i \in 1 .. Len(behind) : all[Len(s) + 1 + i] = behind[i]
  <2> HIDE DEF z
  <2>1. Len(all) = Len(z) + Len(behind)
        /\ \A i \in 1 .. Len(z) + Len(behind) :
              all[i] = IF i <= Len(z) THEN z[i] ELSE behind[i - Len(z)]
    BY <1>2, ConcatProperties, Zenon
  <2> HIDE DEF all
  <2> QED
    BY <1>1, <1>2, <2>1
<1>4. m = [i \in 0 .. Len(all) - 1 |-> all[i + 1]]
  BY Zenon DEF Memory
<1> HIDE DEF all, z
<1> QED
  BY <1>1, <1>3, <1>4

\* strlen is the index of the first 0.
LEMMA StrlenLoop ==
    ASSUME NEW str, NEW n \in Nat, str[n] = 0, \A m \in 0 .. n - 1 : str[m] # 0
    PROVE  strlen(str) = n
<1> DEFINE stop == {i \in Nat : str[i] = 0}
           val == [i \in Nat |-> i]
<1>1. \E g : g = [i \in Nat |-> IF str[i] = 0 THEN i ELSE g[i + 1]]
  <2>1. PICK g : Loop(stop, val, g)
    <3> HIDE DEF val
    <3>1. stop \in SUBSET Nat
      OBVIOUS
    <3> HIDE DEF stop
    <3> QED
      BY <3>1, LoopExists, Zenon
  <2>2. g = [i \in Nat |-> IF str[i] = 0 THEN i ELSE g[i + 1]]
    BY <2>1 DEF Loop
  <2> QED
    BY <2>2
<1>2. PICK g : /\ g = [i \in Nat |-> IF str[i] = 0 THEN i ELSE g[i + 1]]
               /\ strlen(str) = g[0]
  BY <1>1, Zenon DEF strlen
<1>3. Loop(stop, val, g)
  BY <1>2 DEF Loop
<1>4. stop \in SUBSET Nat /\ First(n, stop)
  BY DEF First
<1>5. g[0] = val[n]
  <2> HIDE DEF stop, val
  <2> QED
    BY ONLY <1>3, <1>4, LoopEnds
<1> QED
  BY <1>2, <1>5

\* A string that starts at m: from a buffer, or from a pointer into one.
Reads(m, s) ==
    /\ s \in Seq(Chars)
    /\ 0 .. Len(s) \subseteq DOMAIN m
    /\ m[Len(s)] = 0
    /\ \A i \in 0 .. Len(s) - 1 : m[i] = s[i + 1]

\* The bytes of a string, none of which is 0, and its terminator.
LEMMA ReadsBytes ==
    ASSUME NEW m, NEW s, Reads(m, s)
    PROVE  /\ Len(s) \in Nat /\ m[Len(s)] = 0
           /\ \A i \in 0 .. Len(s) - 1 : m[i] = s[i + 1] /\ m[i] # 0 /\ m[i] \in Bytes
<1>1. /\ Len(s) \in Nat
      /\ \A i \in 1 .. Len(s) : s[i] \in Chars
  BY StackElements DEF Reads
<1>2. \A i \in 0 .. Len(s) - 1 : i + 1 \in 1 .. Len(s)
  BY <1>1
<1>3. \A c \in Chars : c # 0 /\ c \in Bytes
  BY DEF Chars, Bytes
<1> QED
  BY <1>1, <1>2, <1>3, Zenon DEF Reads

\* The memory of a string is read as the string, whatever is behind the terminator.
LEMMA MemoryReads ==
    ASSUME NEW s \in Seq(Chars), NEW behind \in Seq(Bytes)
    PROVE  Reads(Memory(s, behind), s)
<1> DEFINE m == Memory(s, behind)
<1>1. /\ Len(s) \in Nat /\ Len(behind) \in Nat
      /\ DOMAIN m = 0 .. Len(s) + Len(behind)
      /\ \A i \in 0 .. Len(s) - 1 : m[i] = s[i + 1] /\ m[i] \in Chars
      /\ m[Len(s)] = 0
  BY MemoryBytes, Zenon
<1> HIDE DEF m
<1>2. 0 .. Len(s) \subseteq DOMAIN m
  BY <1>1
<1>3. Reads(m, s)
  BY <1>1, <1>2, Zenon DEF Reads
<1> QED
  BY <1>3 DEF m

\* The bytes in the memory of a string, by themselves.
LEMMA MemoryText ==
    ASSUME NEW s \in Seq(Chars), NEW behind \in Seq(Bytes),
           NEW m, m = Memory(s, behind)
    PROVE  /\ Len(s) \in Nat /\ m[Len(s)] = 0
           /\ \A i \in 0 .. Len(s) - 1 : m[i] = s[i + 1] /\ m[i] # 0 /\ m[i] \in Bytes
  BY MemoryReads, ReadsBytes

\* strlen is the length of the string that is read, and the bytes up to there are the
\* string.
LEMMA ReadsText ==
    ASSUME NEW m, NEW s, Reads(m, s)
    PROVE  strlen(m) = Len(s) /\ Text(m) = s
<1>1. /\ Len(s) \in Nat /\ m[Len(s)] = 0
      /\ \A i \in 0 .. Len(s) - 1 : m[i] = s[i + 1] /\ m[i] # 0
  BY ReadsBytes
<1>2. strlen(m) = Len(s)
  BY <1>1, StrlenLoop
<1>3. Text(m) = [i \in 1 .. Len(s) |-> m[i - 1]]
  BY <1>2, Zenon DEF Text
<1>4. \A i \in 1 .. Len(s) : m[i - 1] = s[i]
  <2> SUFFICES ASSUME NEW i \in 1 .. Len(s)
               PROVE  m[i - 1] = s[i]
    OBVIOUS
  <2>1. i - 1 \in 0 .. Len(s) - 1 /\ (i - 1) + 1 = i
    BY <1>1
  <2> QED
    BY <1>1, <2>1
<1>5. s = [i \in 1 .. Len(s) |-> s[i]]
  BY LenProperties DEF Reads
<1> QED
  BY <1>2, <1>3, <1>4, <1>5

\* strcmp is the difference at the first index where s1 ends or the two differ.
LEMMA StrcmpLoop ==
    ASSUME NEW s1, NEW s2, NEW k \in Nat, ~ (s1[k] # 0 /\ s1[k] = s2[k]),
           \A i \in 0 .. k - 1 : s1[i] # 0 /\ s1[i] = s2[i]
    PROVE  strcmp(s1, s2) = s1[k] - s2[k]
<1> DEFINE stop == {i \in Nat : ~ (s1[i] # 0 /\ s1[i] = s2[i])}
           val == [i \in Nat |-> s1[i] - s2[i]]
<1>1. \E g : g = [i \in Nat |-> IF s1[i] # 0 /\ s1[i] = s2[i] THEN g[i + 1]
                                ELSE s1[i] - s2[i]]
  <2>1. PICK g : Loop(stop, val, g)
    <3> HIDE DEF val
    <3>1. stop \in SUBSET Nat
      OBVIOUS
    <3> HIDE DEF stop
    <3> QED
      BY <3>1, LoopExists, Zenon
  <2>2. g = [i \in Nat |-> IF s1[i] # 0 /\ s1[i] = s2[i] THEN g[i + 1]
                           ELSE s1[i] - s2[i]]
    BY <2>1 DEF Loop
  <2> QED
    BY <2>2
<1>2. PICK g : /\ g = [i \in Nat |-> IF s1[i] # 0 /\ s1[i] = s2[i] THEN g[i + 1]
                                     ELSE s1[i] - s2[i]]
               /\ strcmp(s1, s2) = g[0]
  BY <1>1, Zenon DEF strcmp
<1>3. Loop(stop, val, g)
  BY <1>2 DEF Loop
<1>4. stop \in SUBSET Nat /\ First(k, stop)
  BY DEF First
<1>5. g[0] = val[k]
  <2> HIDE DEF stop, val
  <2> QED
    BY ONLY <1>3, <1>4, LoopEnds
<1> QED
  BY <1>2, <1>5

\* strncmp is the difference there, or 0 if the first n are compared before.
LEMMA StrncmpLoop ==
    ASSUME NEW s1, NEW s2, NEW n \in Nat, NEW k \in 0 .. n,
           k = n \/ ~ (s1[k] # 0 /\ s1[k] = s2[k]),
           \A i \in 0 .. k - 1 : s1[i] # 0 /\ s1[i] = s2[i]
    PROVE  strncmp(s1, s2, n) = IF k = n THEN 0 ELSE s1[k] - s2[k]
<1> DEFINE stop == {i \in Nat : i = n \/ ~ (s1[i] # 0 /\ s1[i] = s2[i])}
           val == [i \in Nat |-> IF i = n THEN 0 ELSE s1[i] - s2[i]]
<1>1. \E g : g = [i \in Nat |->
                     IF i = n THEN 0
                     ELSE IF s1[i] # 0 /\ s1[i] = s2[i] THEN g[i + 1]
                     ELSE s1[i] - s2[i]]
  <2>1. PICK g : Loop(stop, val, g)
    <3> HIDE DEF val
    <3>1. stop \in SUBSET Nat
      OBVIOUS
    <3> HIDE DEF stop
    <3> QED
      BY <3>1, LoopExists, Zenon
  <2>2. g = [i \in Nat |->
                IF i = n THEN 0
                ELSE IF s1[i] # 0 /\ s1[i] = s2[i] THEN g[i + 1]
                ELSE s1[i] - s2[i]]
    BY <2>1 DEF Loop
  <2> QED
    BY <2>2
<1>2. PICK g : /\ g = [i \in Nat |->
                          IF i = n THEN 0
                          ELSE IF s1[i] # 0 /\ s1[i] = s2[i] THEN g[i + 1]
                          ELSE s1[i] - s2[i]]
               /\ strncmp(s1, s2, n) = g[0]
  BY <1>1, Zenon DEF strncmp
<1>3. Loop(stop, val, g)
  BY <1>2 DEF Loop
<1>4. stop \in SUBSET Nat /\ First(k, stop)
  BY DEF First
<1>5. g[0] = val[k]
  <2> HIDE DEF stop, val
  <2> QED
    BY ONLY <1>3, <1>4, LoopEnds
<1> QED
  BY <1>2, <1>5

\* strchr is the first index with the character, unless the string ends before it.
LEMMA StrchrLoop ==
    ASSUME NEW str, NEW ch \in Bytes, NEW k \in Nat, str[k] = ch \/ str[k] = 0,
           \A i \in 0 .. k - 1 : str[i] # ch /\ str[i] # 0
    PROVE  strchr(str, ch) = IF str[k] = ch THEN k ELSE NULL
<1> DEFINE stop == {i \in Nat : str[i] = ch \/ str[i] = 0}
           val == [i \in Nat |-> IF str[i] = ch THEN i ELSE NULL]
<1>0. ch % 256 = ch
  BY DEF Bytes
<1>1. \E g : g = [i \in Nat |-> IF str[i] = ch % 256 THEN i
                                ELSE IF str[i] = 0 THEN NULL ELSE g[i + 1]]
  <2>1. PICK g : Loop(stop, val, g)
    <3> HIDE DEF val
    <3>1. stop \in SUBSET Nat
      OBVIOUS
    <3> HIDE DEF stop
    <3> QED
      BY <3>1, LoopExists, Zenon
  <2>2. g = [i \in Nat |-> IF str[i] = ch % 256 THEN i
                           ELSE IF str[i] = 0 THEN NULL ELSE g[i + 1]]
    BY <1>0, <2>1 DEF Loop
  <2> QED
    BY <2>2
<1>2. PICK g : /\ g = [i \in Nat |-> IF str[i] = ch % 256 THEN i
                                     ELSE IF str[i] = 0 THEN NULL ELSE g[i + 1]]
               /\ strchr(str, ch) = g[0]
  BY <1>1, Zenon DEF strchr
<1>3. Loop(stop, val, g)
  BY <1>0, <1>2 DEF Loop
<1>4. stop \in SUBSET Nat /\ First(k, stop)
  BY DEF First
<1>5. g[0] = val[k]
  <2> HIDE DEF stop, val
  <2> QED
    BY ONLY <1>3, <1>4, LoopEnds
<1> QED
  BY <1>2, <1>5

\* A prefix, by its elements.
LEMMA PrefixElements ==
    ASSUME NEW s \in Seq(Chars), NEW t \in Seq(Chars)
    PROVE  IsPrefix(s, t) <=> Len(s) <= Len(t) /\ \A i \in 1 .. Len(s) : s[i] = t[i]
<1>1. /\ Len(s) \in Nat /\ Len(t) \in Nat
      /\ \A i \in 1 .. Len(s) : s[i] \in Chars
      /\ \A i \in 1 .. Len(t) : t[i] \in Chars
  BY StackElements
<1>2. SubSeq(s, 1, Len(s)) = s
  BY SubSeqFull
<1>3. ASSUME Len(s) <= Len(t)
      PROVE  SubSeq(t, 1, Len(s)) = s <=> \A i \in 1 .. Len(s) : s[i] = t[i]
  <2> DEFINE r == SubSeq(t, 1, Len(s))
  <2>1. \A i \in 1 .. Len(s) : t[i] \in Chars
    BY <1>1, <1>3
  <2>2. /\ r \in Seq(Chars)
        /\ Len(r) = IF 1 <= Len(s) THEN Len(s) - 1 + 1 ELSE 0
        /\ \A i \in 1 .. Len(s) - 1 + 1 : r[i] = t[1 + i - 1]
    BY <1>1, <2>1, SubSeqProperties
  <2> HIDE DEF r
  <2>3. Len(r) = Len(s)
    BY <1>1, <2>2
  <2>4. \A i \in 1 .. Len(s) : r[i] = t[i]
    <3> SUFFICES ASSUME NEW i \in 1 .. Len(s)
                 PROVE  r[i] = t[i]
      OBVIOUS
    <3>1. i \in 1 .. Len(s) - 1 + 1 /\ 1 + i - 1 = i
      BY <1>1
    <3> QED
      BY <2>2, <3>1
  <2>5. ASSUME \A i \in 1 .. Len(s) : s[i] = t[i]
        PROVE  r = s
    <3>1. \A i \in 1 .. Len(r) : r[i] = s[i]
      BY <2>3, <2>4, <2>5
    <3> QED
      BY <2>2, <2>3, <3>1, SeqEqual
  <2> QED
    BY <2>4, <2>5 DEF r
<1> QED
  BY <1>2, <1>3 DEF IsPrefix

\* Where two strings that begin alike go on with different bytes, or one of them ends, the
\* difference of the two bytes orders the strings.
LEMMA FirstDifference ==
    ASSUME NEW s \in Seq(Chars), NEW t \in Seq(Chars),
           NEW k \in Nat, k <= Len(s), k <= Len(t),
           \A i \in 1 .. k : s[i] = t[i],
           NEW x \in Bytes, NEW y \in Bytes,
           x = IF k = Len(s) THEN 0 ELSE s[k + 1],
           y = IF k = Len(t) THEN 0 ELSE t[k + 1],
           x = 0 \/ x # y
    PROVE  Compares(x - y, s, t)
<1>1. /\ Len(s) \in Nat /\ Len(t) \in Nat
      /\ \A i \in 1 .. Len(s) : s[i] \in Int /\ s[i] > 0
      /\ \A i \in 1 .. Len(t) : t[i] \in Int /\ t[i] > 0
  <2>1. \A c \in Chars : c \in Int /\ c > 0
    BY DEF Chars
  <2> QED
    BY <2>1, StackElements, Zenon
<1>2. x \in Int /\ y \in Int
  BY DEF Bytes
<1>3. IsPrefix(s, t) <=> Len(s) <= Len(t) /\ \A i \in 1 .. Len(s) : s[i] = t[i]
  BY PrefixElements
<1>4. s = t <=> Len(s) = Len(t) /\ \A i \in 1 .. Len(s) : s[i] = t[i]
  BY SeqEqual
<1>5. CASE k = Len(s)
  <2>1. IsPrefix(s, t) /\ x = 0
    BY <1>3, <1>5
  <2>2. s = t <=> k = Len(t)
    BY <1>4, <1>5
  <2>3. ASSUME NEW i \in 1 .. Len(s), s[i] < t[i]
        PROVE  FALSE
    BY <1>1, <1>5, <2>3
  <2>4. x - y < 0 <=> k # Len(t)
    <3>1. k # Len(t) => k + 1 \in 1 .. Len(t)
      BY <1>1
    <3> QED
      BY <1>1, <1>2, <2>1, <3>1
  <2>5. x - y = 0 <=> k = Len(t)
    BY <1>1, <1>2, <2>1, <2>4
  <2> QED
    BY <2>1, <2>2, <2>3, <2>4, <2>5 DEF Compares, Before, IsStrictPrefix
<1>6. CASE k # Len(s)
  <2>1. k + 1 \in 1 .. Len(s) /\ x = s[k + 1] /\ x > 0 /\ x # y
    BY <1>1, <1>6
  <2>2. ~ IsPrefix(s, t) /\ s # t
    <3>1. ASSUME Len(s) <= Len(t), \A i \in 1 .. Len(s) : s[i] = t[i]
          PROVE  FALSE
      BY <1>1, <2>1, <3>1
    <3> QED
      BY <1>1, <1>3, <1>4, <3>1
  <2>3. ASSUME x < y
        PROVE  \E i \in 1 .. Len(s) :
                  i <= Len(t) /\ s[i] < t[i] /\ \A j \in 1 .. i - 1 : s[j] = t[j]
    <3>1. k # Len(t) /\ y = t[k + 1]
      BY <1>2, <2>1, <2>3
    <3>2. k + 1 <= Len(t) /\ s[k + 1] < t[k + 1]
      BY <1>1, <2>1, <2>3, <3>1
    <3>3. \A j \in 1 .. (k + 1) - 1 : s[j] = t[j]
      OBVIOUS
    <3> QED
      BY <2>1, <3>2, <3>3
  <2>4. ASSUME NEW i \in 1 .. Len(s), i <= Len(t), s[i] < t[i],
               \A j \in 1 .. i - 1 : s[j] = t[j]
        PROVE  x < y
    <3>1. ~ i <= k
      <4> SUFFICES ASSUME i <= k
                   PROVE  FALSE
        OBVIOUS
      <4>1. i \in 1 .. k /\ s[i] = t[i] /\ s[i] \in Int
        BY <1>1
      <4> QED
        BY <2>4, <4>1
    <3>2. ~ k + 1 < i
      <4> SUFFICES ASSUME k + 1 < i
                   PROVE  FALSE
        OBVIOUS
      <4>1. k + 1 \in 1 .. i - 1
        BY <1>1
      <4>2. s[k + 1] = t[k + 1] /\ k # Len(t)
        BY <1>1, <2>4, <4>1
      <4> QED
        BY <2>1, <4>2
    <3>3. i = k + 1 /\ k # Len(t)
      BY <1>1, <2>4, <3>1, <3>2
    <3> QED
      BY <2>1, <2>4, <3>3
  <2>5. (x - y < 0 <=> x < y) /\ x - y # 0
    BY <1>2, <2>1
  <2> QED
    BY <2>2, <2>3, <2>4, <2>5 DEF Compares, Before, IsStrictPrefix
<1> QED
  BY <1>5, <1>6

\* The two strings agree up to k, where the comparison stops.
Alike(s, t, a, b, n, k) ==
    /\ k <= Len(s) /\ k <= Len(t)
    /\ \A i \in 1 .. k : s[i] = t[i]
    /\ \A i \in 0 .. k - 1 : a[i] # 0 /\ a[i] = b[i]
    /\ k = n \/ ~ (a[k] # 0 /\ a[k] = b[k])
    /\ a[k] \in Bytes /\ b[k] \in Bytes
    /\ a[k] = IF k = Len(s) THEN 0 ELSE s[k + 1]
    /\ b[k] = IF k = Len(t) THEN 0 ELSE t[k + 1]

\* A comparison of n bytes stops somewhere.
LEMMA SameStart ==
    ASSUME NEW s \in Seq(Chars), NEW t \in Seq(Chars),
           NEW a, NEW b, NEW u \in Seq(Bytes), NEW v \in Seq(Bytes),
           a = Memory(s, u), b = Memory(t, v), NEW n \in Nat
    PROVE  \E k \in 0 .. n : Alike(s, t, a, b, n, k)
<1>0. 0 \in Bytes
  BY DEF Bytes
<1>1. /\ Len(s) \in Nat /\ a[Len(s)] = 0
      /\ \A i \in 0 .. Len(s) - 1 : a[i] = s[i + 1] /\ a[i] # 0 /\ a[i] \in Bytes
  BY MemoryText
<1>2. /\ Len(t) \in Nat /\ b[Len(t)] = 0
      /\ \A i \in 0 .. Len(t) - 1 : b[i] = t[i + 1] /\ b[i] # 0 /\ b[i] \in Bytes
  <2>1. b = Memory(t, v) /\ t \in Seq(Chars) /\ v \in Seq(Bytes)
    OBVIOUS
  <2> QED
    BY <2>1, MemoryText, Zenon
<1> DEFINE Stops == {i \in Nat : i = n \/ ~ (a[i] # 0 /\ a[i] = b[i])}
<1>3. PICK k \in Stops : \A i \in Stops : k <= i
  <2>1. Stops \in SUBSET Nat /\ n \in Stops
    OBVIOUS
  <2> HIDE DEF Stops
  <2> QED
    BY <2>1, FirstOfNumbers
<1>4. /\ k \in 0 .. n
      /\ k = n \/ ~ (a[k] # 0 /\ a[k] = b[k])
  <2>1. n \in Stops
    OBVIOUS
  <2>2. k <= n
    BY <1>3, <2>1
  <2> QED
    BY <2>2
<1>5. \A i \in 0 .. k - 1 : a[i] # 0 /\ a[i] = b[i]
  <2> SUFFICES ASSUME NEW i \in 0 .. k - 1
               PROVE  a[i] # 0 /\ a[i] = b[i]
    OBVIOUS
  <2>1. i \in Nat /\ ~ k <= i
    BY <1>4
  <2>2. i \notin Stops
    BY <1>3, <2>1
  <2> QED
    BY <2>1, <2>2
<1>6. k <= Len(s)
  <2> SUFFICES ASSUME ~ k <= Len(s)
               PROVE  FALSE
    OBVIOUS
  <2>1. Len(s) \in 0 .. k - 1
    BY <1>1, <1>4
  <2> QED
    BY <1>1, <1>5, <2>1
<1>7. k <= Len(t)
  <2> SUFFICES ASSUME ~ k <= Len(t)
               PROVE  FALSE
    OBVIOUS
  <2>1. Len(t) \in 0 .. k - 1
    BY <1>2, <1>4
  <2> QED
    BY <1>2, <1>5, <2>1
<1>8. \A i \in 1 .. k : s[i] = t[i]
  <2> SUFFICES ASSUME NEW i \in 1 .. k
               PROVE  s[i] = t[i]
    OBVIOUS
  <2>1. /\ i - 1 \in 0 .. k - 1 /\ (i - 1) + 1 = i
        /\ i - 1 \in 0 .. Len(s) - 1 /\ i - 1 \in 0 .. Len(t) - 1
    BY <1>1, <1>2, <1>4, <1>6, <1>7
  <2>2. a[i - 1] = s[i] /\ b[i - 1] = t[i]
    BY <1>1, <1>2, <2>1
  <2> QED
    BY <1>5, <2>1, <2>2
<1>9. a[k] \in Bytes /\ a[k] = IF k = Len(s) THEN 0 ELSE s[k + 1]
  <2>1. k # Len(s) => k \in 0 .. Len(s) - 1
    BY <1>1, <1>4, <1>6
  <2> QED
    BY <1>0, <1>1, <2>1
<1>10. b[k] \in Bytes /\ b[k] = IF k = Len(t) THEN 0 ELSE t[k + 1]
  <2>1. k # Len(t) => k \in 0 .. Len(t) - 1
    BY <1>2, <1>4, <1>7
  <2> QED
    BY <1>0, <1>2, <2>1
<1> HIDE DEF Stops
<1> QED
  BY <1>4, <1>5, <1>6, <1>7, <1>8, <1>9, <1>10 DEF Alike

\* strcmp orders any two strings as their unsigned bytes do and is 0 only for equal ones,
\* whatever lies behind the terminators (string.h: "negative if s1 < s2").
THEOREM StrcmpCompares ==
    ASSUME NEW s \in Seq(Chars), NEW t \in Seq(Chars),
           NEW u \in Seq(Bytes), NEW v \in Seq(Bytes)
    PROVE  Compares(strcmp(Memory(s, u), Memory(t, v)), s, t)
<1> DEFINE a == Memory(s, u)
           b == Memory(t, v)
<1>1. Len(s) \in Nat
  BY LenProperties
<1>0. PICK k \in 0 .. Len(s) : Alike(s, t, a, b, Len(s), k)
  BY <1>1, SameStart, Zenon
<1>2. /\ k <= Len(s) /\ k <= Len(t)
      /\ \A i \in 1 .. k : s[i] = t[i]
      /\ \A i \in 0 .. k - 1 : a[i] # 0 /\ a[i] = b[i]
      /\ k = Len(s) \/ ~ (a[k] # 0 /\ a[k] = b[k])
      /\ a[k] \in Bytes /\ b[k] \in Bytes
      /\ a[k] = IF k = Len(s) THEN 0 ELSE s[k + 1]
      /\ b[k] = IF k = Len(t) THEN 0 ELSE t[k + 1]
  BY <1>0 DEF Alike
<1> HIDE DEF a, b
<1>3. k \in Nat /\ ~ (a[k] # 0 /\ a[k] = b[k])
  BY <1>1, <1>2
<1>4. strcmp(a, b) = a[k] - b[k]
  BY <1>2, <1>3, StrcmpLoop
<1>5. Compares(a[k] - b[k], s, t)
  BY <1>2, <1>3, FirstDifference, Zenon
<1> QED
  BY <1>4, <1>5 DEF a, b

\* The first n bytes of a string, or all of it if it is shorter.
LEMMA CutElements ==
    ASSUME NEW s \in Seq(Chars), NEW n \in Nat, NEW c, c = Cut(s, n)
    PROVE  /\ c \in Seq(Chars)
           /\ Len(c) = IF n < Len(s) THEN n ELSE Len(s)
           /\ \A i \in 1 .. Len(c) : c[i] = s[i]
<1> DEFINE m == IF n < Len(s) THEN n ELSE Len(s)
<1>1. /\ Len(s) \in Nat
      /\ \A i \in 1 .. Len(s) : s[i] \in Chars
  BY StackElements
<1>2. m \in Nat /\ m <= Len(s)
  BY <1>1
<1>3. c = SubSeq(s, 1, m)
  BY Zenon DEF Cut
<1> HIDE DEF m
<1>4. \A i \in 1 .. m : s[i] \in Chars
  BY <1>1, <1>2
<1>5. /\ c \in Seq(Chars)
      /\ Len(c) = IF 1 <= m THEN m - 1 + 1 ELSE 0
      /\ \A i \in 1 .. m - 1 + 1 : c[i] = s[1 + i - 1]
  BY <1>2, <1>3, <1>4, SubSeqProperties
<1>6. Len(c) = m
  BY <1>2, <1>5
<1>7. \A i \in 1 .. m : c[i] = s[i]
  <2> SUFFICES ASSUME NEW i \in 1 .. m
               PROVE  c[i] = s[i]
    OBVIOUS
  <2>1. i \in 1 .. m - 1 + 1 /\ 1 + i - 1 = i
    BY <1>2
  <2> QED
    BY <1>5, <2>1
<1> QED
  BY <1>5, <1>6, <1>7 DEF m

\* strncmp does the same of their first n bytes.
THEOREM StrncmpCompares ==
    ASSUME NEW s \in Seq(Chars), NEW t \in Seq(Chars),
           NEW u \in Seq(Bytes), NEW v \in Seq(Bytes), NEW n \in Nat
    PROVE  Compares(strncmp(Memory(s, u), Memory(t, v), n), Cut(s, n), Cut(t, n))
<1> DEFINE a == Memory(s, u)
           b == Memory(t, v)
           sn == Cut(s, n)
           tn == Cut(t, n)
<1>1. /\ sn \in Seq(Chars) /\ Len(sn) = IF n < Len(s) THEN n ELSE Len(s)
      /\ \A i \in 1 .. Len(sn) : sn[i] = s[i]
  BY CutElements, Zenon
<1>2. /\ tn \in Seq(Chars) /\ Len(tn) = IF n < Len(t) THEN n ELSE Len(t)
      /\ \A i \in 1 .. Len(tn) : tn[i] = t[i]
  BY CutElements, Zenon
<1>0. PICK k \in 0 .. n : Alike(s, t, a, b, n, k)
  BY SameStart, Zenon
<1>3. /\ k <= Len(s) /\ k <= Len(t)
      /\ \A i \in 1 .. k : s[i] = t[i]
      /\ \A i \in 0 .. k - 1 : a[i] # 0 /\ a[i] = b[i]
      /\ k = n \/ ~ (a[k] # 0 /\ a[k] = b[k])
      /\ a[k] \in Bytes /\ b[k] \in Bytes
      /\ a[k] = IF k = Len(s) THEN 0 ELSE s[k + 1]
      /\ b[k] = IF k = Len(t) THEN 0 ELSE t[k + 1]
  BY <1>0 DEF Alike
<1>4. Len(s) \in Nat /\ Len(t) \in Nat
  BY LenProperties
<1> HIDE DEF a, b, sn, tn
<1>5. strncmp(a, b, n) = IF k = n THEN 0 ELSE a[k] - b[k]
  BY <1>3, StrncmpLoop
<1>6. \A i \in 1 .. k : sn[i] = tn[i]
  BY <1>1, <1>2, <1>3, <1>4
<1>7. CASE k = n
  <2>1. Len(sn) = k /\ Len(tn) = k
    BY <1>1, <1>2, <1>3, <1>4, <1>7
  <2>2. 0 \in Bytes
    BY DEF Bytes
  <2>3. Compares(0 - 0, sn, tn)
    <3>1. /\ k \in Nat /\ k <= Len(sn) /\ k <= Len(tn)
          /\ 0 = IF k = Len(sn) THEN 0 ELSE sn[k + 1]
          /\ 0 = IF k = Len(tn) THEN 0 ELSE tn[k + 1]
      BY <2>1
    <3> QED
      BY <1>1, <1>2, <1>6, <2>2, <3>1, FirstDifference, Zenon
  <2> QED
    BY <1>5, <1>7, <2>3, 0 - 0 = 0 DEF a, b, sn, tn
<1>8. CASE k # n
  <2>1. /\ k \in Nat /\ k <= Len(sn) /\ k <= Len(tn)
        /\ a[k] = 0 \/ a[k] # b[k]
    BY <1>1, <1>2, <1>3, <1>4, <1>8
  <2>2. a[k] = IF k = Len(sn) THEN 0 ELSE sn[k + 1]
    BY <1>1, <1>3, <1>4, <1>8
  <2>3. b[k] = IF k = Len(tn) THEN 0 ELSE tn[k + 1]
    BY <1>2, <1>3, <1>4, <1>8
  <2>4. Compares(a[k] - b[k], sn, tn)
    BY <1>1, <1>2, <1>3, <1>6, <2>1, <2>2, <2>3, FirstDifference, Zenon
  <2> QED
    BY <1>5, <1>8, <2>4 DEF a, b, sn, tn
<1> QED
  BY <1>7, <1>8

\* strcpy into a buffer that the string fits into leaves exactly that string there, and
\* every byte behind its terminator as it was.
THEOREM StrcpyCopies ==
    ASSUME NEW s \in Seq(Chars), NEW t \in Seq(Chars),
           NEW u \in Seq(Bytes), NEW v \in Seq(Bytes), Len(t) <= Len(s) + Len(u)
    PROVE  /\ Text(strcpy(Memory(s, u), Memory(t, v))) = t
           /\ \A i \in DOMAIN Memory(s, u) :
                 i > Len(t) => strcpy(Memory(s, u), Memory(t, v))[i] = Memory(s, u)[i]
<1> DEFINE a == Memory(s, u)
           b == Memory(t, v)
           c == strcpy(a, b)
<1>1. Len(s) \in Nat /\ Len(u) \in Nat /\ DOMAIN a = 0 .. Len(s) + Len(u)
  BY MemoryBytes, Zenon
<1>2. /\ Len(t) \in Nat /\ b[Len(t)] = 0
      /\ \A i \in 0 .. Len(t) - 1 : b[i] = t[i + 1]
  BY MemoryReads, LenProperties, Zenon DEF Reads
<1>3. c = [i \in DOMAIN a |-> IF i < Len(t) + 1 THEN b[i] ELSE a[i]]
  <2>1. strlen(b) = Len(t)
    BY MemoryReads, ReadsText, Zenon
  <2> QED
    BY <2>1, Zenon DEF strcpy, memcpy
<1> HIDE DEF a, b, c
<1>4. \A i \in 0 .. Len(t) : c[i] = b[i]
  BY <1>1, <1>2, <1>3
<1>5. Reads(c, t)
  <2>1. /\ Len(t) \in 0 .. Len(t) /\ 0 .. Len(t) \subseteq DOMAIN a
        /\ \A i \in 0 .. Len(t) - 1 : i \in 0 .. Len(t)
    BY <1>1, <1>2
  <2>2. DOMAIN c = DOMAIN a
    BY <1>3, Zenon
  <2> QED
    BY <1>2, <1>4, <2>1, <2>2, Zenon DEF Reads
<1>6. Text(c) = t
  BY <1>5, ReadsText
<1>7. \A i \in DOMAIN a : i > Len(t) => c[i] = a[i]
  BY <1>1, <1>2, <1>3
<1> QED
  BY <1>6, <1>7 DEF a, b, c

\* strchr finds the first place of a character, the terminator's included, and NULL only
\* if the character is nowhere in the string.
THEOREM StrchrFinds ==
    ASSUME NEW m, NEW s, Reads(m, s), NEW c \in Bytes
    PROVE  \/ /\ strchr(m, c) = NULL
              /\ \A i \in 0 .. Len(s) : m[i] # c
           \/ /\ strchr(m, c) \in 0 .. Len(s)
              /\ m[strchr(m, c)] = c
              /\ \A i \in 0 .. strchr(m, c) - 1 : m[i] # c
<1> DEFINE Stops == {i \in Nat : i <= Len(s) /\ (m[i] = c \/ m[i] = 0)}
<1>1. /\ Len(s) \in Nat /\ m[Len(s)] = 0
      /\ \A i \in 0 .. Len(s) - 1 : m[i] # 0
  BY ReadsBytes
<1>2. PICK k \in Stops : \A i \in Stops : k <= i
  <2>1. Stops \in SUBSET Nat /\ Len(s) \in Stops
    BY <1>1
  <2> HIDE DEF Stops
  <2> QED
    BY <2>1, FirstOfNumbers
<1>3. k \in Nat /\ k <= Len(s) /\ (m[k] = c \/ m[k] = 0)
  OBVIOUS
<1>4. \A i \in 0 .. k - 1 : m[i] # c /\ m[i] # 0
  <2> SUFFICES ASSUME NEW i \in 0 .. k - 1
               PROVE  m[i] # c /\ m[i] # 0
    OBVIOUS
  <2>1. i \in Nat /\ i <= Len(s) /\ ~ k <= i
    BY <1>1, <1>3
  <2>2. i \notin Stops
    BY <1>2, <2>1
  <2> QED
    BY <2>1, <2>2
<1> HIDE DEF Stops
<1>5. strchr(m, c) = IF m[k] = c THEN k ELSE NULL
  BY <1>3, <1>4, StrchrLoop
<1>6. CASE m[k] = c
  BY <1>1, <1>3, <1>4, <1>5, <1>6
<1>7. CASE m[k] # c
  <2>1. k = Len(s)
    <3>1. k # Len(s) => k \in 0 .. Len(s) - 1
      BY <1>1, <1>3
    <3> QED
      BY <1>1, <1>3, <1>7, <3>1
  <2>2. \A i \in 0 .. Len(s) : i = k \/ i \in 0 .. k - 1
    BY <1>1, <2>1
  <2>3. \A i \in 0 .. Len(s) : m[i] # c
    BY <1>4, <1>7, <2>2
  <2> QED
    BY <1>5, <1>7, <2>3
<1> QED
  BY <1>6, <1>7

----------------------------------------------------------------------------
(***************************************************************************)
(* The conversions of numbers.  print_uint and list_number take a number   *)
(* apart digit by digit: what holds of 0, and of a number if it does of    *)
(* its tenth, holds of every number (NumbersByDigits).                     *)
(***************************************************************************)
\* The function by which FoldLeft computes Value, over the sets of positions S.
FoldOver(q, base, S, it) ==
    it = [s \in SUBSET S |-> IF s = {} THEN 0 ELSE it[s \ {Max(s)}] * base + q[Max(s)]]

FoldTo(q, base, n, it) == FoldOver(q, base, 1 .. n, it)

\* What it is after each digit.
FoldSteps(q, base, n, it) ==
    /\ it[{}] = 0
    /\ \A k \in 1 .. n : it[1 .. k] = it[1 .. k - 1] * base + q[k]

\* Two strings of digits that agree up to n.
SameTo(q, p, n) == \A i \in 1 .. n : q[i] = p[i]

\* Value is that function of all the positions, once there is one.
LEMMA ValueOfFold ==
    ASSUME NEW q, NEW base, \E it : FoldOver(q, base, DOMAIN q, it)
    PROVE  \E it : FoldOver(q, base, DOMAIN q, it) /\ Value(q, base) = it[DOMAIN q]
<1>1. PICK it : /\ it = [s \in SUBSET DOMAIN q |->
                            IF s = {} THEN 0 ELSE it[s \ {Max(s)}] * base + q[Max(s)]]
                /\ Value(q, base) = it[DOMAIN q]
  BY Zenon DEF Value, FoldLeft, MapThenFoldSet, FoldOver
<1> QED
  BY <1>1 DEF FoldOver

\* The last of the positions up to n.
LEMMA MaxOfInterval ==
    ASSUME NEW n \in Nat, NEW S \in SUBSET (1 .. n), n \in S
    PROVE  Max(S) = n
<1>1. \A y \in S : n >= y
  OBVIOUS
<1>2. Max(S) \in S /\ \A y \in S : Max(S) >= y
  BY <1>1, Zenon DEF Max
<1>3. Max(S) \in 1 .. n /\ Max(S) >= n
  BY <1>2
<1> QED
  BY <1>3

\* There is one, whatever the number of digits.
LEMMA FoldExists ==
    ASSUME NEW q, NEW base, NEW n \in Nat
    PROVE  \E it : FoldOver(q, base, 1 .. n, it)
<1> DEFINE Reached == {k \in Nat : \E it : FoldOver(q, base, 1 .. k, it)}
<1>1. 0 \in Reached
  <2> DEFINE it == [s \in SUBSET (1 .. 0) |-> 0]
  <2>1. 1 .. 0 = {}
    OBVIOUS
  <2>2. \A s \in SUBSET (1 .. 0) : s = {}
    BY <2>1
  <2>3. it = [s \in SUBSET (1 .. 0) |->
                 IF s = {} THEN 0 ELSE it[s \ {Max(s)}] * base + q[Max(s)]]
    BY <2>2, Zenon
  <2> QED
    BY <2>3 DEF FoldOver
<1>2. ASSUME NEW k \in Nat \ {0}, k - 1 \in Reached
      PROVE  k \in Reached
  <2>1. PICK r : FoldOver(q, base, 1 .. k - 1, r)
    BY <1>2
  <2>2. ASSUME NEW s \in SUBSET (1 .. k - 1)
        PROVE  r[s] = IF s = {} THEN 0 ELSE r[s \ {Max(s)}] * base + q[Max(s)]
    BY <2>1, Zenon DEF FoldOver
  <2> DEFINE it == [s \in SUBSET (1 .. k) |->
                       IF k \in s THEN r[s \ {k}] * base + q[k] ELSE r[s]]
  <2>3. ASSUME NEW s \in SUBSET (1 .. k)
        PROVE  it[s] = IF s = {} THEN 0 ELSE it[s \ {Max(s)}] * base + q[Max(s)]
    <3>1. CASE k \in s
      <4>1. Max(s) = k
        BY <3>1, MaxOfInterval
      <4>2. s # {} /\ s \ {k} \in SUBSET (1 .. k) /\ k \notin s \ {k}
        BY <3>1
      <4>3. it[s] = r[s \ {k}] * base + q[k]
        BY <3>1, Zenon
      <4>4. it[s \ {k}] = r[s \ {k}]
        BY <4>2, Zenon
      <4> HIDE DEF it
      <4> QED
        BY <4>1, <4>2, <4>3, <4>4, Zenon
    <3>2. CASE k \notin s
      <4>1. s \in SUBSET (1 .. k - 1)
        BY <3>2
      <4>2. s \ {Max(s)} \in SUBSET (1 .. k) /\ k \notin s \ {Max(s)}
        BY <3>2, Zenon
      <4>3. it[s] = r[s] /\ it[s \ {Max(s)}] = r[s \ {Max(s)}]
        BY <3>2, <4>2, Zenon
      <4> HIDE DEF it
      <4> QED
        BY <2>2, <4>1, <4>3, Zenon
    <3> QED
      BY <3>1, <3>2, Zenon
  <2>4. it = [s \in SUBSET (1 .. k) |-> it[s]]
    BY Zenon
  <2> HIDE DEF it
  <2>5. it = [s \in SUBSET (1 .. k) |->
                 IF s = {} THEN 0 ELSE it[s \ {Max(s)}] * base + q[Max(s)]]
    BY <2>3, <2>4, Zenon
  <2> QED
    BY <2>5 DEF FoldOver
<1>3. Reached = Nat
  <2>1. Reached \in SUBSET Nat
    OBVIOUS
  <2> HIDE DEF Reached
  <2> QED
    BY <1>1, <1>2, <2>1, NumbersOneByOne
<1> QED
  BY <1>3

\* Every digit multiplies the value so far by the base and adds the digit.
LEMMA FoldStep ==
    ASSUME NEW q, NEW base, NEW n \in Nat, NEW it, FoldTo(q, base, n, it)
    PROVE  FoldSteps(q, base, n, it)
<1>1. ASSUME NEW s \in SUBSET (1 .. n)
      PROVE  it[s] = IF s = {} THEN 0 ELSE it[s \ {Max(s)}] * base + q[Max(s)]
  BY Zenon DEF FoldTo, FoldOver
<1>2. ASSUME NEW k \in 1 .. n
      PROVE  it[1 .. k] = it[1 .. k - 1] * base + q[k]
  <2>1. 1 .. k \in SUBSET (1 .. n) /\ k \in 1 .. k /\ 1 .. k # {} /\ k \in Nat
    OBVIOUS
  <2>2. Max(1 .. k) = k
    BY <2>1, MaxOfInterval
  <2>3. (1 .. k) \ {k} = 1 .. k - 1
    OBVIOUS
  <2> QED
    BY <1>1, <2>1, <2>2, <2>3, Zenon
<1>3. it[{}] = 0
  BY <1>1, Zenon
<1> QED
  BY <1>2, <1>3 DEF FoldSteps

\* The value of the first digits depends on no others.
LEMMA FoldSame ==
    ASSUME NEW base, NEW q, NEW n \in Nat, NEW it, FoldTo(q, base, n, it),
           NEW p, NEW m \in Nat, NEW jt, FoldTo(p, base, m, jt),
           NEW l \in Nat, l <= n, l <= m, SameTo(q, p, l)
    PROVE  it[1 .. l] = jt[1 .. l]
<1>1. /\ it[{}] = 0
      /\ \A k \in 1 .. n : it[1 .. k] = it[1 .. k - 1] * base + q[k]
  <2>1. FoldSteps(q, base, n, it)
    BY FoldStep
  <2> QED
    BY <2>1, Zenon DEF FoldSteps
<1>2. /\ jt[{}] = 0
      /\ \A k \in 1 .. m : jt[1 .. k] = jt[1 .. k - 1] * base + p[k]
  <2>1. FoldSteps(p, base, m, jt)
    BY FoldStep
  <2> QED
    BY <2>1, Zenon DEF FoldSteps
<1> DEFINE Off == {k \in 0 .. l : it[1 .. k] # jt[1 .. k]}
<1>3. 0 \notin Off
  <2>1. 1 .. 0 = {}
    OBVIOUS
  <2> QED
    BY <1>1, <1>2, <2>1, Zenon
<1>4. ASSUME NEW k \in 1 .. l, k - 1 \notin Off
      PROVE  k \notin Off
  <2>1. k - 1 \in 0 .. l /\ k \in 1 .. n /\ k \in 1 .. m /\ k \in 0 .. l
    OBVIOUS
  <2>2. it[1 .. k - 1] = jt[1 .. k - 1]
    BY <1>4, <2>1, Zenon
  <2>3. q[k] = p[k]
    BY Zenon DEF SameTo
  <2>4. it[1 .. k] = jt[1 .. k]
    BY <1>1, <1>2, <2>1, <2>2, <2>3, Zenon
  <2> QED
    BY <2>4, Zenon
<1>5. Off = {}
  <2> SUFFICES ASSUME Off # {}
               PROVE  FALSE
    OBVIOUS
  <2>1. Off \in SUBSET Nat /\ \A k \in Off : k <= l
    OBVIOUS
  <2> HIDE DEF Off
  <2>2. PICK k \in Off : \A j \in Off : k <= j
    BY <2>1, FirstOfNumbers
  <2>3. k \in 1 .. l /\ k - 1 \in Nat /\ ~ k <= k - 1
    BY <1>3, <2>1
  <2>4. k - 1 \notin Off
    BY <2>2, <2>3
  <2> QED
    BY <1>4, <2>3, <2>4
<1>6. l \in 0 .. l
  OBVIOUS
<1> QED
  BY <1>5, <1>6, Zenon

\* Value is the function's value for all the digits.
LEMMA ValueFolds ==
    ASSUME NEW q, NEW base, NEW n \in Nat, DOMAIN q = 1 .. n
    PROVE  \E it : FoldTo(q, base, n, it) /\ Value(q, base) = it[1 .. n]
<1>1. \E it : FoldOver(q, base, DOMAIN q, it)
  BY FoldExists, Zenon
<1> QED
  BY <1>1, ValueOfFold, Zenon DEF FoldTo

\* The value of no digits is 0, and one more digit multiplies by the base and adds the
\* digit.
LEMMA ValueSteps ==
    ASSUME NEW base \in Nat, NEW q \in Seq(Nat), NEW x \in Nat
    PROVE  /\ Value(<<>>, base) = 0
           /\ Value(Append(q, x), base) = Value(q, base) * base + x
<1>1. ASSUME NEW p \in Seq(Nat)
      PROVE  \E it : FoldTo(p, base, Len(p), it) /\ Value(p, base) = it[1 .. Len(p)]
  <2>1. DOMAIN p = 1 .. Len(p) /\ Len(p) \in Nat
    BY LenProperties
  <2> QED
    BY <2>1, ValueFolds, Zenon
<1>2. Value(<<>>, base) = 0
  <2>1. <<>> \in Seq(Nat) /\ Len(<<>>) = 0 /\ 1 .. 0 = {}
    BY EmptySeq
  <2>2. PICK it : FoldTo(<<>>, base, 0, it) /\ Value(<<>>, base) = it[{}]
    BY <1>1, <2>1, Zenon
  <2>3. 0 \in Nat
    OBVIOUS
  <2> QED
    BY <2>2, <2>3, FoldStep DEF FoldSteps
<1> DEFINE r == Append(q, x)
<1>3. /\ r \in Seq(Nat) /\ Len(r) = Len(q) + 1 /\ Len(q) \in Nat
      /\ \A i \in 1 .. Len(q) : r[i] = q[i]
      /\ r[Len(q) + 1] = x
  BY AppendProperties, LenProperties
<1> HIDE DEF r
<1>4. PICK it : FoldTo(q, base, Len(q), it) /\ Value(q, base) = it[1 .. Len(q)]
  BY <1>1
<1>5. PICK jt : FoldTo(r, base, Len(r), jt) /\ Value(r, base) = jt[1 .. Len(r)]
  BY <1>1, <1>3
<1>6. jt[1 .. Len(r)] = jt[1 .. Len(q)] * base + x
  <2>1. Len(r) \in Nat /\ Len(r) \in 1 .. Len(r) /\ Len(r) - 1 = Len(q) /\ r[Len(r)] = x
    BY <1>3
  <2>2. jt[1 .. Len(r)] = jt[1 .. Len(r) - 1] * base + r[Len(r)]
    <3>1. FoldSteps(r, base, Len(r), jt)
      BY <1>5, <2>1, FoldStep
    <3> QED
      BY <2>1, <3>1, Zenon DEF FoldSteps
  <2> QED
    BY <2>1, <2>2, Zenon
<1>7. jt[1 .. Len(q)] = it[1 .. Len(q)]
  <2>1. /\ Len(q) \in Nat /\ Len(r) \in Nat /\ Len(q) <= Len(r) /\ Len(q) <= Len(q)
        /\ SameTo(q, r, Len(q))
    BY <1>3 DEF SameTo
  <2>2. it[1 .. Len(q)] = jt[1 .. Len(q)]
    BY <1>4, <1>5, <2>1, FoldSame
  <2> QED
    BY <2>2
<1>8. Value(r, base) = Value(q, base) * base + x
  BY <1>4, <1>5, <1>6, <1>7, Zenon
<1> QED
  BY <1>2, <1>8 DEF r

\* A function of the numbers up to last that takes them apart from the last digit on, with
\* h[n] as what is done with the digit of n.
ByDigits(h, f, last) ==
    /\ f[0] = <<>>
    /\ \A n \in 1 .. last : f[n] = h[n][f[n \div 10]]

\* What the loops go on with is less than what they had.
LEMMA TenthIsLess ==
    ASSUME NEW n \in Nat \ {0}
    PROVE  n \div 10 \in 0 .. n - 1
  OBVIOUS

\* There is at most one such function.
LEMMA ByDigitsUnique ==
    ASSUME NEW h, NEW f, NEW g, NEW m \in Nat, NEW l \in 0 .. m,
           ByDigits(h, f, l), ByDigits(h, g, m)
    PROVE  \A n \in 0 .. l : f[n] = g[n]
<1> DEFINE Off == {n \in 0 .. l : f[n] # g[n]}
<1>1. Off = {}
  <2> SUFFICES ASSUME Off # {}
               PROVE  FALSE
    OBVIOUS
  <2>1. Off \in SUBSET Nat
    OBVIOUS
  <2>2. PICK n \in Off : \A j \in Off : n <= j
    <3> HIDE DEF Off
    <3> QED
      BY <2>1, FirstOfNumbers
  <2>3. n \in 0 .. l /\ f[n] # g[n]
    OBVIOUS
  <2>4. n # 0
    BY <2>3 DEF ByDigits
  <2>5. n \in Nat \ {0} /\ n \in 1 .. l /\ n \in 1 .. m
    BY <2>3, <2>4
  <2>6. n \div 10 \in 0 .. n - 1
    BY <2>5, TenthIsLess
  <2>7. n \div 10 \in 0 .. l /\ ~ n <= n \div 10
    BY <2>5, <2>6
  <2>8. f[n \div 10] = g[n \div 10]
    BY <2>2, <2>7
  <2>9. f[n] = h[n][f[n \div 10]] /\ g[n] = h[n][g[n \div 10]]
    BY <2>5, Zenon DEF ByDigits
  <2> QED
    BY <2>3, <2>8, <2>9, Zenon
<1> QED
  BY <1>1

\* There is one up to any number.
LEMMA ByDigitsUpTo ==
    ASSUME NEW h, NEW n \in Nat
    PROVE  \E f : ByDigits(h, f, n)
<1> DEFINE Reached == {k \in Nat : \E f : ByDigits(h, f, k)}
<1>1. 0 \in Reached
  <2> DEFINE f == [k \in {0} |-> <<>>]
  <2>1. f[0] = <<>> /\ 1 .. 0 = {}
    OBVIOUS
  <2>2. ByDigits(h, f, 0)
    BY <2>1, Zenon DEF ByDigits
  <2> QED
    BY <2>2
<1>2. ASSUME NEW k \in Nat \ {0}, k - 1 \in Reached
      PROVE  k \in Reached
  <2>1. PICK g : ByDigits(h, g, k - 1)
    BY <1>2
  <2> DEFINE f == [i \in 0 .. k |-> IF i = k THEN h[k][g[k \div 10]] ELSE g[i]]
  <2>2. k \div 10 \in 0 .. k - 1
    BY TenthIsLess
  <2>3. \A i \in 0 .. k - 1 : i \in 0 .. k /\ i # k
    OBVIOUS
  <2>4. \A i \in 0 .. k - 1 : f[i] = g[i]
    BY <2>3, Zenon
  <2>5. f[k] = h[k][g[k \div 10]]
    OBVIOUS
  <2> HIDE DEF f
  <2>6. f[0] = <<>>
    <3>1. 0 \in 0 .. k - 1
      OBVIOUS
    <3> QED
      BY <2>1, <2>4, <3>1, Zenon DEF ByDigits
  <2>7. ASSUME NEW i \in 1 .. k
        PROVE  f[i] = h[i][f[i \div 10]]
    <3>1. CASE i = k
      BY <2>2, <2>4, <2>5, <3>1, Zenon
    <3>2. CASE i # k
      <4>1. i \in 1 .. k - 1 /\ i \in 0 .. k - 1 /\ i \in Nat \ {0}
        BY <3>2
      <4>2. i \div 10 \in 0 .. i - 1
        BY <4>1, TenthIsLess
      <4>3. i \div 10 \in 0 .. k - 1
        BY <4>1, <4>2
      <4>4. g[i] = h[i][g[i \div 10]]
        BY <2>1, <4>1, Zenon DEF ByDigits
      <4> QED
        BY <2>4, <4>1, <4>3, <4>4, Zenon
    <3> QED
      BY <3>1, <3>2
  <2>8. ByDigits(h, f, k)
    BY <2>6, <2>7, Zenon DEF ByDigits
  <2> QED
    BY <2>8
<1>3. Reached = Nat
  <2>1. Reached \in SUBSET Nat
    OBVIOUS
  <2> HIDE DEF Reached
  <2> QED
    BY <1>1, <1>2, <2>1, NumbersOneByOne
<1> QED
  BY <1>3

\* There is one for all numbers, and its values are of the kind that h keeps.
LEMMA ByDigitsExists ==
    ASSUME NEW V, <<>> \in V, NEW h \in [Nat -> [V -> V]]
    PROVE  \E f : /\ f = [n \in Nat |-> IF n = 0 THEN <<>> ELSE h[n][f[n \div 10]]]
                  /\ \A n \in Nat : f[n] \in V
<1> DEFINE part(n) == CHOOSE f : ByDigits(h, f, n)
           f == [n \in Nat |-> part(n)[n]]
<1>1. \A n \in Nat : ByDigits(h, part(n), n)
  BY ByDigitsUpTo, Zenon
<1> HIDE DEF part
<1>2. ASSUME NEW n \in Nat
      PROVE  f[n] = IF n = 0 THEN <<>> ELSE h[n][f[n \div 10]]
  <2>1. CASE n = 0
    BY <1>1, <2>1, Zenon DEF ByDigits
  <2>2. CASE n # 0
    <3>1. n \in Nat \ {0} /\ n \in 1 .. n
      BY <2>2
    <3>2. n \div 10 \in 0 .. n - 1
      BY <3>1, TenthIsLess
    <3> DEFINE m == n \div 10
    <3>3. m \in Nat /\ m \in 0 .. n /\ m \in 0 .. m
      BY <3>1, <3>2
    <3> HIDE DEF m
    <3>4. \A i \in 0 .. m : part(m)[i] = part(n)[i]
      BY <1>1, <3>3, ByDigitsUnique
    <3>5. part(n)[n] = h[n][part(n)[m]]
      BY <1>1, <3>1, Zenon DEF ByDigits, m
    <3>6. f[n] = part(n)[n] /\ f[m] = part(m)[m]
      BY <3>3, Zenon
    <3> HIDE DEF f
    <3> QED
      BY <2>2, <3>3, <3>4, <3>5, <3>6, Zenon DEF m
  <2> QED
    BY <2>1, <2>2
<1>3. f = [n \in Nat |-> f[n]]
  BY Zenon
<1> HIDE DEF f
<1>4. f = [n \in Nat |-> IF n = 0 THEN <<>> ELSE h[n][f[n \div 10]]]
  BY <1>2, <1>3, Zenon
<1>5. \A n \in Nat : f[n] \in V
  <2> DEFINE Good == {n \in Nat : f[n] \in V}
  <2>1. 0 \in Good
    BY <1>2
  <2>2. ASSUME NEW n \in Nat \ {0}, n \div 10 \in Good
        PROVE  n \in Good
    <3>1. n \in Nat /\ n # 0 /\ f[n \div 10] \in V
      BY <2>2
    <3>2. f[n] = h[n][f[n \div 10]] /\ h[n][f[n \div 10]] \in V
      BY <1>2, <3>1, Zenon
    <3> QED
      BY <3>1, <3>2, Zenon
  <2>3. Good = Nat
    <3>1. Good \in SUBSET Nat
      OBVIOUS
    <3> HIDE DEF Good
    <3> QED
      BY <2>1, <2>2, <3>1, NumbersByDigits
  <2> QED
    BY <2>3
<1> QED
  BY <1>4, <1>5

\* The digits, and the loops of print_uint and of list_number.
Digits == 0 .. 9

PrintsDigits(f) ==
    f = [n \in Nat |-> IF n = 0 THEN <<>> ELSE Append(f[n \div 10], n % 10)]

ListsDigits(f) ==
    f = [n \in Nat |-> IF n = 0 THEN <<>> ELSE <<n % 10>> \o f[n \div 10]]

\* The recursive function of print_uint exists: its loop ends for every number.
LEMMA PrintLoop == \E f : PrintsDigits(f)
<1> DEFINE h == [n \in Nat |-> [d \in Seq(Digits) |-> Append(d, n % 10)]]
<1>1. ASSUME NEW n \in Nat, NEW d \in Seq(Digits)
      PROVE  Append(d, n % 10) \in Seq(Digits)
  <2>1. n % 10 \in Digits
    BY DEF Digits
  <2> QED
    BY <2>1, AppendProperties
<1>2. \A n \in Nat : \A d \in Seq(Digits) : h[n][d] = Append(d, n % 10)
  BY Zenon
<1>3. h \in [Nat -> [Seq(Digits) -> Seq(Digits)]] /\ <<>> \in Seq(Digits)
  BY <1>1, EmptySeq
<1> HIDE DEF h
<1>4. PICK f : /\ f = [n \in Nat |-> IF n = 0 THEN <<>> ELSE h[n][f[n \div 10]]]
               /\ \A n \in Nat : f[n] \in Seq(Digits)
  BY <1>3, ByDigitsExists
<1>5. \A n \in Nat : n \div 10 \in Nat
  OBVIOUS
<1>6. ASSUME NEW n \in Nat
      PROVE  f[n] = IF n = 0 THEN <<>> ELSE Append(f[n \div 10], n % 10)
  <2>1. f[n] = IF n = 0 THEN <<>> ELSE h[n][f[n \div 10]]
    BY <1>4, Zenon
  <2> QED
    BY <1>2, <1>4, <1>5, <2>1, Zenon
<1>7. f = [n \in Nat |-> f[n]]
  BY <1>4, Zenon
<1> QED
  BY <1>6, <1>7, Zenon DEF PrintsDigits

\* So does that of list_number.
LEMMA ListLoop == \E f : ListsDigits(f)
<1> DEFINE h == [n \in Nat |-> [d \in Seq(Digits) |-> <<n % 10>> \o d]]
<1>1. ASSUME NEW n \in Nat, NEW d \in Seq(Digits)
      PROVE  <<n % 10>> \o d \in Seq(Digits)
  <2>1. <<n % 10>> \in Seq(Digits)
    BY DEF Digits
  <2> QED
    BY <2>1, ConcatProperties
<1>2. \A n \in Nat : \A d \in Seq(Digits) : h[n][d] = <<n % 10>> \o d
  BY Zenon
<1>3. h \in [Nat -> [Seq(Digits) -> Seq(Digits)]] /\ <<>> \in Seq(Digits)
  BY <1>1, EmptySeq
<1> HIDE DEF h
<1>4. PICK f : /\ f = [n \in Nat |-> IF n = 0 THEN <<>> ELSE h[n][f[n \div 10]]]
               /\ \A n \in Nat : f[n] \in Seq(Digits)
  BY <1>3, ByDigitsExists
<1>5. \A n \in Nat : n \div 10 \in Nat
  OBVIOUS
<1>6. ASSUME NEW n \in Nat
      PROVE  f[n] = IF n = 0 THEN <<>> ELSE <<n % 10>> \o f[n \div 10]
  <2>1. f[n] = IF n = 0 THEN <<>> ELSE h[n][f[n \div 10]]
    BY <1>4, Zenon
  <2> QED
    BY <1>2, <1>4, <1>5, <2>1, Zenon
<1>7. f = [n \in Nat |-> f[n]]
  BY <1>4, Zenon
<1> QED
  BY <1>6, <1>7, Zenon DEF ListsDigits

\* What print_uint's loop has written after each digit.
LEMMA PrintDigits ==
    ASSUME NEW f, PrintsDigits(f)
    PROVE  /\ f[0] = <<>>
           /\ \A n \in Nat \ {0} : f[n] = Append(f[n \div 10], n % 10)
           /\ \A n \in Nat : f[n] \in Seq(Digits)
<1>1. ASSUME NEW n \in Nat
      PROVE  f[n] = IF n = 0 THEN <<>> ELSE Append(f[n \div 10], n % 10)
  BY Zenon DEF PrintsDigits
<1> DEFINE Good == {n \in Nat : f[n] \in Seq(Digits)}
<1>2. 0 \in Good
  BY <1>1, EmptySeq
<1>3. ASSUME NEW n \in Nat \ {0}, n \div 10 \in Good
      PROVE  n \in Good
  <2>1. n \in Nat /\ n # 0 /\ f[n \div 10] \in Seq(Digits) /\ n % 10 \in Digits
    BY <1>3 DEF Digits
  <2>2. f[n] = Append(f[n \div 10], n % 10)
    BY <1>1, <2>1, Zenon
  <2>3. Append(f[n \div 10], n % 10) \in Seq(Digits)
    BY <2>1, AppendProperties
  <2> QED
    BY <2>1, <2>2, <2>3, Zenon
<1>4. Good = Nat
  <2>1. Good \in SUBSET Nat
    OBVIOUS
  <2> HIDE DEF Good
  <2> QED
    BY <1>2, <1>3, <2>1, NumbersByDigits
<1>5. \A n \in Nat : f[n] \in Seq(Digits)
  BY <1>4
<1>6. \A n \in Nat \ {0} : n \in Nat /\ n # 0
  OBVIOUS
<1> QED
  BY <1>1, <1>5, <1>6, Zenon

\* print_uint, by the digits: a number below 10 is its digit, any other its tenth and one
\* digit more.
LEMMA PrintUint ==
    ASSUME NEW n \in Nat
    PROVE  /\ print_uint(n) \in Seq(Digits)
           /\ n < 10 => print_uint(n) = <<n>>
           /\ n >= 10 => print_uint(n) = Append(print_uint(n \div 10), n % 10)
<1>1. PICK f : /\ f = [m \in Nat |-> IF m = 0 THEN <<>> ELSE Append(f[m \div 10], m % 10)]
               /\ \A m \in Nat : print_uint(m) = IF m = 0 THEN <<0>> ELSE f[m]
  BY PrintLoop, Zenon DEF PrintsDigits, print_uint
<1>2. /\ f[0] = <<>>
      /\ \A m \in Nat \ {0} : f[m] = Append(f[m \div 10], m % 10)
      /\ \A m \in Nat : f[m] \in Seq(Digits)
  BY <1>1, PrintDigits DEF PrintsDigits
<1>3. <<0>> \in Seq(Digits)
  BY DEF Digits
<1>4. print_uint(n) \in Seq(Digits)
  BY <1>1, <1>2, <1>3, Zenon
<1>5. ASSUME n < 10
      PROVE  print_uint(n) = <<n>>
  <2>1. CASE n = 0
    BY <1>1, <2>1
  <2>2. CASE n # 0
    <3>1. n \div 10 = 0 /\ n % 10 = n
      BY <1>5
    <3>2. print_uint(n) = f[n] /\ f[n] = Append(f[0], n)
      BY <1>1, <1>2, <2>2, <3>1
    <3>3. Append(<<>>, n) = <<n>>
      OBVIOUS
    <3> QED
      BY <1>2, <3>2, <3>3
  <2> QED
    BY <2>1, <2>2
<1>6. ASSUME n >= 10
      PROVE  print_uint(n) = Append(print_uint(n \div 10), n % 10)
  <2>1. n \in Nat \ {0} /\ n \div 10 \in Nat \ {0}
    BY <1>6
  <2>2. print_uint(n) = f[n] /\ print_uint(n \div 10) = f[n \div 10]
    BY <1>1, <2>1
  <2> QED
    BY <1>2, <2>1, <2>2
<1> QED
  BY <1>4, <1>5, <1>6

\* Turned round, the first digit comes last.
LEMMA ReverseTurns ==
    ASSUME NEW d \in Seq(Digits), NEW x \in Digits
    PROVE  Reverse(<<x>> \o d) = Append(Reverse(d), x) /\ Reverse(<<>>) = <<>>
<1>1. /\ Len(d) \in Nat /\ <<x>> \in Seq(Digits) /\ Len(<<x>>) = 1 /\ <<x>>[1] = x
      /\ \A i \in 1 .. Len(d) : d[i] \in Digits
  BY StackElements
<1> DEFINE xd == <<x>> \o d
           n == Len(d) + 1
<1>2. /\ xd \in Seq(Digits) /\ Len(xd) = n
      /\ xd[1] = x /\ \A i \in 2 .. n : xd[i] = d[i - 1]
  <2>1. /\ xd \in Seq(Digits) /\ Len(xd) = Len(<<x>>) + Len(d)
        /\ \A i \in 1 .. Len(<<x>>) + Len(d) :
              xd[i] = IF i <= Len(<<x>>) THEN <<x>>[i] ELSE d[i - Len(<<x>>)]
    BY <1>1, ConcatProperties, Zenon
  <2> HIDE DEF xd
  <2> QED
    BY <1>1, <2>1
<1> HIDE DEF xd
<1>3. Reverse(xd) = [i \in 1 .. n |-> xd[n - i + 1]]
  BY <1>2, Zenon DEF Reverse
<1>4. /\ Reverse(d) \in Seq(Digits) /\ Len(Reverse(d)) = Len(d)
      /\ \A i \in 1 .. Len(d) : Reverse(d)[i] = d[Len(d) - i + 1]
  <2>1. Reverse(d) = [i \in 1 .. Len(d) |-> d[Len(d) - i + 1]]
    BY Zenon DEF Reverse
  <2>2. \A i \in 1 .. Len(d) : Len(d) - i + 1 \in 1 .. Len(d)
    BY <1>1
  <2>3. Reverse(d) \in [1 .. Len(d) -> Digits]
    BY <1>1, <2>1, <2>2, Zenon
  <2> QED
    BY <1>1, <2>1, <2>3
<1> DEFINE rx == Append(Reverse(d), x)
<1>5. /\ rx \in Seq(Digits) /\ Len(rx) = n /\ rx[n] = x
      /\ \A i \in 1 .. Len(d) : rx[i] = d[Len(d) - i + 1]
  <2> HIDE DEF n
  <2>1. /\ rx \in Seq(Digits) /\ Len(rx) = Len(d) + 1 /\ rx[Len(d) + 1] = x
        /\ \A i \in 1 .. Len(d) : rx[i] = Reverse(d)[i]
    BY <1>1, <1>4, AppendProperties
  <2> HIDE DEF rx
  <2> QED
    BY <1>1, <1>4, <2>1 DEF n
<1> HIDE DEF rx
<1>6. rx = [i \in 1 .. n |-> rx[i]]
  BY <1>5, LenProperties
<1>7. ASSUME NEW i \in 1 .. n
      PROVE  rx[i] = xd[n - i + 1]
  <2>1. CASE i = n
    BY <1>1, <1>2, <1>5, <2>1
  <2>2. CASE i # n
    <3>1. i \in 1 .. Len(d) /\ n - i + 1 \in 2 .. n /\ n - i + 1 - 1 = Len(d) - i + 1
      BY <1>1, <2>2
    <3> QED
      BY <1>2, <1>5, <3>1
  <2> QED
    BY <2>1, <2>2
<1>8. Reverse(xd) = rx
  BY <1>3, <1>6, <1>7, Zenon
<1>9. Reverse(<<>>) = <<>>
  BY DEF Reverse
<1> QED
  BY <1>8, <1>9 DEF xd, rx

\* The digits that vfs_list_files collects and turns round are those that print_uint
\* prints, if the number is one as an int.
LEMMA ListNumber ==
    ASSUME NEW n \in Nat, n <= INT_MAX
    PROVE  list_number(n) = print_uint(n)
<1>0. ToInt(n) = n /\ (n = 0 \/ n > 0)
  BY DEF ToInt
<1>1. PICK f : PrintsDigits(f) /\ print_uint(n) = IF n = 0 THEN <<0>> ELSE f[n]
  BY PrintLoop, Zenon DEF PrintsDigits, print_uint
<1>2. PICK g : ListsDigits(g) /\ list_number(n) = IF n = 0 THEN <<0>> ELSE Reverse(g[n])
  BY <1>0, ListLoop, Zenon DEF ListsDigits, list_number
<1>3. /\ f[0] = <<>>
      /\ \A m \in Nat \ {0} : f[m] = Append(f[m \div 10], m % 10)
  BY <1>1, PrintDigits
<1>4. ASSUME NEW m \in Nat
      PROVE  g[m] = IF m = 0 THEN <<>> ELSE <<m % 10>> \o g[m \div 10]
  BY <1>2, Zenon DEF ListsDigits
<1> DEFINE Good == {m \in Nat : g[m] \in Seq(Digits) /\ Reverse(g[m]) = f[m]}
<1>5. 0 \in Good
  <2>1. Reverse(<<>>) = <<>>
    BY DEF Reverse
  <2>2. g[0] = <<>> /\ <<>> \in Seq(Digits)
    BY <1>4, EmptySeq
  <2> QED
    BY <1>3, <2>1, <2>2
<1>6. ASSUME NEW m \in Nat \ {0}, m \div 10 \in Good
      PROVE  m \in Good
  <2> DEFINE d == g[m \div 10]
             x == m % 10
  <2>1. d \in Seq(Digits) /\ Reverse(d) = f[m \div 10] /\ x \in Digits /\ m \in Nat /\ m # 0
    BY <1>6 DEF Digits
  <2>2. g[m] = <<x>> \o d /\ f[m] = Append(f[m \div 10], x)
    BY <1>3, <1>4, <2>1, Zenon
  <2>3. Reverse(<<x>> \o d) = Append(Reverse(d), x)
    BY <2>1, ReverseTurns, Zenon
  <2>4. <<x>> \o d \in Seq(Digits)
    <3> HIDE DEF x, d
    <3>1. <<x>> \in Seq(Digits)
      BY <2>1
    <3> QED
      BY <2>1, <3>1, ConcatProperties
  <2> HIDE DEF x, d
  <2> QED
    BY <2>1, <2>2, <2>3, <2>4, Zenon
<1>7. Good = Nat
  <2>1. Good \in SUBSET Nat
    OBVIOUS
  <2> HIDE DEF Good
  <2> QED
    BY <1>5, <1>6, <2>1, NumbersByDigits
<1>8. Reverse(g[n]) = f[n]
  BY <1>7
<1> QED
  BY <1>1, <1>2, <1>8

\* The digits print_uint prints are the number, and the first is 0 only for 0.
LEMMA PrintUintDigits ==
    ASSUME NEW n \in Nat
    PROVE  /\ Value(print_uint(n), 10) = n
           /\ Len(print_uint(n)) >= 1
           /\ n # 0 => print_uint(n)[1] # 0
<1>1. ASSUME NEW m \in Nat
      PROVE  /\ print_uint(m) \in Seq(Digits)
             /\ m < 10 => print_uint(m) = <<m>>
             /\ m >= 10 => print_uint(m) = Append(print_uint(m \div 10), m % 10)
  BY PrintUint
<1> DEFINE Good == {m \in Nat : /\ Value(print_uint(m), 10) = m
                                /\ Len(print_uint(m)) >= 1
                                /\ m # 0 => print_uint(m)[1] # 0}
<1>2. ASSUME NEW m \in Nat, m < 10
      PROVE  m \in Good
  <2>1. print_uint(m) = <<m>> /\ <<m>> = Append(<<>>, m) /\ Len(<<m>>) = 1 /\ <<m>>[1] = m
    BY <1>1, <1>2
  <2>2. Value(<<>>, 10) = 0 /\ Value(Append(<<>>, m), 10) = Value(<<>>, 10) * 10 + m
    BY EmptySeq, ValueSteps
  <2>3. Value(print_uint(m), 10) = m
    BY <2>1, <2>2
  <2> QED
    BY <2>1, <2>3
<1>3. ASSUME NEW m \in Nat \ {0}, m \div 10 \in Good
      PROVE  m \in Good
  <2>1. CASE m < 10
    BY <1>2, <2>1
  <2>2. CASE ~ m < 10
    <3> DEFINE q == print_uint(m \div 10)
    <3>1. /\ m \div 10 \in Nat \ {0} /\ m % 10 \in Nat
          /\ m = (m \div 10) * 10 + (m % 10)
      BY <2>2
    <3>2. q \in Seq(Digits) /\ print_uint(m) = Append(q, m % 10)
      <4>1. m \in Nat /\ m >= 10 /\ m \div 10 \in Nat
        BY <2>2
      <4> QED
        BY <1>1, <4>1, Zenon
    <3>3. Value(q, 10) = m \div 10 /\ Len(q) >= 1 /\ q[1] # 0
      BY <1>3, <3>1
    <3> HIDE DEF q
    <3>4. q \in Seq(Nat)
      BY <3>2, SeqMonotonic DEF Digits
    <3>5. Value(Append(q, m % 10), 10) = Value(q, 10) * 10 + (m % 10)
      BY <3>1, <3>4, ValueSteps
    <3>6. Len(Append(q, m % 10)) >= 1 /\ Append(q, m % 10)[1] = q[1]
      BY <3>1, <3>3, <3>4, AppendProperties, LenProperties
    <3> QED
      BY <3>1, <3>2, <3>3, <3>5, <3>6
  <2> QED
    BY <2>1, <2>2
<1>4. Good = Nat
  <2>1. Good \in SUBSET Nat /\ 0 \in Good
    BY <1>2
  <2> HIDE DEF Good
  <2> QED
    BY <1>3, <2>1, NumbersByDigits
<1> QED
  BY <1>4

\* Ten times as many numbers need one digit more.
LEMMA OneMoreDigit ==
    ASSUME NEW b \in Nat, NEW l \in Nat \ {0},
           \A m \in Nat : m < b => Len(print_uint(m)) <= l
    PROVE  \A m \in Nat : m < 10 * b => Len(print_uint(m)) <= l + 1
<1>0. \A m \in Nat : /\ print_uint(m) \in Seq(Digits)
                     /\ m < 10 => print_uint(m) = <<m>>
                     /\ m >= 10 => print_uint(m) = Append(print_uint(m \div 10), m % 10)
  BY PrintUint, Zenon
<1> SUFFICES ASSUME NEW m \in Nat, m < 10 * b
             PROVE  Len(print_uint(m)) <= l + 1
  OBVIOUS
<1>1. CASE m < 10
  <2>1. print_uint(m) = <<m>> /\ Len(<<m>>) = 1
    BY <1>0, <1>1
  <2> QED
    BY <2>1
<1>2. CASE ~ m < 10
  <2> DEFINE q == print_uint(m \div 10)
  <2>1. m \div 10 \in Nat /\ m \div 10 < b /\ m % 10 \in Digits
    BY DEF Digits
  <2>2. print_uint(m) = Append(q, m % 10) /\ q \in Seq(Digits)
    <3>1. m \in Nat /\ m >= 10
      BY <1>2
    <3> QED
      BY <1>0, <2>1, <3>1, Zenon
  <2>4. Len(q) <= l
    BY <2>1
  <2> HIDE DEF q
  <2>3. Len(Append(q, m % 10)) = Len(q) + 1 /\ Len(q) \in Nat
    BY <2>1, <2>2, AppendProperties, LenProperties
  <2> QED
    BY <2>2, <2>3, <2>4
<1> QED
  BY <1>1, <1>2

\* A uint32_t has at most ten digits: buf[11] of print_uint holds them and the terminator.
LEMMA PrintUintFits ==
    ASSUME NEW n \in Nat, n \div 65536 < 65536
    PROVE  Len(print_uint(n)) <= 10
<1> DEFINE Fits(b, l) == \A m \in Nat : m < b => Len(print_uint(m)) <= l
<1>0. ASSUME NEW b \in Nat, NEW l \in Nat \ {0}, Fits(b, l)
      PROVE  Fits(10 * b, l + 1)
  BY <1>0, OneMoreDigit
<1>1. Fits(10, 1)
  <2> SUFFICES ASSUME NEW m \in Nat, m < 10
               PROVE  Len(print_uint(m)) <= 1
    OBVIOUS
  <2>1. print_uint(m) = <<m>> /\ Len(<<m>>) = 1
    BY PrintUint
  <2> QED
    BY <2>1
<1> HIDE DEF Fits
<1>2. Fits(100, 2)
  <2>1. 10 * 10 = 100 /\ 1 + 1 = 2 /\ 10 \in Nat /\ 1 \in Nat \ {0}
    OBVIOUS
  <2>2. Fits(10 * 10, 1 + 1)
    BY <1>0, <1>1, <2>1
  <2> QED
    BY <2>1, <2>2
<1>3. Fits(1000, 3)
  <2>1. 10 * 100 = 1000 /\ 2 + 1 = 3 /\ 100 \in Nat /\ 2 \in Nat \ {0}
    OBVIOUS
  <2>2. Fits(10 * 100, 2 + 1)
    BY <1>0, <1>2, <2>1
  <2> QED
    BY <2>1, <2>2
<1>4. Fits(10000, 4)
  <2>1. 10 * 1000 = 10000 /\ 3 + 1 = 4 /\ 1000 \in Nat /\ 3 \in Nat \ {0}
    OBVIOUS
  <2>2. Fits(10 * 1000, 3 + 1)
    BY <1>0, <1>3, <2>1
  <2> QED
    BY <2>1, <2>2
<1>5. Fits(100000, 5)
  <2>1. 10 * 10000 = 100000 /\ 4 + 1 = 5 /\ 10000 \in Nat /\ 4 \in Nat \ {0}
    OBVIOUS
  <2>2. Fits(10 * 10000, 4 + 1)
    BY <1>0, <1>4, <2>1
  <2> QED
    BY <2>1, <2>2
<1>6. Fits(1000000, 6)
  <2>1. 10 * 100000 = 1000000 /\ 5 + 1 = 6 /\ 100000 \in Nat /\ 5 \in Nat \ {0}
    OBVIOUS
  <2>2. Fits(10 * 100000, 5 + 1)
    BY <1>0, <1>5, <2>1
  <2> QED
    BY <2>1, <2>2
<1>7. Fits(10000000, 7)
  <2>1. 10 * 1000000 = 10000000 /\ 6 + 1 = 7 /\ 1000000 \in Nat /\ 6 \in Nat \ {0}
    OBVIOUS
  <2>2. Fits(10 * 1000000, 6 + 1)
    BY <1>0, <1>6, <2>1
  <2> QED
    BY <2>1, <2>2
<1>8. Fits(100000000, 8)
  <2>1. 10 * 10000000 = 100000000 /\ 7 + 1 = 8 /\ 10000000 \in Nat /\ 7 \in Nat \ {0}
    OBVIOUS
  <2>2. Fits(10 * 10000000, 7 + 1)
    BY <1>0, <1>7, <2>1
  <2> QED
    BY <2>1, <2>2
<1>9. Fits(1000000000, 9)
  <2>1. 10 * 100000000 = 1000000000 /\ 8 + 1 = 9 /\ 100000000 \in Nat /\ 8 \in Nat \ {0}
    OBVIOUS
  <2>2. Fits(10 * 100000000, 8 + 1)
    BY <1>0, <1>8, <2>1
  <2> QED
    BY <2>1, <2>2
<1>10. Fits(10000000000, 10)
  <2>1. 10 * 1000000000 = 10000000000 /\ 9 + 1 = 10 /\ 1000000000 \in Nat /\ 9 \in Nat \ {0}
    OBVIOUS
  <2>2. Fits(10 * 1000000000, 9 + 1)
    BY <1>0, <1>9, <2>1
  <2> QED
    BY <2>1, <2>2
<1>11. n < 10000000000
  OBVIOUS
<1> QED
  BY <1>10, <1>11 DEF Fits

\* The values of the first digits, one after the other.
Accumulates(q, base, n, w) ==
    /\ n \in Nat
    /\ DOMAIN q = 1 .. n
    /\ w[0] = 0
    /\ \A k \in 1 .. n : w[k] = w[k - 1] * base + q[k]

\* The last of them is the value.
LEMMA ValueAccumulates ==
    ASSUME NEW q, NEW base, NEW n, NEW w, Accumulates(q, base, n, w)
    PROVE  Value(q, base) = w[n]
<1>1. n \in Nat /\ DOMAIN q = 1 .. n
  BY Zenon DEF Accumulates
<1>2. PICK it : FoldTo(q, base, n, it) /\ Value(q, base) = it[1 .. n]
  BY <1>1, ValueFolds, Zenon
<1>3. FoldSteps(q, base, n, it)
  BY <1>1, <1>2, FoldStep
<1> DEFINE Good == {k \in Nat : k <= n => it[1 .. k] = w[k]}
<1>4. 0 \in Good
  <2>1. 1 .. 0 = {}
    OBVIOUS
  <2>2. it[1 .. 0] = w[0]
    BY <1>3, <2>1, Zenon DEF FoldSteps, Accumulates
  <2> QED
    BY <2>2
<1>5. ASSUME NEW k \in Nat \ {0}, k - 1 \in Good
      PROVE  k \in Good
  <2> SUFFICES ASSUME k <= n
               PROVE  it[1 .. k] = w[k]
    OBVIOUS
  <2>1. k \in 1 .. n /\ k - 1 <= n
    BY <1>1
  <2>2. it[1 .. k - 1] = w[k - 1]
    BY <1>5, <2>1
  <2>3. it[1 .. k] = it[1 .. k - 1] * base + q[k]
    BY <1>3, <2>1, Zenon DEF FoldSteps
  <2>4. w[k] = w[k - 1] * base + q[k]
    BY <2>1, Zenon DEF Accumulates
  <2> QED
    BY <2>2, <2>3, <2>4, Zenon
<1>6. Good = Nat
  <2>1. Good \in SUBSET Nat
    OBVIOUS
  <2> HIDE DEF Good
  <2> QED
    BY <1>4, <1>5, <2>1, NumbersOneByOne
<1>7. n <= n
  BY <1>1
<1>8. it[1 .. n] = w[n]
  BY <1>1, <1>6, <1>7
<1> QED
  BY <1>2, <1>8

\* The eight digits of print_hex are the number, and each is below 16.
LEMMA PrintHex ==
    ASSUME NEW n \in Nat, n \div 65536 < 65536
    PROVE  Value(print_hex(n), 16) = n /\ ToSet(print_hex(n)) \subseteq 0 .. 15
<1>1. \E f : f = [i \in 1 .. 9 |-> IF i = 9 THEN n ELSE f[i + 1] \div 16]
  <2> DEFINE h(x) == x \div 16
             r8 == h(n)
             r7 == h(r8)
             r6 == h(r7)
             r5 == h(r6)
             r4 == h(r5)
             r3 == h(r4)
             r2 == h(r3)
             r1 == h(r2)
             f == [i \in 1 .. 9 |-> <<r1, r2, r3, r4, r5, r6, r7, r8, n>>[i]]
  <2>1. /\ f[9] = n /\ f[8] = r8 /\ f[7] = r7 /\ f[6] = r6 /\ f[5] = r5
        /\ f[4] = r4 /\ f[3] = r3 /\ f[2] = r2 /\ f[1] = r1
    <3> HIDE DEF r1, r2, r3, r4, r5, r6, r7, r8
    <3> QED
      OBVIOUS
  <2>2. f = [i \in 1 .. 9 |-> f[i]]
    OBVIOUS
  <2> HIDE DEF f, h
  <2>3. /\ f[9] = n /\ f[8] = h(f[9]) /\ f[7] = h(f[8]) /\ f[6] = h(f[7])
        /\ f[5] = h(f[6]) /\ f[4] = h(f[5]) /\ f[3] = h(f[4])
        /\ f[2] = h(f[3]) /\ f[1] = h(f[2])
    BY <2>1
  <2> HIDE DEF r1, r2, r3, r4, r5, r6, r7, r8
  <2>4. ASSUME NEW i \in 1 .. 9
        PROVE  f[i] = IF i = 9 THEN n ELSE h(f[i + 1])
    <3>1. i \in {1, 2, 3, 4, 5, 6, 7, 8, 9}
      OBVIOUS
    <3> QED
      BY <2>3, <3>1
  <2>5. f = [i \in 1 .. 9 |-> IF i = 9 THEN n ELSE h(f[i + 1])]
    BY <2>2, <2>4
  <2> QED
    BY <2>5 DEF h
<1>2. PICK f : /\ f = [i \in 1 .. 9 |-> IF i = 9 THEN n ELSE f[i + 1] \div 16]
               /\ print_hex(n) = [i \in 1 .. 8 |-> f[i + 1] % 16]
  BY <1>1 DEF print_hex
<1>3. ASSUME NEW i \in 1 .. 9
      PROVE  f[i] = IF i = 9 THEN n ELSE f[i + 1] \div 16
  BY <1>2
<1>4. /\ f[9] = n /\ f[8] = f[9] \div 16 /\ f[7] = f[8] \div 16 /\ f[6] = f[7] \div 16
      /\ f[5] = f[6] \div 16
  BY <1>3
<1>5. f[4] = f[5] \div 16 /\ f[3] = f[4] \div 16 /\ f[2] = f[3] \div 16 /\ f[1] = f[2] \div 16
  BY <1>3
<1>6. f[5] \in Nat /\ f[5] < 65536
  BY <1>4
<1>7. f[1] = 0
  BY <1>5, <1>6
<1> DEFINE p == print_hex(n)
<1>8. DOMAIN p = 1 .. 8 /\ \A i \in 1 .. 8 : p[i] = f[i + 1] % 16
  BY <1>2
<1> HIDE DEF p
<1>11. \A i \in 1 .. 9 : f[i] \in Nat
  <2>1. \A i \in 1 .. 9 : i \in {1, 2, 3, 4, 5, 6, 7, 8, 9}
    OBVIOUS
  <2>2. f[9] \in Nat /\ f[8] \in Nat /\ f[7] \in Nat /\ f[6] \in Nat
    BY <1>4
  <2>3. f[4] \in Nat /\ f[3] \in Nat /\ f[2] \in Nat /\ f[1] \in Nat
    BY <1>5, <1>6
  <2> QED
    BY <1>6, <2>1, <2>2, <2>3
<1> DEFINE w == [k \in 0 .. 8 |-> f[k + 1]]
<1>12. \A k \in 0 .. 8 : w[k] = f[k + 1]
  OBVIOUS
<1> HIDE DEF w
<1>13. ASSUME NEW k \in 1 .. 8
       PROVE  w[k] = w[k - 1] * 16 + p[k]
  <2>1. k \in 0 .. 8 /\ k - 1 \in 0 .. 8 /\ k \in 1 .. 9 /\ k + 1 \in 1 .. 9 /\ k # 9
        /\ k - 1 + 1 = k
    OBVIOUS
  <2>2. w[k] = f[k + 1] /\ w[k - 1] = f[k]
    BY <1>12, <2>1
  <2>3. p[k] = f[k + 1] % 16 /\ f[k] = f[k + 1] \div 16 /\ f[k + 1] \in Nat
    BY <1>3, <1>8, <1>11, <2>1
  <2> QED
    BY <2>2, <2>3
<1>14. Accumulates(p, 16, 8, w)
  BY <1>7, <1>8, <1>12, <1>13 DEF Accumulates
<1>15. Value(p, 16) = n
  <2>1. Value(p, 16) = w[8]
    BY <1>14, ValueAccumulates
  <2> QED
    BY <1>4, <1>12, <2>1
<1>16. \A i \in DOMAIN p : p[i] \in 0 .. 15
  <2> SUFFICES ASSUME NEW i \in 1 .. 8
               PROVE  p[i] \in 0 .. 15
    BY <1>8
  <2>1. p[i] = f[i + 1] % 16 /\ f[i + 1] \in Nat
    BY <1>8, <1>11
  <2> QED
    BY <2>1
<1>17. ToSet(p) \subseteq 0 .. 15
  BY <1>16 DEF ToSet
<1> QED
  BY <1>15, <1>17 DEF p

----------------------------------------------------------------------------
(***************************************************************************)
(* The library over the strings and numbers of a run, whichever they are.  *)
(***************************************************************************)
\* The strings of a run are strings of characters.
LEMMA TextsAreStrings == Texts \subseteq Seq(Chars)
<1> SUFFICES ASSUME NEW s \in Texts
             PROVE  s \in Seq(Chars)
  OBVIOUS
<1>1. PICK m \in 0 .. MaxText : s \in [1 .. m -> Alphabet]
  BY DEF Texts, BoundedSeq, SeqOf
<1>2. m \in Nat
  BY NumbersAssumption
<1>3. Alphabet \subseteq Chars
  BY AlphabetAssumption DEF Chars
<1>4. s \in [1 .. m -> Chars]
  BY <1>1, <1>3
<1> QED
  BY <1>2, <1>4, SeqDef

\* A string of characters is a string of bytes.
LEMMA StringsAreBytes ==
    ASSUME NEW s \in Seq(Chars)
    PROVE  s \in Seq(Bytes)
<1>1. Chars \subseteq Bytes
  BY DEF Chars, Bytes
<1> QED
  BY <1>1, SeqMonotonic

\* What LibraryAgrees says of two strings, whatever is behind the second.
LEMMA CopyAndCompare ==
    ASSUME NEW s \in Texts, NEW t \in Texts, NEW v \in Seq(Bytes)
    PROVE  LET a == Memory(s, t)
               b == Memory(t, v)
           IN  /\ strlen(a) = Len(s) /\ Text(a) = s
               /\ Compares(strcmp(a, b), s, t)
               /\ \A n \in 0 .. MaxText + 1 :
                     Compares(strncmp(a, b, n), Cut(s, n), Cut(t, n))
               /\ Text(strcpy(a, b)) = t
               /\ \A i \in DOMAIN a : i > Len(t) => strcpy(a, b)[i] = a[i]
<1>1. s \in Seq(Chars) /\ t \in Seq(Chars) /\ t \in Seq(Bytes)
  BY TextsAreStrings, StringsAreBytes
<1>2. strlen(Memory(s, t)) = Len(s) /\ Text(Memory(s, t)) = s
  BY <1>1, MemoryReads, ReadsText
<1>3. Compares(strcmp(Memory(s, t), Memory(t, v)), s, t)
  BY <1>1, StrcmpCompares
<1>4. \A n \in 0 .. MaxText + 1 :
        Compares(strncmp(Memory(s, t), Memory(t, v), n), Cut(s, n), Cut(t, n))
  <2> SUFFICES ASSUME NEW n \in 0 .. MaxText + 1
               PROVE  Compares(strncmp(Memory(s, t), Memory(t, v), n),
                               Cut(s, n), Cut(t, n))
    OBVIOUS
  <2>1. n \in Nat
    BY NumbersAssumption
  <2> QED
    BY <1>1, <2>1, StrncmpCompares
<1>5. Len(t) <= Len(s) + Len(t)
  BY <1>1, LenProperties
<1>6. /\ Text(strcpy(Memory(s, t), Memory(t, v))) = t
      /\ \A i \in DOMAIN Memory(s, t) :
            i > Len(t) => strcpy(Memory(s, t), Memory(t, v))[i] = Memory(s, t)[i]
  BY <1>1, <1>5, StrcpyCopies, Zenon
<1> QED
  BY <1>2, <1>3, <1>4, <1>6, Zenon

\* What it says of strchr.
LEMMA FirstPlace ==
    ASSUME NEW s \in Texts, NEW c \in Alphabet \cup {0}
    PROVE  LET places == {i \in 0 .. Len(s) : Memory(s, <<>>)[i] = c}
           IN  strchr(Memory(s, <<c>>), c) =
                   IF places = {} THEN NULL
                   ELSE CHOOSE i \in places : \A j \in places : i <= j
<1> DEFINE a == Memory(s, <<>>)
           b == Memory(s, <<c>>)
           k == strchr(b, c)
           places == {i \in 0 .. Len(s) : a[i] = c}
<1>1. s \in Seq(Chars) /\ c \in Bytes /\ <<>> \in Seq(Bytes)
  BY TextsAreStrings, AlphabetAssumption, EmptySeq DEF Bytes
<1>2. <<c>> \in Seq(Bytes)
  BY <1>1
<1>3. /\ Len(s) \in Nat /\ a[Len(s)] = 0
      /\ \A i \in 0 .. Len(s) - 1 : a[i] = s[i + 1] /\ a[i] # 0 /\ a[i] \in Bytes
  BY <1>1, MemoryText
<1>4. /\ Len(s) \in Nat /\ b[Len(s)] = 0
      /\ \A i \in 0 .. Len(s) - 1 : b[i] = s[i + 1] /\ b[i] # 0 /\ b[i] \in Bytes
  BY <1>1, <1>2, MemoryText
<1>5. \/ k = NULL /\ \A i \in 0 .. Len(s) : b[i] # c
      \/ k \in 0 .. Len(s) /\ b[k] = c /\ \A i \in 0 .. k - 1 : b[i] # c
  <2>1. Reads(b, s)
    BY <1>1, <1>2, MemoryReads
  <2> HIDE DEF b
  <2> QED
    BY <1>1, <2>1, StrchrFinds
<1> HIDE DEF a, b, k
<1>6. \A i \in 0 .. Len(s) : a[i] = b[i]
  <2> SUFFICES ASSUME NEW i \in 0 .. Len(s)
               PROVE  a[i] = b[i]
    OBVIOUS
  <2>1. i = Len(s) \/ i \in 0 .. Len(s) - 1
    BY <1>3
  <2> QED
    BY <1>3, <1>4, <2>1
<1>7. CASE k = NULL /\ \A i \in 0 .. Len(s) : b[i] # c
  <2>1. places = {}
    BY <1>6, <1>7
  <2> QED
    BY <1>7, <2>1 DEF a, b, k
<1>8. CASE k \in 0 .. Len(s) /\ b[k] = c /\ \A i \in 0 .. k - 1 : b[i] # c
  <2>1. k \in places
    BY <1>6, <1>8
  <2>2. \A j \in places : k <= j
    <3> SUFFICES ASSUME NEW j \in 0 .. Len(s), a[j] = c, ~ k <= j
                 PROVE  FALSE
      OBVIOUS
    <3>1. j \in 0 .. k - 1 /\ b[j] = c
      BY <1>3, <1>6, <1>8
    <3> QED
      BY <1>8, <3>1
  <2>3. \A j \in places : j \in Nat
    OBVIOUS
  <2> DEFINE first == CHOOSE i \in places : \A j \in places : i <= j
  <2> HIDE DEF places
  <2>4. first \in places /\ \A j \in places : first <= j
    BY <2>1, <2>2
  <2> HIDE DEF first
  <2>5. first = k
    BY <2>1, <2>2, <2>3, <2>4
  <2>6. places # {}
    BY <2>1
  <2> QED
    BY <2>5, <2>6, Zenon DEF first, places, a, b, k
<1> QED
  BY <1>5, <1>7, <1>8

\* What it says of a number.
PrintedAs(n) ==
    /\ list_number(n) = IF n <= INT_MAX THEN print_uint(n) ELSE <<>>
    /\ Value(print_uint(n), 10) = n
    /\ Len(print_uint(n)) <= 11 /\ (n # 0 => print_uint(n)[1] # 0)
    /\ Value(print_hex(n), 16) = n /\ ToSet(print_hex(n)) \subseteq 0 .. 15

\* Every uint32_t is printed as it is: by print_uint in at most 11 digits and without a
\* leading 0, and by print_hex in eight.  vfs_list_files prints the digits of print_uint
\* where the number is one as an int, and none from 2^31 on.
THEOREM NumbersArePrinted ==
    ASSUME NEW n, IsUint32(n)
    PROVE  PrintedAs(n)
<1>1. n \in Nat
  BY DEF IsUint32
<1>0. n \div 65536 < 65536
  <2>1. INT_MAX <= 2147483647
    BY IntMaxAssumption
  <2>2. n <= 4294967295
    BY <2>1, IntMaxAssumption DEF IsUint32
  <2> QED
    BY <1>1, <2>2
<1>2. list_number(n) = IF n <= INT_MAX THEN print_uint(n) ELSE <<>>
  <2>1. CASE n <= INT_MAX
    BY <1>1, <2>1, ListNumber, Zenon
  <2>2. CASE ~(n <= INT_MAX)
    <3>1. ToInt(n) < 0 /\ ToInt(n) # 0 /\ ~(ToInt(n) > 0)
      BY <1>1, <2>2, IntMaxAssumption DEF ToInt, IsUint32
    <3> QED
      BY <2>2, <3>1 DEF list_number
  <2> QED
    BY <2>1, <2>2
<1>3. /\ Value(print_uint(n), 10) = n
      /\ Len(print_uint(n)) >= 1
      /\ n # 0 => print_uint(n)[1] # 0
  BY <1>1, PrintUintDigits, Zenon
<1>4. Len(print_uint(n)) <= 10
  BY <1>0, <1>1, PrintUintFits
<1>5. Len(print_uint(n)) \in Int
  <2>1. print_uint(n) \in Seq(Digits)
    BY <1>1, PrintUint
  <2> QED
    BY <2>1, LenProperties
<1>6. Value(print_hex(n), 16) = n /\ ToSet(print_hex(n)) \subseteq 0 .. 15
  BY <1>0, <1>1, PrintHex
<1>7. Len(print_uint(n)) <= 11
  BY <1>4, <1>5
<1> QED
  BY <1>2, <1>3, <1>6, <1>7 DEF PrintedAs

\* What LibraryAgrees asks, for every string up to any length and for all numbers.
LEMMA StringsAgreeAlways == StringsAgree
<1>1. ASSUME NEW n \in Numbers
      PROVE  PrintedAs(n)
  BY NumbersAssumption, NumbersArePrinted, Zenon
<1>2. <<255>> \in Seq(Bytes)
  BY DEF Bytes
<1> DEFINE v == <<255>>
<1>3. \A s, t \in Texts :
         LET a == Memory(s, t)
             b == Memory(t, v)
         IN  /\ strlen(a) = Len(s) /\ Text(a) = s
             /\ Compares(strcmp(a, b), s, t)
             /\ \A n \in 0 .. MaxText + 1 :
                   Compares(strncmp(a, b, n), Cut(s, n), Cut(t, n))
             /\ Text(strcpy(a, b)) = t
             /\ \A i \in DOMAIN a : i > Len(t) => strcpy(a, b)[i] = a[i]
  <2>1. v \in Seq(Bytes)
    BY <1>2
  <2> HIDE DEF v
  <2> QED
    BY <2>1, CopyAndCompare, Zenon
<1>4. \A n \in Numbers : PrintedAs(n)
  BY <1>1
<1> QED
  BY <1>3, <1>4, FirstPlace, Zenon DEF StringsAgree, PrintedAs

\* The string library does what string.h says, for every alphabet, length and set of
\* numbers of a run.
THEOREM LibraryAlwaysAgrees == Spec => []LibraryAgrees
<1>1. StringsAgree
  BY StringsAgreeAlways
<1>2. LibraryAgrees
  BY <1>1 DEF LibraryAgrees
<1> QED
  BY <1>2, PTL

----------------------------------------------------------------------------
(***************************************************************************)
(* The lines that execute_command takes apart.                             *)
(***************************************************************************)
\* A string without a space.
WordBytes(q) == q \in Seq(Chars) /\ \A i \in 1 .. Len(q) : q[i] # Space

\* The words of the commands are such strings.
LEMMA WordsAreBytes == \A w \in Words : WordBytes(Ascii[w])
<1>1. \A w \in Words :
        w \in {"help", "version", "timer", "testdelay", "mem", "testmem", "testheap",
               "crash", "divzero", "ps", "ls", "clear", "reboot"}
  BY DEF Words, Ascii
<1>2. /\ WordBytes(Ascii.help) /\ WordBytes(Ascii.mem)
      /\ WordBytes(Ascii.ps) /\ WordBytes(Ascii.ls)
  BY DEF Ascii, WordBytes, Chars, Space
<1>3. /\ WordBytes(Ascii.timer) /\ WordBytes(Ascii.crash) 
      /\ WordBytes(Ascii.clear) /\ WordBytes(Ascii.reboot)
  BY DEF Ascii, WordBytes, Chars, Space
<1>4. WordBytes(Ascii.version) /\ WordBytes(Ascii.testmem) /\ WordBytes(Ascii.divzero)
  BY DEF Ascii, WordBytes, Chars, Space
<1>5. WordBytes(Ascii.testheap) /\ WordBytes(Ascii.testdelay)
  BY DEF Ascii, WordBytes, Chars, Space
<1> QED
  BY <1>1, <1>2, <1>3, <1>4, <1>5

\* No two of them are the same: their lengths and first letters tell them apart.
LEMMA WordsDiffer == \A v, w \in Words : Ascii[v] = Ascii[w] => v = w
<1> DEFINE mark(w) == <<Len(Ascii[w]), Ascii[w][1], Ascii[w][2]>>
<1>1. \A w \in Words :
        w \in {"help", "version", "timer", "testdelay", "mem", "testmem", "testheap",
               "crash", "divzero", "ps", "ls", "clear", "reboot"}
  BY DEF Words, Ascii
<1>2. /\ mark("help") = <<4, 104, 101>>
      /\ mark("version") = <<7, 118, 101>>
      /\ mark("timer") = <<5, 116, 105>>
      /\ mark("testdelay") = <<9, 116, 101>>
      /\ mark("mem") = <<3, 109, 101>>
      /\ mark("testmem") = <<7, 116, 101>>
      /\ mark("testheap") = <<8, 116, 101>>
      /\ mark("crash") = <<5, 99, 114>>
      /\ mark("divzero") = <<7, 100, 105>>
      /\ mark("ps") = <<2, 112, 115>>
      /\ mark("ls") = <<2, 108, 115>>
      /\ mark("clear") = <<5, 99, 108>>
      /\ mark("reboot") = <<6, 114, 101>>
  BY DEF Ascii
<1>3. ASSUME NEW v \in Words, NEW w \in Words, Ascii[v] = Ascii[w]
      PROVE  v = w
  <2>1. mark(v) = mark(w)
    BY <1>3
  <2> HIDE DEF mark
  <2> QED
    BY <1>1, <1>2, <2>1
<1> QED
  BY <1>3

\* The bytes of two strings that are joined.
LEMMA JoinedElements ==
    ASSUME NEW p \in Seq(Chars), NEW r \in Seq(Chars)
    PROVE  /\ p \o r \in Seq(Chars)
           /\ Len(p) \in Nat /\ Len(r) \in Nat /\ Len(p \o r) = Len(p) + Len(r)
           /\ \A i \in 1 .. Len(p) : (p \o r)[i] = p[i]
           /\ \A i \in 1 .. Len(r) : (p \o r)[Len(p) + i] = r[i]
<1> DEFINE s == p \o r
<1>1. Len(p) \in Nat /\ Len(r) \in Nat
  BY LenProperties
<1>2. /\ s \in Seq(Chars) /\ Len(s) = Len(p) + Len(r)
      /\ \A i \in 1 .. Len(p) + Len(r) : s[i] = IF i <= Len(p) THEN p[i] ELSE r[i - Len(p)]
  BY ConcatProperties, Zenon
<1> HIDE DEF s
<1>3. ASSUME NEW i \in 1 .. Len(p)
      PROVE  s[i] = p[i]
  BY <1>1, <1>2
<1>4. ASSUME NEW i \in 1 .. Len(r)
      PROVE  s[Len(p) + i] = r[i]
  <2>1. /\ Len(p) + i \in 1 .. Len(p) + Len(r) /\ ~ Len(p) + i <= Len(p)
        /\ Len(p) + i - Len(p) = i
    BY <1>1
  <2> QED
    BY <1>2, <2>1
<1> QED
  BY <1>1, <1>2, <1>3, <1>4 DEF s

\* Behind a prefix, the rest of the line is read.
LEMMA ReadsFrom ==
    ASSUME NEW p \in Seq(Chars), NEW r \in Seq(Chars), NEW u \in Seq(Bytes)
    PROVE  Reads(From(Memory(p \o r, u), Len(p)), r)
<1> DEFINE s == p \o r
           m == Memory(s, u)
           f == From(m, Len(p))
<1>1. /\ s \in Seq(Chars)
      /\ Len(p) \in Nat /\ Len(r) \in Nat /\ Len(s) = Len(p) + Len(r)
      /\ \A i \in 1 .. Len(r) : s[Len(p) + i] = r[i]
  BY JoinedElements, Zenon
<1>2. /\ Len(u) \in Nat
      /\ DOMAIN m = 0 .. Len(s) + Len(u)
      /\ \A i \in 0 .. Len(s) - 1 : m[i] = s[i + 1] /\ m[i] \in Chars
      /\ m[Len(s)] = 0
  BY <1>1, MemoryBytes, Zenon
<1>3. f = [i \in {j \in DOMAIN m : j + Len(p) \in DOMAIN m} |-> m[i + Len(p)]]
  BY Zenon DEF From
<1> HIDE DEF s, m, f
<1>4. 0 .. Len(r) \subseteq {j \in DOMAIN m : j + Len(p) \in DOMAIN m}
  BY <1>1, <1>2
<1>5. /\ 0 .. Len(r) \subseteq DOMAIN f
      /\ \A i \in 0 .. Len(r) : f[i] = m[i + Len(p)]
  BY <1>3, <1>4
<1>6. f[Len(r)] = 0
  <2>1. Len(r) \in 0 .. Len(r) /\ Len(r) + Len(p) = Len(s)
    BY <1>1
  <2> QED
    BY <1>2, <1>5, <2>1
<1>7. \A i \in 0 .. Len(r) - 1 : f[i] = r[i + 1]
  <2> SUFFICES ASSUME NEW i \in 0 .. Len(r) - 1
               PROVE  f[i] = r[i + 1]
    OBVIOUS
  <2>1. /\ i \in 0 .. Len(r) /\ i + Len(p) \in 0 .. Len(s) - 1
        /\ i + 1 \in 1 .. Len(r) /\ i + Len(p) + 1 = Len(p) + (i + 1)
    BY <1>1
  <2> QED
    BY <1>1, <1>2, <1>5, <2>1
<1> QED
  BY <1>5, <1>6, <1>7 DEF Reads, s, m, f

\* With a 0 in the place of the byte x, the name before it and the content behind it are
\* read: the cut that write makes at the space.
LEMMA ReadsCut ==
    ASSUME NEW n \in Seq(Chars), NEW x \in Chars, NEW c \in Seq(Chars),
           NEW args, Reads(args, n \o <<x>> \o c),
           \E l \in Nat : DOMAIN args = 0 .. l,
           NEW cut, cut = [args EXCEPT ![Len(n)] = 0]
    PROVE  /\ Reads(cut, n)
           /\ Reads(From(cut, Len(n) + 1), c)
<1> DEFINE h == n \o <<x>>
           s == h \o c
           f == From(cut, Len(n) + 1)
<1>1. <<x>> \in Seq(Chars) /\ Len(<<x>>) = 1
  OBVIOUS
<1>2. /\ h \in Seq(Chars) /\ Len(n) \in Nat /\ Len(h) = Len(n) + 1
      /\ \A i \in 1 .. Len(n) : h[i] = n[i]
  <2>1. /\ h \in Seq(Chars) /\ Len(n) \in Nat /\ Len(h) = Len(n) + Len(<<x>>)
        /\ \A i \in 1 .. Len(n) : h[i] = n[i]
    BY <1>1, JoinedElements, Zenon
  <2> QED
    BY <1>1, <2>1
<1> HIDE DEF h
<1>3. /\ Len(c) \in Nat /\ Len(s) = Len(h) + Len(c)
      /\ \A i \in 1 .. Len(h) : s[i] = h[i]
      /\ \A i \in 1 .. Len(c) : s[Len(h) + i] = c[i]
  BY <1>2, JoinedElements, Zenon
<1>4. /\ 0 .. Len(s) \subseteq DOMAIN args /\ args[Len(s)] = 0
      /\ \A i \in 0 .. Len(s) - 1 : args[i] = s[i + 1]
  BY Zenon DEF Reads, h
<1> HIDE DEF s
<1>5. PICK l \in Nat : DOMAIN args = 0 .. l
  OBVIOUS
<1>6. Len(s) <= l /\ Len(s) = Len(n) + 1 + Len(c)
  <2>1. Len(s) \in Nat /\ Len(s) = Len(n) + 1 + Len(c)
    BY <1>2, <1>3
  <2>2. Len(s) \in 0 .. Len(s)
    BY <2>1
  <2>3. Len(s) \in 0 .. l
    BY <1>4, <1>5, <2>2
  <2> QED
    BY <2>1, <2>3
<1>7. /\ DOMAIN cut = 0 .. l /\ cut[Len(n)] = 0
      /\ \A i \in 0 .. l : i # Len(n) => cut[i] = args[i]
  BY <1>2, <1>3, <1>5, <1>6
<1>8. Reads(cut, n)
  <2>1. 0 .. Len(n) \subseteq DOMAIN cut
    BY <1>2, <1>3, <1>5, <1>6, <1>7
  <2>2. ASSUME NEW i \in 0 .. Len(n) - 1
        PROVE  cut[i] = n[i + 1]
    <3>1. /\ i \in 0 .. l /\ i # Len(n) /\ i \in 0 .. Len(s) - 1
          /\ i + 1 \in 1 .. Len(n) /\ i + 1 \in 1 .. Len(h)
      BY <1>2, <1>3, <1>5, <1>6
    <3> QED
      BY <1>2, <1>3, <1>4, <1>7, <3>1
  <2> QED
    BY <1>7, <2>1, <2>2 DEF Reads
<1>9. Reads(f, c)
  <2>1. f = [i \in {j \in DOMAIN cut : j + (Len(n) + 1) \in DOMAIN cut} |->
                 cut[i + (Len(n) + 1)]]
    BY Zenon DEF From
  <2>2. 0 .. Len(c) \subseteq {j \in DOMAIN cut : j + (Len(n) + 1) \in DOMAIN cut}
    BY <1>2, <1>3, <1>5, <1>6, <1>7
  <2> HIDE DEF f
  <2>3. /\ 0 .. Len(c) \subseteq DOMAIN f
        /\ \A i \in 0 .. Len(c) : f[i] = cut[i + (Len(n) + 1)]
    BY <2>1, <2>2
  <2>4. ASSUME NEW i \in 0 .. Len(c)
        PROVE  f[i] = args[i + (Len(n) + 1)]
    <3>1. i + (Len(n) + 1) \in 0 .. l /\ i + (Len(n) + 1) # Len(n)
      BY <1>2, <1>3, <1>5, <1>6
    <3> QED
      BY <1>7, <2>3, <3>1
  <2>5. f[Len(c)] = 0
    <3>1. Len(c) \in 0 .. Len(c) /\ Len(c) + (Len(n) + 1) = Len(s)
      BY <1>2, <1>3, <1>6
    <3> QED
      BY <1>4, <2>4, <3>1
  <2>6. ASSUME NEW i \in 0 .. Len(c) - 1
        PROVE  f[i] = c[i + 1]
    <3>1. /\ i \in 0 .. Len(c) /\ i + (Len(n) + 1) \in 0 .. Len(s) - 1
          /\ i + 1 \in 1 .. Len(c) /\ i + (Len(n) + 1) + 1 = Len(h) + (i + 1)
      BY <1>2, <1>3, <1>6
    <3> QED
      BY <1>3, <1>4, <2>4, <3>1
  <2> QED
    BY <2>3, <2>5, <2>6 DEF Reads
<1> QED
  BY <1>8, <1>9 DEF f

\* strncmp with the length of a word asks whether the line begins with the word.
LEMMA StartsWithPrefix ==
    ASSUME NEW s \in Seq(Chars), NEW u \in Seq(Bytes), NEW p \in Seq(Chars)
    PROVE  StartsWith(Memory(s, u), p) <=> \E r \in Seq(Chars) : s = p \o r
<1> DEFINE n == Len(p)
           sn == Cut(s, n)
           pn == Cut(p, n)
<1>1. /\ Len(p) \in Nat /\ Len(s) \in Nat
      /\ \A i \in 1 .. Len(s) : s[i] \in Chars
  BY StackElements
<1>2. /\ sn \in Seq(Chars) /\ Len(sn) = IF n < Len(s) THEN n ELSE Len(s)
      /\ \A i \in 1 .. Len(sn) : sn[i] = s[i]
  BY <1>1, CutElements, Zenon
<1>3. /\ pn \in Seq(Chars) /\ Len(pn) = IF n < Len(p) THEN n ELSE Len(p)
      /\ \A i \in 1 .. Len(pn) : pn[i] = p[i]
  BY <1>1, CutElements, Zenon
<1>4. StartsWith(Memory(s, u), p) <=> sn = pn
  <2>1. <<>> \in Seq(Bytes)
    BY EmptySeq
  <2>2. Compares(strncmp(Memory(s, u), Memory(p, <<>>), n), sn, pn)
    BY <1>1, <2>1, StrncmpCompares
  <2> QED
    BY <2>2, Zenon DEF StartsWith, Compares
<1> DEFINE first == SubSeq(s, 1, n)
<1>5. sn = IF n < Len(s) THEN first ELSE SubSeq(s, 1, Len(s))
  BY Zenon DEF Cut
<1> HIDE DEF sn, pn
<1>6. pn = p
  <2>1. Len(pn) = Len(p)
    BY <1>1, <1>3
  <2> QED
    BY <1>3, <2>1, SeqEqual
<1>7. ASSUME sn = p
      PROVE  \E r \in Seq(Chars) : s = p \o r
  <2>1. n <= Len(s) /\ first = p
    BY <1>1, <1>2, <1>5, <1>7
  <2> DEFINE r == SubSeq(s, n + 1, Len(s))
  <2>2. r \in Seq(Chars)
    <3>1. n + 1 \in Int /\ \A i \in n + 1 .. Len(s) : s[i] \in Chars
      BY <1>1
    <3> QED
      BY <1>1, <3>1, SubSeqProperties
  <2>3. first \o r = SubSeq(s, 1, Len(s))
    <3>1. 1 \in 1 .. Len(s) + 1 /\ n \in 1 - 1 .. Len(s) /\ Len(s) \in n .. Len(s)
      BY <1>1, <2>1
    <3> QED
      BY <3>1, ConcatAdjacentSubSeq, Zenon
  <2>4. SubSeq(s, 1, Len(s)) = s
    BY SubSeqFull
  <2> QED
    BY <2>1, <2>2, <2>3, <2>4, Zenon
<1>8. ASSUME NEW r \in Seq(Chars), s = p \o r
      PROVE  sn = p
  <2>1. /\ Len(r) \in Nat /\ Len(s) = Len(p) + Len(r)
        /\ \A i \in 1 .. Len(p) : s[i] = p[i]
    BY <1>8, JoinedElements, Zenon
  <2>2. Len(sn) = Len(p)
    BY <1>1, <1>2, <2>1
  <2> QED
    BY <1>2, <2>1, <2>2, SeqEqual
<1> QED
  BY <1>4, <1>6, <1>7, <1>8

\* strcmp with a word asks whether the line is the word.
LEMMA IsCommandIsWord ==
    ASSUME NEW s \in Seq(Chars), NEW u \in Seq(Bytes), NEW w \in Words
    PROVE  IsCommand(Memory(s, u), w) <=> s = Ascii[w]
<1>1. Ascii[w] \in Seq(Chars) /\ <<>> \in Seq(Bytes)
  BY WordsAreBytes, EmptySeq DEF WordBytes
<1>2. Compares(strcmp(Memory(s, u), Memory(Ascii[w], <<>>)), s, Ascii[w])
  BY <1>1, StrcmpCompares
<1> QED
  BY <1>2, Zenon DEF IsCommand, Compares

\* A line that is a word runs that command, and any other line is one with arguments.
LEMMA LinesThatAreWords ==
    ASSUME NEW s \in Seq(Chars), NEW u \in Seq(Bytes)
    PROVE  /\ \A w \in Words : s = Ascii[w] => execute_command(Memory(s, u)) = Command(w)
           /\ (\A w \in Words : s # Ascii[w]) =>
                  execute_command(Memory(s, u)) = Dispatch(Memory(s, u))
<1> DEFINE m == Memory(s, u)
<1>1. \A w \in Words : IsCommand(m, w) <=> s = Ascii[w]
  BY IsCommandIsWord
<1> HIDE DEF m
<1>2. ASSUME NEW w \in Words, s = Ascii[w]
      PROVE  execute_command(m) = Command(w)
  <2> DEFINE chosen == CHOOSE x \in Words : IsCommand(m, x)
  <2>1. chosen \in Words /\ IsCommand(m, chosen)
    BY <1>1, <1>2
  <2>2. Ascii[chosen] = Ascii[w]
    BY <1>1, <1>2, <2>1, Zenon
  <2>3. chosen = w
    BY <2>1, <2>2, WordsDiffer, Zenon
  <2>4. execute_command(m) = Command(chosen)
    BY <2>1, Zenon DEF execute_command
  <2> QED
    BY <2>3, <2>4
<1>3. ASSUME \A w \in Words : s # Ascii[w]
      PROVE  execute_command(m) = Dispatch(m)
  BY <1>1, <1>3, Zenon DEF execute_command
<1> QED
  BY <1>2, <1>3 DEF m

\* The beginnings "cat " and "write ".
LEMMA CommandHeads ==
    /\ CatSpace \in Seq(Chars) /\ Len(CatSpace) = 4
    /\ CatSpace[1] = 99 /\ CatSpace[4] = Space
    /\ WriteSpace \in Seq(Chars) /\ Len(WriteSpace) = 6
    /\ WriteSpace[1] = 119 /\ WriteSpace[6] = Space
    /\ <<Space>> \in Seq(Chars) /\ Len(<<Space>>) = 1 /\ Space \in Chars /\ Space \in Bytes
  BY DEF CatSpace, WriteSpace, Chars, Bytes, Space

\* A line that begins with one of them is no word, and the command gets the rest of it.
LEMMA LinesWithArguments ==
    ASSUME NEW r \in Seq(Chars), NEW u \in Seq(Bytes)
    PROVE  /\ execute_command(Memory(CatSpace \o r, u)) =
                  CatCommand(From(Memory(CatSpace \o r, u), 4))
           /\ execute_command(Memory(WriteSpace \o r, u)) =
                  WriteCommand(From(Memory(WriteSpace \o r, u), 6))
<1> DEFINE a == CatSpace \o r
           b == WriteSpace \o r
<1>0. CatSpace \in Seq(Chars) /\ WriteSpace \in Seq(Chars)
  BY CommandHeads
<1>1. /\ a \in Seq(Chars) /\ Len(a) = 4 + Len(r)
      /\ a[1] = 99 /\ a[4] = Space
  <2>1. /\ a \in Seq(Chars) /\ Len(a) = Len(CatSpace) + Len(r)
        /\ \A i \in 1 .. Len(CatSpace) : a[i] = CatSpace[i]
    BY <1>0, JoinedElements, Zenon
  <2> HIDE DEF a
  <2> QED
    BY <2>1, CommandHeads
<1>2. /\ b \in Seq(Chars) /\ Len(b) = 6 + Len(r)
      /\ b[1] = 119 /\ b[6] = Space
  <2>1. /\ b \in Seq(Chars) /\ Len(b) = Len(WriteSpace) + Len(r)
        /\ \A i \in 1 .. Len(WriteSpace) : b[i] = WriteSpace[i]
    BY <1>0, JoinedElements, Zenon
  <2> HIDE DEF b
  <2> QED
    BY <2>1, CommandHeads
<1>3. Len(r) \in Nat
  BY LenProperties
<1>4. StartsWith(Memory(a, u), CatSpace) /\ StartsWith(Memory(b, u), WriteSpace)
  BY <1>1, <1>2, CommandHeads, StartsWithPrefix, Zenon
<1> HIDE DEF a, b
<1>5. ~ StartsWith(Memory(a, u), WriteSpace)
  <2> SUFFICES ASSUME NEW q \in Seq(Chars), a = WriteSpace \o q
               PROVE  FALSE
    BY <1>1, CommandHeads, StartsWithPrefix, Zenon
  <2>1. \A i \in 1 .. Len(WriteSpace) : a[i] = WriteSpace[i]
    BY <1>0, JoinedElements, Zenon
  <2>2. 1 \in 1 .. Len(WriteSpace) /\ WriteSpace[1] # 99
    BY CommandHeads
  <2> QED
    BY <1>1, <2>1, <2>2
<1>6. ~ StartsWith(Memory(b, u), CatSpace)
  <2> SUFFICES ASSUME NEW q \in Seq(Chars), b = CatSpace \o q
               PROVE  FALSE
    BY <1>2, CommandHeads, StartsWithPrefix, Zenon
  <2>1. \A i \in 1 .. Len(CatSpace) : b[i] = CatSpace[i]
    BY <1>0, JoinedElements, Zenon
  <2>2. 1 \in 1 .. Len(CatSpace) /\ CatSpace[1] # 119
    BY CommandHeads
  <2> QED
    BY <1>2, <2>1, <2>2
<1>7. \A w \in Words : a # Ascii[w] /\ b # Ascii[w]
  <2>1. 4 \in 1 .. Len(a) /\ 6 \in 1 .. Len(b)
    BY <1>1, <1>2, <1>3
  <2> QED
    BY <1>1, <1>2, <2>1, WordsAreBytes DEF WordBytes
<1>8. /\ execute_command(Memory(a, u)) = Dispatch(Memory(a, u))
      /\ execute_command(Memory(b, u)) = Dispatch(Memory(b, u))
  <2>1. execute_command(Memory(a, u)) = Dispatch(Memory(a, u))
    BY <1>1, <1>7, LinesThatAreWords
  <2>2. execute_command(Memory(b, u)) = Dispatch(Memory(b, u))
    BY <1>2, <1>7, LinesThatAreWords
  <2> QED
    BY <2>1, <2>2
<1>9. /\ Dispatch(Memory(a, u)) = CatCommand(From(Memory(a, u), 4))
      /\ Dispatch(Memory(b, u)) = WriteCommand(From(Memory(b, u), 6))
  BY <1>4, <1>5, <1>6 DEF Dispatch
<1> QED
  BY <1>8, <1>9 DEF a, b

\* A pointer into a buffer reaches to the buffer's end.
LEMMA FromMemory ==
    ASSUME NEW s \in Seq(Chars), NEW u \in Seq(Bytes), NEW k \in 0 .. Len(s)
    PROVE  \E l \in Nat : DOMAIN From(Memory(s, u), k) = 0 .. l
<1> DEFINE m == Memory(s, u)
           f == From(m, k)
           l == Len(s) + Len(u) - k
<1>1. Len(s) \in Nat /\ Len(u) \in Nat /\ DOMAIN m = 0 .. Len(s) + Len(u)
  BY MemoryBytes, Zenon
<1>2. DOMAIN f = {j \in DOMAIN m : j + k \in DOMAIN m}
  BY DEF From
<1> HIDE DEF m, f
<1>3. l \in Nat /\ DOMAIN f = 0 .. l
  BY <1>1, <1>2
<1> QED
  BY <1>3 DEF m, f

\* A string is empty if its length is 0.
LEMMA EmptyLength ==
    ASSUME NEW s \in Seq(Chars)
    PROVE  Len(s) \in Nat /\ (Len(s) = 0 <=> s = <<>>) /\ (Len(s) > 0 <=> s # <<>>)
  BY LenProperties, EmptySeq

\* cat runs with the whole rest of the line, or not at all.
LEMMA CatLines ==
    ASSUME NEW r \in Seq(Chars), NEW u \in Seq(Bytes)
    PROVE  execute_command(Memory(CatSpace \o r, u)) =
               IF r = <<>> THEN Command("usage") ELSE CatOf(r)
<1> DEFINE f == From(Memory(CatSpace \o r, u), 4)
<1>1. Reads(f, r)
  <2>1. CatSpace \in Seq(Chars) /\ Len(CatSpace) = 4
    BY CommandHeads
  <2>2. Reads(From(Memory(CatSpace \o r, u), Len(CatSpace)), r)
    BY <2>1, ReadsFrom, Zenon
  <2> QED
    BY <2>1, <2>2
<1>2. execute_command(Memory(CatSpace \o r, u)) = CatCommand(f)
  BY LinesWithArguments
<1> HIDE DEF f
<1>3. strlen(f) = Len(r) /\ Text(f) = r
  BY <1>1, ReadsText
<1>4. Len(r) = 0 <=> r = <<>>
  BY EmptyLength
<1> QED
  BY <1>2, <1>3, <1>4, Zenon DEF CatCommand

\* strchr finds the space behind the name.
LEMMA PlaceOfSpace ==
    ASSUME NEW n \in Seq(Chars), WordBytes(n), NEW c \in Seq(Chars),
           NEW args, Reads(args, n \o <<Space>> \o c)
    PROVE  strchr(args, Space) = Len(n)
<1> DEFINE h == n \o <<Space>>
           s == h \o c
<1>1. /\ <<Space>> \in Seq(Chars) /\ Len(<<Space>>) = 1 /\ Space \in Bytes
      /\ Space % 256 = Space
  BY CommandHeads DEF Space
<1>2. /\ h \in Seq(Chars) /\ Len(n) \in Nat /\ Len(h) = Len(n) + Len(<<Space>>)
      /\ \A i \in 1 .. Len(n) : h[i] = n[i]
      /\ \A i \in 1 .. Len(<<Space>>) : h[Len(n) + i] = <<Space>>[i]
  BY <1>1, JoinedElements, Zenon
<1>3. Len(h) = Len(n) + 1 /\ h[Len(n) + 1] = Space
  BY <1>1, <1>2
<1> HIDE DEF h
<1>4. /\ Len(c) \in Nat /\ Len(s) = Len(h) + Len(c)
      /\ \A i \in 1 .. Len(h) : s[i] = h[i]
  BY <1>2, JoinedElements, Zenon
<1>5. \A i \in 0 .. Len(s) - 1 : args[i] = s[i + 1] /\ args[i] # 0
  BY ReadsBytes DEF h
<1> HIDE DEF s
<1>6. args[Len(n)] = Space
  <2>1. Len(n) \in 0 .. Len(s) - 1 /\ Len(n) + 1 \in 1 .. Len(h)
    BY <1>2, <1>3, <1>4
  <2> QED
    BY <1>3, <1>4, <1>5, <2>1
<1>7. \A i \in 0 .. Len(n) - 1 : args[i] # Space /\ args[i] # 0
  <2> SUFFICES ASSUME NEW i \in 0 .. Len(n) - 1
               PROVE  args[i] # Space /\ args[i] # 0
    OBVIOUS
  <2>1. i \in 0 .. Len(s) - 1 /\ i + 1 \in 1 .. Len(h) /\ i + 1 \in 1 .. Len(n)
    BY <1>2, <1>3, <1>4
  <2>2. n[i + 1] # Space
    BY <2>1 DEF WordBytes
  <2> QED
    BY <1>2, <1>4, <1>5, <2>1, <2>2
<1>8. strchr(args, Space) = IF args[Len(n)] = Space THEN Len(n) ELSE NULL
  BY <1>1, <1>2, <1>6, <1>7, StrchrLoop
<1> QED
  BY <1>6, <1>8

\* write runs with the name before the first space and the content behind it, if neither
\* is empty.
LEMMA WriteArguments ==
    ASSUME NEW n \in Seq(Chars), WordBytes(n), NEW c \in Seq(Chars),
           NEW args, Reads(args, n \o <<Space>> \o c),
           \E l \in Nat : DOMAIN args = 0 .. l
    PROVE  WriteCommand(args) =
               IF n # <<>> /\ c # <<>> THEN WriteOf(n, c) ELSE Command("usage")
<1> DEFINE cut  == [args EXCEPT ![Len(n)] = 0]
           rest == From(cut, Len(n) + 1)
<1>1. strchr(args, Space) = Len(n)
  BY PlaceOfSpace
<1>2. Reads(cut, n) /\ Reads(rest, c)
  <2>1. Space \in Chars
    BY CommandHeads
  <2> QED
    BY <2>1, ReadsCut
<1>3. Len(n) # NULL
  BY EmptyLength DEF NULL
<1>4. WriteCommand(args) = IF strlen(cut) > 0 /\ strlen(rest) > 0
                           THEN WriteOf(Text(cut), Text(rest)) ELSE Command("usage")
  BY <1>1, <1>3 DEF WriteCommand
<1> HIDE DEF cut, rest
<1>5. /\ strlen(cut) = Len(n) /\ Text(cut) = n
      /\ strlen(rest) = Len(c) /\ Text(rest) = c
  BY <1>2, ReadsText
<1>6. (Len(n) > 0 <=> n # <<>>) /\ (Len(c) > 0 <=> c # <<>>)
  BY EmptyLength
<1> QED
  BY <1>4, <1>5, <1>6, Zenon

\* A string has no space, or a first one.
LEMMA SplitAtSpace ==
    ASSUME NEW r \in Seq(Chars)
    PROVE  \/ WordBytes(r)
           \/ \E n, c \in Seq(Chars) : WordBytes(n) /\ r = n \o <<Space>> \o c
<1> DEFINE Places == {i \in 1 .. Len(r) : r[i] = Space}
<1>1. /\ Len(r) \in Nat
      /\ \A i \in 1 .. Len(r) : r[i] \in Chars
  BY StackElements
<1>2. CASE Places = {}
  BY <1>2 DEF WordBytes
<1>3. CASE Places # {}
  <2>1. PICK k \in Places : \A i \in Places : k <= i
    <3>1. Places \in SUBSET Nat
      OBVIOUS
    <3> HIDE DEF Places
    <3> QED
      BY <1>3, <3>1, FirstOfNumbers
  <2>2. k \in 1 .. Len(r) /\ r[k] = Space
    OBVIOUS
  <2> DEFINE n == SubSeq(r, 1, k - 1)
             d == SubSeq(r, k, k)
             c == SubSeq(r, k + 1, Len(r))
             h == SubSeq(r, 1, k)
  <2>3. /\ n \in Seq(Chars) /\ Len(n) = k - 1
        /\ \A i \in 1 .. k - 1 : n[i] = r[i]
    <3>1. 1 \in Int /\ k - 1 \in Int /\ \A i \in 1 .. k - 1 : r[i] \in Chars
      BY <1>1, <2>2
    <3>2. /\ n \in Seq(Chars) /\ Len(n) = IF 1 <= k - 1 THEN k - 1 - 1 + 1 ELSE 0
          /\ \A i \in 1 .. k - 1 - 1 + 1 : n[i] = r[1 + i - 1]
      BY <3>1, SubSeqProperties
    <3> HIDE DEF n
    <3>3. Len(n) = k - 1
      BY <2>2, <3>2
    <3>4. ASSUME NEW i \in 1 .. k - 1
          PROVE  n[i] = r[i]
      <4>1. i \in 1 .. k - 1 - 1 + 1 /\ 1 + i - 1 = i
        BY <2>2
      <4> QED
        BY <3>2, <4>1
    <3> QED
      BY <3>2, <3>3, <3>4
  <2>4. c \in Seq(Chars)
    <3>1. k + 1 \in Int /\ Len(r) \in Int /\ \A i \in k + 1 .. Len(r) : r[i] \in Chars
      BY <1>1, <2>2
    <3> QED
      BY <3>1, SubSeqProperties
  <2>5. d = <<Space>>
    <3>1. /\ k \in Int /\ \A i \in k .. k : r[i] \in Chars
      BY <1>1, <2>2
    <3>2. /\ d \in Seq(Chars) /\ Len(d) = IF k <= k THEN k - k + 1 ELSE 0
          /\ \A i \in 1 .. k - k + 1 : d[i] = r[k + i - 1]
      BY <3>1, SubSeqProperties
    <3> HIDE DEF d
    <3>3. 1 \in 1 .. k - k + 1 /\ k + 1 - 1 = k /\ k - k + 1 = 1
      BY <2>2
    <3>5. Len(d) = 1 /\ d[1] = Space
      BY <2>2, <3>2, <3>3
    <3>6. \A i \in 1 .. 1 : d[i] = Space
      BY <3>5
    <3>4. <<Space>> \in Seq(Chars) /\ Len(<<Space>>) = 1
      BY CommandHeads
    <3> QED
      BY <3>2, <3>4, <3>5, <3>6, SeqEqual
  <2>6. n \o d = h
    <3>1. /\ 1 \in 1 .. Len(r) + 1 /\ k - 1 \in 1 - 1 .. Len(r) /\ k \in k - 1 .. Len(r)
          /\ k - 1 + 1 = k
      BY <1>1, <2>2
    <3>2. SubSeq(r, 1, k - 1) \o SubSeq(r, k - 1 + 1, k) = SubSeq(r, 1, k)
      BY <3>1, ConcatAdjacentSubSeq, Zenon
    <3> QED
      BY <3>1, <3>2
  <2>7. h \o c = SubSeq(r, 1, Len(r))
    <3>1. 1 \in 1 .. Len(r) + 1 /\ k \in 1 - 1 .. Len(r) /\ Len(r) \in k .. Len(r)
      BY <1>1, <2>2
    <3> QED
      BY <3>1, ConcatAdjacentSubSeq, Zenon
  <2>8. SubSeq(r, 1, Len(r)) = r
    BY SubSeqFull
  <2> HIDE DEF n, c, d, h
  <2>9. WordBytes(n)
    <3> SUFFICES ASSUME NEW i \in 1 .. Len(n), n[i] = Space
                 PROVE  FALSE
      BY <2>3 DEF WordBytes
    <3>1. i \in Places /\ ~ k <= i
      BY <1>1, <2>2, <2>3
    <3> HIDE DEF Places
    <3> QED
      BY <2>1, <3>1
  <2>10. r = n \o <<Space>> \o c
    BY <2>5, <2>6, <2>7, <2>8
  <2> QED
    BY <2>3, <2>4, <2>9, <2>10
<1> QED
  BY <1>2, <1>3

\* write without a space only prints its usage.
LEMMA NoArguments ==
    ASSUME NEW r \in Seq(Chars), WordBytes(r), NEW args, Reads(args, r)
    PROVE  WriteCommand(args) = Command("usage")
<1> DEFINE k == strchr(args, Space)
<1>1. /\ Len(r) \in Nat /\ args[Len(r)] = 0
      /\ \A i \in 0 .. Len(r) - 1 : args[i] = r[i + 1]
  BY ReadsBytes
<1>2. \/ k = NULL
      \/ k \in 0 .. Len(r) /\ args[k] = Space
  BY StrchrFinds, CommandHeads
<1> HIDE DEF k
<1>3. \A i \in 0 .. Len(r) : args[i] # Space
  <2> SUFFICES ASSUME NEW i \in 0 .. Len(r)
               PROVE  args[i] # Space
    OBVIOUS
  <2>1. CASE i = Len(r)
    BY <1>1, <2>1 DEF Space
  <2>2. CASE i # Len(r)
    <3>1. i \in 0 .. Len(r) - 1 /\ i + 1 \in 1 .. Len(r)
      BY <1>1, <2>2
    <3> QED
      BY <1>1, <3>1 DEF WordBytes
  <2> QED
    BY <2>1, <2>2
<1>4. k = NULL
  BY <1>2, <1>3
<1> QED
  BY <1>4, Zenon DEF WriteCommand, k

\* write <filename> <content>, as a line.
WriteLine(n, c) == WriteSpace \o n \o <<Space>> \o c

\* What write makes of the rest of its line.
LEMMA WriteLines ==
    ASSUME NEW r \in Seq(Chars), NEW u \in Seq(Bytes)
    PROVE  /\ WordBytes(r) =>
                  execute_command(Memory(WriteSpace \o r, u)) = Command("usage")
           /\ \A n, c \in Seq(Chars) :
                 WordBytes(n) /\ r = n \o <<Space>> \o c =>
                     execute_command(Memory(WriteSpace \o r, u)) =
                         IF n # <<>> /\ c # <<>> THEN WriteOf(n, c) ELSE Command("usage")
<1> DEFINE f == From(Memory(WriteSpace \o r, u), 6)
<1>1. execute_command(Memory(WriteSpace \o r, u)) = WriteCommand(f)
  BY LinesWithArguments
<1>2. WriteSpace \in Seq(Chars) /\ Len(WriteSpace) = 6
  BY CommandHeads
<1>3. Reads(f, r)
  <2>1. Reads(From(Memory(WriteSpace \o r, u), Len(WriteSpace)), r)
    BY <1>2, ReadsFrom, Zenon
  <2> QED
    BY <1>2, <2>1
<1>4. \E l \in Nat : DOMAIN f = 0 .. l
  <2> DEFINE s == WriteSpace \o r
  <2>1. s \in Seq(Chars) /\ Len(r) \in Nat /\ Len(s) = Len(WriteSpace) + Len(r)
    BY <1>2, JoinedElements, Zenon
  <2> HIDE DEF s
  <2>2. 6 \in 0 .. Len(s)
    BY <1>2, <2>1
  <2> QED
    BY <2>1, <2>2, FromMemory DEF s
<1> HIDE DEF f
<1>5. WordBytes(r) => WriteCommand(f) = Command("usage")
  BY <1>3, NoArguments
<1>6. ASSUME NEW n \in Seq(Chars), NEW c \in Seq(Chars), WordBytes(n),
             r = n \o <<Space>> \o c
      PROVE  WriteCommand(f) =
                 IF n # <<>> /\ c # <<>> THEN WriteOf(n, c) ELSE Command("usage")
  BY <1>3, <1>4, <1>6, WriteArguments
<1> QED
  BY <1>1, <1>5, <1>6

\* The rest of such a line.
LEMMA WriteLineParts ==
    ASSUME NEW n \in Seq(Chars), NEW c \in Seq(Chars)
    PROVE  /\ n \o <<Space>> \o c \in Seq(Chars)
           /\ WriteLine(n, c) = WriteSpace \o (n \o <<Space>> \o c)
<1>1. WriteSpace \in Seq(Chars) /\ <<Space>> \in Seq(Chars)
  BY CommandHeads
<1>2. n \o <<Space>> \in Seq(Chars)
  BY <1>1, JoinedElements
<1>3. n \o <<Space>> \o c \in Seq(Chars)
  BY <1>2, JoinedElements
<1>4. (WriteSpace \o n) \o <<Space>> = WriteSpace \o (n \o <<Space>>)
  BY <1>1, ConcatAssociative
<1>5. (WriteSpace \o (n \o <<Space>>)) \o c = WriteSpace \o ((n \o <<Space>>) \o c)
  <2> DEFINE h == n \o <<Space>>
  <2>1. WriteSpace \in Seq(Chars) /\ h \in Seq(Chars)
    BY <1>1, <1>2
  <2> HIDE DEF h
  <2>2. (WriteSpace \o h) \o c = WriteSpace \o (h \o c)
    BY <2>1, ConcatAssociative
  <2> QED
    BY <2>2, Zenon DEF h
<1> QED
  BY <1>3, <1>4, <1>5, Zenon DEF WriteLine

\* A line with a name and a content writes that content to that name.
LEMMA WriteLineRuns ==
    ASSUME NEW n \in Seq(Chars), NEW c \in Seq(Chars), NEW u \in Seq(Bytes),
           WordBytes(n), n # <<>>, c # <<>>
    PROVE  execute_command(Memory(WriteLine(n, c), u)) = WriteOf(n, c)
<1> DEFINE r == n \o <<Space>> \o c
<1>1. r \in Seq(Chars) /\ WriteLine(n, c) = WriteSpace \o r
  BY WriteLineParts, Zenon
<1>2. r = n \o <<Space>> \o c
  OBVIOUS
<1> HIDE DEF r
<1> QED
  BY <1>1, <1>2, WriteLines

\* A line is a word, a cat with a name, a write with a name and a content, or does nothing
\* but print its usage or that it is unknown.
LEMMA EveryLine ==
    ASSUME NEW s \in Seq(Chars), NEW u \in Seq(Bytes),
           NEW run, run = execute_command(Memory(s, u))
    PROVE  \/ \E w \in Words : s = Ascii[w] /\ run = Command(w)
           \/ \E r \in Seq(Chars) : s = CatSpace \o r /\ r # <<>> /\ run = CatOf(r)
           \/ \E n, c \in Seq(Chars) :
                 /\ WordBytes(n) /\ n # <<>> /\ c # <<>>
                 /\ s = WriteLine(n, c) /\ run = WriteOf(n, c)
           \/ run = Command("usage")
           \/ run = Command("unknown")
<1>1. CASE \E w \in Words : s = Ascii[w]
  BY <1>1, LinesThatAreWords
<1>2. CASE \E r \in Seq(Chars) : s = CatSpace \o r
  <2>1. PICK r \in Seq(Chars) : s = CatSpace \o r
    BY <1>2
  <2>2. run = IF r = <<>> THEN Command("usage") ELSE CatOf(r)
    BY <2>1, CatLines
  <2> QED
    BY <2>1, <2>2
<1>3. CASE \E r \in Seq(Chars) : s = WriteSpace \o r
  <2>1. PICK r \in Seq(Chars) : s = WriteSpace \o r
    BY <1>3
  <2>2. CASE WordBytes(r)
    BY <2>1, <2>2, WriteLines
  <2>3. CASE \E n, c \in Seq(Chars) : WordBytes(n) /\ r = n \o <<Space>> \o c
    <3>1. PICK n \in Seq(Chars), c \in Seq(Chars) :
                 WordBytes(n) /\ r = n \o <<Space>> \o c
      BY <2>3
    <3>2. run = IF n # <<>> /\ c # <<>> THEN WriteOf(n, c) ELSE Command("usage")
      BY <2>1, <3>1, WriteLines
    <3>3. s = WriteLine(n, c)
      BY <2>1, <3>1, WriteLineParts
    <3> QED
      BY <3>1, <3>2, <3>3
  <2> QED
    BY <2>2, <2>3, SplitAtSpace
<1>4. CASE /\ \A w \in Words : s # Ascii[w]
           /\ ~ \E r \in Seq(Chars) : s = CatSpace \o r
           /\ ~ \E r \in Seq(Chars) : s = WriteSpace \o r
  <2>1. run = Dispatch(Memory(s, u))
    BY <1>4, LinesThatAreWords
  <2>2. CatSpace \in Seq(Chars) /\ WriteSpace \in Seq(Chars)
    BY CommandHeads
  <2>3. ~ StartsWith(Memory(s, u), CatSpace) /\ ~ StartsWith(Memory(s, u), WriteSpace)
    BY <1>4, <2>2, StartsWithPrefix, Zenon
  <2> QED
    BY <2>1, <2>3 DEF Dispatch
<1> QED
  BY <1>1, <1>2, <1>3, <1>4

\* Two writes are the same command only with the same name and content.
LEMMA WritesDiffer ==
    ASSUME NEW m, NEW b, NEW n, NEW c, WriteOf(m, b) = WriteOf(n, c)
    PROVE  m = n /\ b = c
<1>1. /\ WriteOf(m, b).filename = m /\ WriteOf(n, c).filename = n
      /\ WriteOf(m, b).content = b /\ WriteOf(n, c).content = c
  BY DEF WriteOf
<1> QED
  BY <1>1, Zenon

\* The other commands differ by their word, or their name.
LEMMA RunsDiffer ==
    /\ \A w \in Words : w \notin {"cat", "write", "usage", "unknown"}
    /\ \A v, w : Command(v) = Command(w) => v = w
    /\ \A w, n : Command(w) = CatOf(n) => w = "cat"
    /\ \A w, n, c : Command(w) = WriteOf(n, c) => w = "write"
    /\ \A m, n : CatOf(m) = CatOf(n) => m = n
    /\ \A m, n, c : CatOf(m) # WriteOf(n, c)
<1>1. \A w \in Words : w \notin {"cat", "write", "usage", "unknown"}
  BY DEF Words, Ascii
<1>2. \A w : Command(w).command = w
  BY DEF Command
<1>3. \A n : CatOf(n).command = "cat" /\ CatOf(n).filename = n
  BY DEF CatOf
<1>4. \A n, c : /\ WriteOf(n, c).command = "write" /\ WriteOf(n, c).filename = n
                /\ WriteOf(n, c).content = c
  BY DEF WriteOf
<1>5. \A v, w : Command(v) = Command(w) => v = w
  BY <1>2
<1>6. \A w, n : Command(w) = CatOf(n) => w = "cat"
  BY <1>2, <1>3
<1>7. \A w, n, c : Command(w) = WriteOf(n, c) => w = "write"
  BY <1>2, <1>4
<1>8. \A m, n : CatOf(m) = CatOf(n) => m = n
  BY <1>3
<1>9. \A m, n, c : CatOf(m) # WriteOf(n, c)
  BY <1>3, <1>4
<1> QED
  BY <1>1, <1>5, <1>6, <1>7, <1>8, <1>9, Zenon

\* What a line is to be taken for.
Parsed(run, line) ==
    /\ \A n, c \in Seq(Chars) :
          run = WriteOf(n, c) <=>
              WordBytes(n) /\ n # <<>> /\ c # <<>> /\ line = WriteLine(n, c)
    /\ \A n \in Seq(Chars) : run = CatOf(n) <=> n # <<>> /\ line = CatSpace \o n
    /\ \A w \in Words : run = Command(w) <=> line = Ascii[w]

\* The same over the strings of a run, as LinesParseAsTyped asks it.
AgreesOn(line, old) ==
    LET run == execute_command(Memory(line, old))
    IN  /\ \A n, c \in Texts :
              run = WriteOf(n, c) <=>
                  /\ IsWord(n) /\ c # <<>>
                  /\ line = WriteSpace \o n \o <<Space>> \o c
        /\ \A n \in Texts :
              run = CatOf(n) <=> n # <<>> /\ line = CatSpace \o n
        /\ \A w \in Words : run = Command(w) <=> line = Ascii[w]

\* Every line, of any length and whatever the buffer held before, is taken for the command
\* that it is: a cat or a write with exactly the name and the content that were typed, and
\* any other command only for its word.
THEOREM LineIsParsed ==
    ASSUME NEW s \in Seq(Chars), NEW u \in Seq(Bytes),
           NEW run, run = execute_command(Memory(s, u))
    PROVE  Parsed(run, s)
<1>1. \/ \E w \in Words : s = Ascii[w] /\ run = Command(w)
      \/ \E r \in Seq(Chars) : s = CatSpace \o r /\ r # <<>> /\ run = CatOf(r)
      \/ \E n, c \in Seq(Chars) :
            /\ WordBytes(n) /\ n # <<>> /\ c # <<>>
            /\ s = WriteLine(n, c) /\ run = WriteOf(n, c)
      \/ run = Command("usage")
      \/ run = Command("unknown")
  BY EveryLine, Zenon
<1>2. ASSUME NEW n \in Seq(Chars), NEW c \in Seq(Chars), run = WriteOf(n, c)
      PROVE  WordBytes(n) /\ n # <<>> /\ c # <<>> /\ s = WriteLine(n, c)
  <2>1. \A w \in Words : run # Command(w)
    BY <1>2, RunsDiffer
  <2>2. \A r : run # CatOf(r)
    BY <1>2, RunsDiffer
  <2>3. run # Command("usage") /\ run # Command("unknown")
    <3>1. "usage" # "write" /\ "unknown" # "write"
      OBVIOUS
    <3> QED
      BY <1>2, <3>1, RunsDiffer
  <2>4. PICK n0 \in Seq(Chars), c0 \in Seq(Chars) :
              /\ WordBytes(n0) /\ n0 # <<>> /\ c0 # <<>>
              /\ s = WriteLine(n0, c0) /\ run = WriteOf(n0, c0)
    BY <1>1, <2>1, <2>2, <2>3
  <2>5. WriteOf(n0, c0) = WriteOf(n, c)
    BY <1>2, <2>4, Zenon
  <2>6. n0 = n /\ c0 = c
    BY <2>5, WritesDiffer
  <2>7. WordBytes(n0) /\ n0 # <<>> /\ c0 # <<>> /\ s = WriteLine(n0, c0)
    BY <2>4
  <2> QED
    BY <2>6, <2>7
<1>3. ASSUME NEW n \in Seq(Chars), run = CatOf(n)
      PROVE  n # <<>> /\ s = CatSpace \o n
  <2>1. \A w \in Words : run # Command(w)
    BY <1>3, RunsDiffer
  <2>2. \A m, c : run # WriteOf(m, c)
    BY <1>3, RunsDiffer
  <2>3. run # Command("usage") /\ run # Command("unknown")
    <3>1. "usage" # "cat" /\ "unknown" # "cat"
      OBVIOUS
    <3> QED
      BY <1>3, <3>1, RunsDiffer
  <2>4. PICK r \in Seq(Chars) : s = CatSpace \o r /\ r # <<>> /\ run = CatOf(r)
    BY <1>1, <2>1, <2>2, <2>3
  <2>5. r = n
    BY <1>3, <2>4, RunsDiffer
  <2> QED
    BY <2>4, <2>5
<1>4. ASSUME NEW w \in Words, run = Command(w)
      PROVE  s = Ascii[w]
  <2>1. \A r : run # CatOf(r)
    BY <1>4, RunsDiffer
  <2>2. \A m, c : run # WriteOf(m, c)
    BY <1>4, RunsDiffer
  <2>3. run # Command("usage") /\ run # Command("unknown")
    BY <1>4, RunsDiffer
  <2>4. PICK v \in Words : s = Ascii[v] /\ run = Command(v)
    BY <1>1, <2>1, <2>2, <2>3
  <2>5. v = w
    BY <1>4, <2>4, RunsDiffer
  <2> QED
    BY <2>4, <2>5
<1>5. ASSUME NEW n \in Seq(Chars), NEW c \in Seq(Chars), WordBytes(n), n # <<>>,
             c # <<>>, s = WriteLine(n, c)
      PROVE  run = WriteOf(n, c)
  BY <1>5, WriteLineRuns
<1>6. ASSUME NEW n \in Seq(Chars), n # <<>>, s = CatSpace \o n
      PROVE  run = CatOf(n)
  BY <1>6, CatLines
<1>7. ASSUME NEW w \in Words, s = Ascii[w]
      PROVE  run = Command(w)
  BY <1>7, LinesThatAreWords
<1> QED
  BY <1>2, <1>3, <1>4, <1>5, <1>6, <1>7 DEF Parsed

\* The beginnings of the run's lines are strings.
LEMMA HeadsAreStrings == Heads \subseteq Seq(Chars)
<1>1. <<>> \in Seq(Chars) /\ WriteSpace \in Seq(Chars) /\ CatSpace \in Seq(Chars)
  BY CommandHeads, EmptySeq
<1>2. WriteSpace # <<>> /\ CatSpace # <<>>
  BY DEF WriteSpace, CatSpace
<1>3. Front(WriteSpace) \in Seq(Chars) /\ Front(CatSpace) \in Seq(Chars)
  BY <1>1, <1>2, FrontElements
<1>4. \A w \in Words : Ascii[w] \in Seq(Chars)
  BY WordsAreBytes DEF WordBytes
<1> QED
  BY <1>1, <1>3, <1>4 DEF Heads

\* A name that was typed is a string with no space that is not empty.
LEMMA WordsOfText ==
    ASSUME NEW n \in Seq(Chars)
    PROVE  IsWord(n) <=> WordBytes(n) /\ n # <<>>
<1>1. DOMAIN n = 1 .. Len(n)
  BY LenProperties
<1> QED
  BY <1>1 DEF IsWord, WordBytes, ToSet

\* What LinesParseAsTyped asks, for strings up to any length.
LEMMA LinesAgreeAlways == LinesAgree
<1>1. ASSUME NEW head \in Heads, NEW tail \in Texts, NEW old \in {<<>>, Old}
      PROVE  AgreesOn(head \o tail, old)
  <2> DEFINE line == head \o tail
             run  == execute_command(Memory(line, old))
  <2>1. head \in Seq(Chars) /\ tail \in Seq(Chars)
    BY HeadsAreStrings, TextsAreStrings
  <2>2. line \in Seq(Chars)
    BY <2>1, JoinedElements
  <2>3. old \in Seq(Bytes)
    <3>1. <<>> \in Seq(Bytes) /\ Old \in Seq(Bytes)
      BY EmptySeq DEF Old, Bytes
    <3> QED
      BY <3>1
  <2> HIDE DEF line
  <2>4. Parsed(run, line)
    BY <2>2, <2>3, LineIsParsed
  <2> HIDE DEF run
  <2>5. ASSUME NEW n \in Texts, NEW c \in Texts
        PROVE  run = WriteOf(n, c) <=> /\ IsWord(n) /\ c # <<>>
                                       /\ line = WriteSpace \o n \o <<Space>> \o c
    <3>1. n \in Seq(Chars) /\ c \in Seq(Chars)
      BY TextsAreStrings
    <3>2. IsWord(n) <=> WordBytes(n) /\ n # <<>>
      BY <3>1, WordsOfText
    <3> QED
      BY <2>4, <3>1, <3>2, Zenon DEF Parsed, WriteLine
  <2>6. ASSUME NEW n \in Texts
        PROVE  run = CatOf(n) <=> n # <<>> /\ line = CatSpace \o n
    BY <2>4, TextsAreStrings DEF Parsed
  <2>7. \A w \in Words : run = Command(w) <=> line = Ascii[w]
    BY <2>4 DEF Parsed
  <2> QED
    BY <2>5, <2>6, <2>7, Zenon DEF AgreesOn, line, run
<1> QED
  BY <1>1, Zenon DEF LinesAgree, AgreesOn

\* Lines are parsed as they were typed, for every alphabet and length of a run.
THEOREM LinesAlwaysParse == Spec => []LinesParseAsTyped
<1>1. LinesAgree
  BY LinesAgreeAlways
<1>2. LinesParseAsTyped
  BY <1>1 DEF LinesParseAsTyped
<1> QED
  BY <1>2, PTL
=============================================================================
