---------------------------- MODULE ConsoleProofs ----------------------------
(***************************************************************************)
(* The console, for any size of the screen, any characters and any number  *)
(* of writes that meet, and the report of any exception.                   *)
(***************************************************************************)
EXTENDS Console, StackLemmas

----------------------------------------------------------------------------
(* Why they hold.                                                          *)

\* What is written where.
FrameInv(f) ==
    /\ f.pc \in {"clear", "home", "left"} => f.char = "clear"
    /\ f.pc = "newline" => f.char = "newline"
    /\ f.pc \in {"row", "scroll", "lastrow"} => f.char \in Marks \cup {"newline"}
    /\ f.pc \in {"column", "cell", "cursor"} => f.char \in Marks \cup {"backspace"}
    /\ f.pc \in {"back", "backrow"} => f.char = "backspace"
    /\ f.pc \in {"advance", "reload"} => f.char \in Marks

FramesInv == \A s \in Stacks : \A i \in DOMAIN writer[s] : FrameInv(writer[s][i])

(***************************************************************************)
(* Unless two stacks write, whatever is off the screen was put there, or   *)
(* loaded from there, on top of a write that is about to set the row.      *)
(***************************************************************************)
RowInv ==
    overlap # "preempted" =>
        /\ \E s \in Stacks : \A t \in Stacks \ {s} : writer[t] = <<>>
        /\ row >= Height =>
              \E s \in Stacks : \E j \in DOMAIN writer[s] : writer[s][j].pc \in SetsRow
        /\ \A s \in Stacks : \A i \in DOMAIN writer[s] :
              writer[s][i].row >= Height =>
                  \/ writer[s][i].pc \in {"clear", "home", "left"}
                  \/ SetByOneBelow(s, i)

(***************************************************************************)
(* A write f that meets no other, and the screen it found: what it has     *)
(* done of what it will do.                                                *)
(***************************************************************************)
Blanks == [i \in Places |-> Blank]

Screen(text, y, x) == buffer = text /\ row = y /\ column = x

\* What the character leaves on the page, before it scrolls.
Put(f, text, y, x) ==
    IF f.char = "newline" THEN text ELSE [text EXCEPT ![vga_get_index(x, y)] = f.char]

\* Where a backspace goes.
RowBefore(y, x) == IF x > 0 \/ y = 0 THEN y ELSE y - 1

ColumnBefore(y, x) == IF x > 0 THEN x - 1 ELSE IF y > 0 THEN Width - 1 ELSE 0

\* The screen that a character leaves.
Written(f, text, y, x) ==
    IF f.char = "clear" THEN <<Blanks, 0, 0>>
    ELSE IF f.char = "backspace"
    THEN LET v == RowBefore(y, x)
             u == ColumnBefore(y, x)
         IN  <<[text EXCEPT ![vga_get_index(u, v)] = Blank], v, u>>
    ELSE IF f.char # "newline" /\ x < Width - 1 THEN <<Put(f, text, y, x), y, x + 1>>
    ELSE IF y < Height - 1 THEN <<Put(f, text, y, x), y + 1, 0>>
    ELSE <<Scrolled(Put(f, text, y, x)), Height - 1, 0>>

\* A glyph that fills its line goes on as a newline does.
EndsLine(f, x) == f.char = "newline" \/ (x = Width - 1 /\ f.column = 0)

Done(f, text, y, x) ==
    /\ f.pc \in {"newline", "column", "clear"} => Screen(text, y, x) /\ f.row = y
    /\ f.pc = "row"     => Screen(Put(f, text, y, x), y, 0) /\ f.row = y /\ EndsLine(f, x)
    /\ f.pc = "scroll"  => /\ Screen(Put(f, text, y, x), Height, 0)
                           /\ y = Height - 1 /\ EndsLine(f, x)
    /\ f.pc = "lastrow" => /\ Screen(Scrolled(Put(f, text, y, x)), Height, 0)
                           /\ y = Height - 1 /\ EndsLine(f, x)
    /\ f.pc = "reload"  => /\ Screen(Scrolled(Put(f, text, y, x)), Height - 1, 0)
                           /\ y = Height - 1 /\ EndsLine(f, x)
    /\ f.pc = "back"    => Screen(text, y, x) /\ f.row = y /\ f.column = x
    /\ f.pc = "backrow" => /\ Screen(text, y, Width - 1) /\ x = 0 /\ y > 0
                           /\ f.row = y - 1 /\ f.column = Width - 1
    /\ f.pc = "cell"    => /\ f.row = row /\ f.column = column /\ buffer = text
                           /\ IF f.char = "backspace"
                              THEN row = RowBefore(y, x) /\ column = ColumnBefore(y, x)
                              ELSE row = y /\ column = x
    /\ f.pc = "advance" => Screen(Put(f, text, y, x), y, x) /\ f.row = y /\ f.column = x
    /\ f.pc = "cursor"  => /\ f.row = row /\ f.column = column
                           /\ <<buffer, row, column>> = Written(f, text, y, x)
    /\ f.pc = "home"    => Screen(Blanks, y, x)
    /\ f.pc = "left"    => Screen(Blanks, 0, x)

Texts == [Places -> Marks \cup {Blank}]

WriteInv ==
    overlap = "none" /\ ~Idle =>
        \E s \in Stacks, y \in 0 .. Height - 1, x \in 0 .. Width - 1 :
            /\ before[1] \in Texts /\ before = <<before[1], y, x, cursor>>
            /\ Len(writer[s]) = 1 /\ \A t \in Stacks \ {s} : writer[t] = <<>>
            /\ Done(writer[s][1], before[1], y, x)

(***************************************************************************)
(* After an exception: what of its report is on the screen, n characters   *)
(* of it, where the last one may just be being written.                    *)
(***************************************************************************)
Page(report, n) ==
    LET first == [Blanks EXCEPT ![0] = ToString(report.exception)]
        both  == [first EXCEPT ![Width] = ToString(report.error)]
    IN  << <<Blanks, 0, 0>>, <<first, 0, 1>>, <<first, 1, 0>>, <<both, 1, 1>> >>[n + 1]

Rest(report, n) == SubSeq(Message(report), n + 1, 3)

\* The clearing of the screen, f, with which the report begins.
Clears(f) ==
    /\ f.pc \in {"clear", "home", "left"}
    /\ f.pc # "clear" => buffer = Blanks
    /\ f.pc = "left" => row = 0

Reported(report, n) ==
    /\ left = Rest(report, n)
    /\ IF writer["main"] = <<>>
       THEN <<buffer, row, column>> = Page(report, n)
       ELSE /\ n > 0 /\ writer["main"][1].char = Message(report)[n]
            /\ <<before[1], before[2], before[3]>> = Page(report, n - 1)

ReportInv ==
    /\ overlap = "fault" => raised # {} /\ before = <<>>
    /\ \A vector \in raised :
          /\ raised = {vector}
          /\ writer["background"] = <<>> /\ Len(writer["main"]) <= 1
          /\ overlap \in {"fault", "none"}
          /\ overlap = "fault" =>
                /\ left = Message(Report(vector)) /\ writer["main"] # <<>>
                /\ Clears(writer["main"][1])
          /\ overlap = "none" => \E n \in 0 .. 3 : Reported(Report(vector), n)

ConsoleInv == TypeOK /\ FramesInv /\ RowInv /\ WriteInv /\ ReportInv

----------------------------------------------------------------------------
(* The report                                                              *)

\* The words of the frame that isr_handler reads are the exception and the error
\* code, whether or not the CPU pushed one.
LEMMA FrameIsReport ==
    ASSUME NEW vector \in Vectors
    PROVE  /\ isr_handler(registers_t(vector)) = Report(vector)
           /\ Report(vector).exception \in Vectors
           /\ Report(vector).error \in {0, ErrorCode}
<1> DEFINE A == CommonStubPushes
           B == StubPushes(vector)
           C == CpuPushes(vector)
<1>1. /\ Other \in Int /\ ErrorCode \in Int /\ vector \in Int
  BY DEF Other, ErrorCode, Vectors
<1>2. A \in Seq(Int) /\ Len(A) = 9
  <2>1. A \in [1 .. 9 -> Int]
    BY <1>1 DEF CommonStubPushes
  <2>2. A \in Seq(Int)
    BY <2>1, SeqDef
  <2>3. Len(A) \in Nat /\ 1 .. Len(A) = 1 .. 9
    BY <2>1, <2>2, LenProperties
  <2>4. PICK n \in Nat : n = Len(A) /\ 1 .. n = 1 .. 9
    BY <2>3
  <2>5. n = 9
    <3>1. 9 \in 1 .. n /\ (n >= 1 => n \in 1 .. 9)
      BY <2>4
    <3> QED
      BY <3>1
  <2> QED
    BY <2>2, <2>4, <2>5
<1>3. C \in Seq(Int) /\ (vector \in WithErrorCode => Len(C) >= 1 /\ C[1] = ErrorCode)
  <2>1. CASE vector \in WithErrorCode
    <3>1. C = <<ErrorCode>> \o <<Other, Other, Other>>
      BY <2>1 DEF CpuPushes
    <3>2. /\ <<ErrorCode>> \in Seq(Int) /\ <<Other, Other, Other>> \in Seq(Int)
          /\ Len(<<ErrorCode>>) = 1 /\ Len(<<Other, Other, Other>>) = 3
      BY <1>1
    <3>3. C \in Seq(Int) /\ Len(C) = 4 /\ C[1] = ErrorCode
      BY <3>1, <3>2, ConcatProperties
    <3> QED
      BY <3>3
  <2>2. CASE vector \notin WithErrorCode
    <3>1. C = <<>> \o <<Other, Other, Other>>
      BY <2>2 DEF CpuPushes
    <3>2. <<Other, Other, Other>> \in Seq(Int) /\ <<>> \in Seq(Int)
      BY <1>1
    <3> QED
      BY <2>2, <3>1, <3>2, ConcatProperties
  <2> QED
    BY <2>1, <2>2
<1>4. /\ B \in Seq(Int) /\ B[1] = vector
      /\ vector \in ISR_ERR => Len(B) = 1
      /\ vector \notin ISR_ERR => Len(B) = 2 /\ B[2] = 0
  <2>1. CASE vector \in ISR_ERR
    BY <1>1, <2>1 DEF StubPushes
  <2>2. CASE vector \notin ISR_ERR
    BY <1>1, <2>2 DEF StubPushes
  <2> QED
    BY <2>1, <2>2
<1>5. registers_t(vector) = A \o B \o C
  BY DEF registers_t
<1> HIDE DEF A, B, C
<1>6. /\ A \o B \in Seq(Int) /\ (A \o B)[10] = vector
      /\ vector \in ISR_ERR => Len(A \o B) = 10
      /\ vector \notin ISR_ERR => (Len(A \o B) = 11 /\ (A \o B)[11] = 0)
  <2>1. PICK k \in Nat : k = Len(B)
    BY <1>4, LenProperties
  <2>2. k \in {1, 2}
    BY <1>4, <2>1
  <2>3. /\ A \o B \in Seq(Int) /\ Len(A \o B) = 9 + k
        /\ \A i \in 1 .. 9 + k : (A \o B)[i] = IF i <= 9 THEN A[i] ELSE B[i - 9]
    <3>1. PICK D \in Seq(Int) : D = A
      BY <1>2
    <3>2. PICK E \in Seq(Int) : E = B
      BY <1>4
    <3>3. PICK m \in Nat : m = Len(D) /\ m = 9
      BY <1>2, <3>1
    <3>4. /\ D \o E \in Seq(Int) /\ Len(D \o E) = Len(D) + Len(E)
          /\ \A i \in 1 .. Len(D) + Len(E) :
                (D \o E)[i] = IF i <= Len(D) THEN D[i] ELSE E[i - Len(D)]
      BY ConcatProperties
    <3>5. Len(D) = 9 /\ Len(E) = k
      BY <2>1, <3>2, <3>3
    <3> QED
      BY <3>1, <3>2, <3>4, <3>5
  <2>4. (A \o B)[10] = B[1]
    <3>1. 10 \in 1 .. 9 + k /\ ~(10 <= 9) /\ 10 - 9 = 1
      BY <2>2
    <3> QED
      BY <2>3, <3>1
  <2>5. k = 2 => (A \o B)[11] = B[2]
    <3>1. k = 2 => 11 \in 1 .. 9 + k /\ ~(11 <= 9) /\ 11 - 9 = 2
      BY <2>2
    <3> QED
      BY <2>3, <3>1
  <2>6. CASE vector \in ISR_ERR
    <3>1. k = 1
      BY <1>4, <2>1, <2>6
    <3>2. Len(A \o B) = 10
      BY <2>3, <3>1
    <3> QED
      BY <1>4, <2>3, <2>4, <2>6, <3>2
  <2>7. CASE vector \notin ISR_ERR
    <3>1. k = 2
      BY <1>4, <2>1, <2>7
    <3>2. Len(A \o B) = 11
      BY <2>3, <3>1
    <3>3. B[2] = 0
      BY <1>4, <2>7
    <3> QED
      BY <1>4, <2>3, <2>4, <2>5, <2>7, <3>1, <3>2, <3>3
  <2> QED
    BY <2>6, <2>7
<1>7. /\ (A \o B \o C)[10] = vector
      /\ vector \in ISR_ERR => (A \o B \o C)[11] = C[1]
      /\ vector \notin ISR_ERR => (A \o B \o C)[11] = 0
  <2>1. PICK D \in Seq(Int) : D = A \o B
    BY <1>6
  <2>2. PICK k \in Nat : k = Len(C)
    BY <1>3, LenProperties
  <2>3. PICK n \in Nat : n = Len(D)
    BY <2>1, LenProperties
  <2>4. \A i \in 1 .. n + k : (D \o C)[i] = IF i <= n THEN D[i] ELSE C[i - n]
    BY <1>3, <2>1, <2>2, <2>3, ConcatProperties
  <2>5. CASE vector \in ISR_ERR
    <3>1. n = 10 /\ k >= 1
      BY <1>3, <1>6, <2>1, <2>2, <2>3, <2>5 DEF ISR_ERR, WithErrorCode
    <3>2. /\ 10 \in 1 .. n + k /\ 10 <= n
          /\ 11 \in 1 .. n + k /\ ~(11 <= n) /\ 11 - n = 1
      BY <3>1
    <3>3. (D \o C)[10] = D[10] /\ (D \o C)[11] = C[1]
      BY <2>4, <3>2
    <3> QED
      BY <1>6, <2>1, <2>5, <3>3
  <2>6. CASE vector \notin ISR_ERR
    <3>1. n = 11
      BY <1>6, <2>1, <2>3, <2>6
    <3>2. 10 \in 1 .. n + k /\ 10 <= n /\ 11 \in 1 .. n + k /\ 11 <= n
      BY <3>1
    <3>3. (D \o C)[10] = D[10] /\ (D \o C)[11] = D[11]
      BY <2>4, <3>2
    <3> QED
      BY <1>6, <2>1, <2>6, <3>3
  <2> QED
    BY <2>5, <2>6
<1>8. ISR_ERR = WithErrorCode
  BY DEF ISR_ERR, WithErrorCode
<1>9. isr_handler(registers_t(vector)) = Report(vector)
  BY <1>3, <1>5, <1>7, <1>8 DEF isr_handler, Report, int_no, err_code
<1> QED
  BY <1>9 DEF Report

\* What a report writes can be seen, and is not a control character.
LEMMA MessageIs ==
    ASSUME NEW vector \in Vectors
    PROVE  /\ ToString(Report(vector).exception) \in Marks
           /\ ToString(Report(vector).error) \in Marks
           /\ Message(Report(vector)) \in Seq(Marks \cup {"newline"})
           /\ Len(Message(Report(vector))) = 3
           /\ Message(Report(vector))[1] = ToString(Report(vector).exception)
           /\ Message(Report(vector))[2] = "newline"
           /\ Message(Report(vector))[3] = ToString(Report(vector).error)
<1>1. 0 \in Vectors
  BY DEF Vectors
<1>2. PICK a \in Marks : a = ToString(Report(vector).exception)
  BY FrameIsReport DEF Marks
<1>3. PICK b \in Marks : b = ToString(Report(vector).error)
  BY <1>1, FrameIsReport DEF Marks
<1>4. Message(Report(vector)) = <<a, "newline", b>>
  BY <1>2, <1>3 DEF Message
<1> QED
  BY <1>2, <1>3, <1>4

----------------------------------------------------------------------------
(* The stacks of writes                                                    *)

\* What is known of the write on top of a stack that is at a given place.
LEMMA AtTop ==
    ASSUME TypeOK, NEW s \in Stacks, NEW l \in Labels, At(s, l)
    PROVE  /\ writer[s] \in Seq(Frames) /\ writer[s] # <<>>
           /\ Len(writer[s]) \in Nat \ {0} /\ DOMAIN writer[s] = 1 .. Len(writer[s])
           /\ Top(s) = writer[s][Len(writer[s])] /\ Top(s) \in Frames /\ Top(s).pc = l
           /\ Top(s).char \in Marks \cup Controls
           /\ Top(s).row \in Nat /\ Top(s).column \in 0 .. Width - 1
<1>1. writer[s] \in Seq(Frames) /\ writer[s] # <<>> /\ Top(s).pc = l
  BY DEF TypeOK, At, Top
<1>2. Top(s) = writer[s][Len(writer[s])]
  BY DEF Top, Last
<1>3. /\ Len(writer[s]) \in Nat \ {0} /\ DOMAIN writer[s] = 1 .. Len(writer[s])
      /\ writer[s][Len(writer[s])] \in Frames
  BY <1>1, StackElements
<1>4. Top(s) \in Frames
  BY <1>2, <1>3
<1> QED
  BY <1>1, <1>2, <1>3, <1>4 DEF Frames

\* When the write on top goes on as g, all other writes stay what they are.
LEMMA WriteGoesOn ==
    ASSUME TypeOK, NEW s \in Stacks, writer[s] # <<>>, NEW g \in Frames, Becomes(s, g)
    PROVE  /\ writer' \in [Stacks -> Seq(Frames)]
           /\ writer'[s] # <<>> /\ Len(writer'[s]) = Len(writer[s])
           /\ DOMAIN writer'[s] = DOMAIN writer[s]
           /\ writer'[s][Len(writer[s])] = g
           /\ \A i \in DOMAIN writer[s] \ {Len(writer[s])} : writer'[s][i] = writer[s][i]
           /\ \A t \in Stacks \ {s} : writer'[t] = writer[t]
<1>1. PICK q \in Seq(Frames) : q = writer[s] /\ q # <<>>
  BY DEF TypeOK
<1>2. PICK n \in Nat \ {0} : n = Len(q) /\ DOMAIN q = 1 .. n
  BY <1>1, StackElements
<1>3. PICK r \in Seq(Frames) : r = Append(Front(q), g)
  BY <1>1, StackReplace
<1>4. DOMAIN r = DOMAIN q /\ r[n] = g /\ \A i \in DOMAIN q \ {n} : r[i] = q[i]
  BY <1>1, <1>2, <1>3, StackReplace
<1>5. Len(r) = n
  <2>1. Len(Front(q)) = n - 1 /\ Front(q) \in Seq(Frames)
    BY <1>1, <1>2, FrontElements
  <2> QED
    BY <1>2, <1>3, <2>1, AppendProperties
<1>6. r # <<>>
  BY <1>2, <1>5, StackElements
<1>7. writer' = [writer EXCEPT ![s] = r] /\ writer \in [Stacks -> Seq(Frames)]
  BY <1>1, <1>3 DEF Becomes, TypeOK
<1> QED
  BY <1>1, <1>2, <1>4, <1>5, <1>6, <1>7

\* When the write on top returns, those below it stay what they are.
LEMMA WriteReturns ==
    ASSUME TypeOK, NEW s \in Stacks, writer[s] # <<>>, Return(s)
    PROVE  /\ writer' \in [Stacks -> Seq(Frames)]
           /\ DOMAIN writer'[s] = 1 .. Len(writer[s]) - 1
           /\ Len(writer'[s]) = Len(writer[s]) - 1
           /\ Len(writer[s]) = 1 => writer'[s] = <<>>
           /\ \A i \in DOMAIN writer'[s] : writer'[s][i] = writer[s][i]
           /\ \A t \in Stacks \ {s} : writer'[t] = writer[t]
<1>1. PICK q \in Seq(Frames) : q = writer[s] /\ q # <<>>
  BY DEF TypeOK
<1>2. PICK r \in Seq(Frames) : r = Front(q)
  BY <1>1, StackPop
<1>3. PICK n \in Nat \ {0} : n = Len(q)
  BY <1>1, StackPop
<1>4. Len(r) = n - 1 /\ DOMAIN r = 1 .. n - 1 /\ \A i \in DOMAIN r : r[i] = q[i]
  BY <1>1, <1>2, <1>3, StackPop
<1>5. n = 1 => r = <<>>
  BY <1>4, StackElements
<1>6. writer' = [writer EXCEPT ![s] = r] /\ writer \in [Stacks -> Seq(Frames)]
  BY <1>1, <1>2 DEF Return, TypeOK
<1> QED
  BY <1>1, <1>3, <1>4, <1>5, <1>6

\* A write that begins is pushed on its stack.
LEMMA WriteBegins ==
    ASSUME TypeOK, NEW s \in Stacks, NEW g \in Frames,
           writer' = [writer EXCEPT ![s] = Append(@, g)]
    PROVE  /\ writer' \in [Stacks -> Seq(Frames)]
           /\ Len(writer[s]) \in Nat
           /\ Len(writer'[s]) = Len(writer[s]) + 1
           /\ DOMAIN writer[s] = 1 .. Len(writer[s])
           /\ DOMAIN writer'[s] = 1 .. Len(writer[s]) + 1
           /\ writer'[s][Len(writer[s]) + 1] = g
           /\ \A i \in DOMAIN writer[s] : writer'[s][i] = writer[s][i]
           /\ writer'[s] # <<>>
           /\ \A t \in Stacks \ {s} : writer'[t] = writer[t]
<1>1. PICK f \in [Stacks -> Seq(Frames)] : f = writer
  BY DEF TypeOK
<1>2. PICK h : h = [f EXCEPT ![s] = Append(@, g)]
  OBVIOUS
<1>3. /\ h \in [Stacks -> Seq(Frames)]
      /\ \A t \in Stacks \ {s} : h[t] = f[t]
      /\ Len(f[s]) \in Nat
      /\ Len(h[s]) = Len(f[s]) + 1
      /\ DOMAIN h[s] = 1 .. Len(f[s]) + 1 /\ DOMAIN f[s] = 1 .. Len(f[s])
      /\ h[s][Len(f[s]) + 1] = g
      /\ \A i \in DOMAIN f[s] : h[s][i] = f[s][i]
      /\ h[s] # <<>>
  BY <1>2, StackPush, SMTT(30)
<1>4. writer' = h
  BY <1>1, <1>2
<1> QED
  BY <1>1, <1>3, <1>4

\* A stack with one write, and a stack with none.
LEMMA OneWrite ==
    ASSUME NEW g \in Frames
    PROVE  /\ <<g>> \in Seq(Frames) /\ Len(<<g>>) = 1 /\ DOMAIN <<g>> = {1}
           /\ <<g>>[1] = g /\ <<g>> # <<>>
           /\ <<>> \in Seq(Frames) /\ DOMAIN <<>> = {} /\ Len(<<>>) = 0
  OBVIOUS

----------------------------------------------------------------------------
(* What is written where, and by whom the row is set                       *)

\* The invariant of a step that goes on: g is written where it may be.
LEMMA GoesOnFrames ==
    ASSUME TypeOK, FramesInv, NEW s \in Stacks, writer[s] # <<>>,
           NEW g \in Frames, FrameInv(g), Becomes(s, g)
    PROVE  FramesInv'
<1>1. SUFFICES ASSUME NEW t \in Stacks, NEW i \in DOMAIN writer'[t]
               PROVE  FrameInv(writer'[t][i])
  BY DEF FramesInv, FrameInv
<1>2. CASE t # s
  BY <1>1, <1>2, WriteGoesOn DEF FramesInv
<1>3. CASE t = s /\ i = Len(writer[s])
  BY <1>3, WriteGoesOn
<1>4. CASE t = s /\ i # Len(writer[s])
  <2>1. i \in DOMAIN writer[s] /\ writer'[s][i] = writer[s][i]
    BY <1>1, <1>4, WriteGoesOn
  <2> QED
    BY <1>4, <2>1 DEF FramesInv
<1> QED
  BY <1>2, <1>3, <1>4

\* A write that returns leaves the others where they may be.
LEMMA ReturnFrames ==
    ASSUME TypeOK, FramesInv, NEW s \in Stacks, writer[s] # <<>>, Return(s)
    PROVE  FramesInv'
<1>1. SUFFICES ASSUME NEW t \in Stacks, NEW i \in DOMAIN writer'[t]
               PROVE  FrameInv(writer'[t][i])
  BY DEF FramesInv, FrameInv
<1>2. CASE t # s
  BY <1>1, <1>2, WriteReturns DEF FramesInv
<1>3. CASE t = s
  <2>1. writer[s] \in Seq(Frames)
    BY DEF TypeOK
  <2>2. DOMAIN writer[s] = 1 .. Len(writer[s]) /\ Len(writer[s]) \in Nat
    BY <2>1, StackElements
  <2>3. i \in 1 .. Len(writer[s]) - 1 /\ writer'[s][i] = writer[s][i]
    BY <1>1, <1>3, WriteReturns
  <2>4. i \in DOMAIN writer[s]
    BY <2>2, <2>3
  <2> QED
    BY <1>3, <2>3, <2>4 DEF FramesInv
<1> QED
  BY <1>2, <1>3

\* What is off the screen, when a write runs that does not set the row, was put
\* there on top of one that does.
LEMMA OffScreen ==
    ASSUME TypeOK, RowInv, overlap # "preempted", NEW s \in Stacks, writer[s] # <<>>
    PROVE  /\ row >= Height /\ Top(s).pc \notin SetsRow => SetByOneBelow(s, Len(writer[s]))
           /\ Top(s).row >= Height /\ Top(s).pc \notin {"clear", "home", "left"}
                => SetByOneBelow(s, Len(writer[s]))
<1>1. PICK n \in Nat \ {0} : n = Len(writer[s]) /\ DOMAIN writer[s] = 1 .. n
  BY StackElements DEF TypeOK
<1>2. Top(s) = writer[s][n]
  BY <1>1 DEF Top, Last
<1>3. \A t \in Stacks \ {s} : writer[t] = <<>>
  BY DEF RowInv
<1>4. ASSUME row >= Height, Top(s).pc \notin SetsRow
      PROVE  SetByOneBelow(s, n)
  <2>1. PICK t \in Stacks : \E j \in DOMAIN writer[t] : writer[t][j].pc \in SetsRow
    BY <1>4 DEF RowInv
  <2>2. t = s
    <3>1. DOMAIN <<>> = {}
      OBVIOUS
    <3> QED
      BY <1>3, <2>1, <3>1
  <2>3. PICK j \in 1 .. n : writer[s][j].pc \in SetsRow
    BY <1>1, <2>1, <2>2
  <2>4. j \in 1 .. n - 1
    BY <1>2, <1>4, <2>3
  <2> QED
    BY <2>3, <2>4 DEF SetByOneBelow
<1>5. ASSUME Top(s).row >= Height, Top(s).pc \notin {"clear", "home", "left"}
      PROVE  SetByOneBelow(s, n)
  <2>1. n \in DOMAIN writer[s]
    BY <1>1
  <2> QED
    BY <1>2, <1>5, <2>1 DEF RowInv
<1> QED
  BY <1>1, <1>4, <1>5

\* The row stays accounted for when a write goes on as g.
LEMMA GoesOnRow ==
    ASSUME TypeOK, RowInv, NEW s \in Stacks, writer[s] # <<>>,
           NEW g \in Frames, Becomes(s, g), row' \in Nat,
           overlap' = "preempted" <=> overlap = "preempted",
           overlap # "preempted" =>
               /\ row' >= Height => g.pc \in SetsRow \/ SetByOneBelow(s, Len(writer[s]))
               /\ g.row >= Height => \/ g.pc \in {"clear", "home", "left"}
                                     \/ SetByOneBelow(s, Len(writer[s]))
    PROVE  RowInv'
<1>1. SUFFICES ASSUME overlap' # "preempted"
               PROVE  /\ \E t \in Stacks : \A u \in Stacks \ {t} : writer'[u] = <<>>
                      /\ row' >= Height =>
                            \E t \in Stacks : \E j \in DOMAIN writer'[t] :
                                writer'[t][j].pc \in SetsRow
                      /\ \A t \in Stacks : \A i \in DOMAIN writer'[t] :
                            writer'[t][i].row >= Height =>
                                \/ writer'[t][i].pc \in {"clear", "home", "left"}
                                \/ SetByOneBelow(t, i)'
  BY DEF RowInv, SetsRow
<1>2. PICK n \in Nat \ {0} : n = Len(writer[s]) /\ DOMAIN writer[s] = 1 .. n
  BY StackElements DEF TypeOK
<1>3. \A t \in Stacks \ {s} : writer[t] = <<>>
  BY <1>1 DEF RowInv
<1>4. \A t \in Stacks \ {s} : writer'[t] = <<>>
  BY <1>3, WriteGoesOn
<1>5. /\ DOMAIN writer'[s] = 1 .. n /\ writer'[s][n] = g
      /\ \A i \in 1 .. n - 1 : writer'[s][i] = writer[s][i]
  BY <1>2, WriteGoesOn
<1>6. ASSUME NEW i \in 1 .. n, SetByOneBelow(s, i)
      PROVE  SetByOneBelow(s, i)'
  <2>1. PICK j \in 1 .. i - 1 : writer[s][j].pc \in SetsRow
    BY <1>6 DEF SetByOneBelow
  <2>2. j \in 1 .. n - 1
    BY <2>1
  <2>3. writer'[s][j].pc \in SetsRow
    BY <1>5, <2>1, <2>2
  <2> QED
    BY <2>1, <2>3 DEF SetByOneBelow, SetsRow
<1>7. ASSUME row' >= Height
      PROVE  \E j \in DOMAIN writer'[s] : writer'[s][j].pc \in SetsRow
  <2>1. CASE g.pc \in SetsRow
    BY <1>5, <2>1
  <2>2. CASE SetByOneBelow(s, n)
    <3>1. PICK j \in 1 .. n - 1 : writer[s][j].pc \in SetsRow
      BY <2>2 DEF SetByOneBelow
    <3> QED
      BY <1>5, <3>1
  <2> QED
    BY <1>1, <1>2, <1>7, <2>1, <2>2
<1>8. ASSUME NEW t \in Stacks, NEW i \in DOMAIN writer'[t], writer'[t][i].row >= Height
      PROVE  \/ writer'[t][i].pc \in {"clear", "home", "left"}
             \/ SetByOneBelow(t, i)'
  <2>1. t = s /\ i \in 1 .. n
    BY <1>4, <1>5, <1>8, OneWrite
  <2>2. CASE i = n
    BY <1>1, <1>2, <1>5, <1>6, <1>8, <2>1, <2>2
  <2>3. CASE i # n
    <3>1. i \in 1 .. n - 1 /\ writer'[s][i] = writer[s][i]
      BY <1>5, <2>1, <2>3
    <3>2. writer[s][i].row >= Height => \/ writer[s][i].pc \in {"clear", "home", "left"}
                                        \/ SetByOneBelow(s, i)
      BY <1>1, <1>2, <2>1 DEF RowInv
    <3> QED
      BY <1>6, <1>8, <2>1, <3>1, <3>2
  <2> QED
    BY <2>2, <2>3
<1> QED
  BY <1>4, <1>7, <1>8

\* The row is accounted for when a write returns, if what is off the screen was put
\* there on top of a write that is still open.
LEMMA ReturnRow ==
    ASSUME TypeOK, RowInv, NEW s \in Stacks, writer[s] # <<>>, Return(s), row' \in Nat,
           overlap' = "preempted" <=> overlap = "preempted",
           overlap # "preempted" => (row' >= Height => SetByOneBelow(s, Len(writer[s])))
    PROVE  RowInv'
<1>1. SUFFICES ASSUME overlap' # "preempted"
               PROVE  /\ \E t \in Stacks : \A u \in Stacks \ {t} : writer'[u] = <<>>
                      /\ row' >= Height =>
                            \E t \in Stacks : \E j \in DOMAIN writer'[t] :
                                writer'[t][j].pc \in SetsRow
                      /\ \A t \in Stacks : \A i \in DOMAIN writer'[t] :
                            writer'[t][i].row >= Height =>
                                \/ writer'[t][i].pc \in {"clear", "home", "left"}
                                \/ SetByOneBelow(t, i)'
  BY DEF RowInv, SetsRow
<1>2. PICK n \in Nat \ {0} : n = Len(writer[s]) /\ DOMAIN writer[s] = 1 .. n
  BY StackElements DEF TypeOK
<1>3. \A t \in Stacks \ {s} : writer[t] = <<>>
  BY <1>1 DEF RowInv
<1>4. \A t \in Stacks \ {s} : writer'[t] = <<>>
  BY <1>3, WriteReturns
<1>5. /\ DOMAIN writer'[s] = 1 .. n - 1
      /\ \A i \in 1 .. n - 1 : writer'[s][i] = writer[s][i]
  BY <1>2, WriteReturns
<1>6. ASSUME NEW i \in 1 .. n, SetByOneBelow(s, i)
      PROVE  SetByOneBelow(s, i)'
  <2>1. PICK j \in 1 .. i - 1 : writer[s][j].pc \in SetsRow
    BY <1>6 DEF SetByOneBelow
  <2>2. j \in 1 .. n - 1
    BY <2>1
  <2>3. writer'[s][j].pc \in SetsRow
    BY <1>5, <2>1, <2>2
  <2> QED
    BY <2>1, <2>3 DEF SetByOneBelow, SetsRow
<1>7. ASSUME row' >= Height
      PROVE  \E j \in DOMAIN writer'[s] : writer'[s][j].pc \in SetsRow
  <2>1. PICK j \in 1 .. n - 1 : writer[s][j].pc \in SetsRow
    BY <1>1, <1>2, <1>7 DEF SetByOneBelow
  <2> QED
    BY <1>5, <2>1
<1>8. ASSUME NEW t \in Stacks, NEW i \in DOMAIN writer'[t], writer'[t][i].row >= Height
      PROVE  \/ writer'[t][i].pc \in {"clear", "home", "left"}
             \/ SetByOneBelow(t, i)'
  <2>1. t = s /\ i \in 1 .. n - 1
    BY <1>4, <1>5, <1>8, OneWrite
  <2>2. writer'[s][i] = writer[s][i] /\ i \in DOMAIN writer[s] /\ i \in 1 .. n
    BY <1>2, <1>5, <2>1
  <2>3. writer[s][i].row >= Height => \/ writer[s][i].pc \in {"clear", "home", "left"}
                                      \/ SetByOneBelow(s, i)
    BY <1>1, <2>2 DEF RowInv
  <2> QED
    BY <1>6, <1>8, <2>1, <2>2, <2>3
<1> QED
  BY <1>4, <1>7, <1>8

----------------------------------------------------------------------------
(* What holds however writes meet, action by action                        *)

\* The part of ConsoleInv that does not say what a single write has done.
BasicInv == TypeOK /\ FramesInv /\ RowInv

\* What the basic invariant says of the write that runs.
LEMMA TopFrame ==
    ASSUME BasicInv, NEW s \in Stacks, NEW l \in Labels, At(s, l)
    PROVE  /\ writer[s] # <<>> /\ Top(s) \in Frames /\ FrameInv(Top(s)) /\ Top(s).pc = l
           /\ Top(s).char \in Marks \cup Controls
           /\ Top(s).row \in Nat /\ Top(s).column \in 0 .. Width - 1
<1>1. /\ writer[s] # <<>> /\ Top(s) = writer[s][Len(writer[s])]
      /\ Len(writer[s]) \in DOMAIN writer[s]
  BY AtTop DEF BasicInv
<1> QED
  BY <1>1, AtTop DEF BasicInv, FramesInv

\* A step in which the write of s goes on as g keeps BasicInv, if g is where it may be
\* and a row below the screen is accounted for.
LEMMA GoesOn ==
    ASSUME BasicInv, NEW s \in Stacks, writer[s] # <<>>,
           NEW g \in Frames, FrameInv(g), Becomes(s, g),
           buffer' \in [Places -> Marks \cup {Blank}], row' \in Nat,
           column' \in 0 .. Width - 1, cursor' \in Nat, fault' = fault, overlap' = overlap,
           overlap # "preempted" =>
               /\ row' >= Height => g.pc \in SetsRow \/ SetByOneBelow(s, Len(writer[s]))
               /\ g.row >= Height => \/ g.pc \in {"clear", "home", "left"}
                                     \/ SetByOneBelow(s, Len(writer[s]))
    PROVE  BasicInv'
<1>1. FramesInv'
  BY GoesOnFrames DEF BasicInv
<1>2. RowInv'
  BY GoesOnRow DEF BasicInv
<1>3. writer' \in [Stacks -> Seq(Frames)]
  BY WriteGoesOn DEF BasicInv
<1>4. TypeOK'
  BY <1>3 DEF TypeOK, BasicInv, fault
<1> QED
  BY <1>1, <1>2, <1>4 DEF BasicInv

\* A step in which the write of s returns keeps BasicInv, if a row below the screen is
\* accounted for.
LEMMA Returns ==
    ASSUME BasicInv, NEW s \in Stacks, writer[s] # <<>>, Return(s),
           buffer' \in [Places -> Marks \cup {Blank}], row' \in Nat,
           column' \in 0 .. Width - 1, cursor' \in Nat, fault' = fault,
           overlap' \in {"none", "nested", "preempted", "fault"},
           overlap' = "preempted" <=> overlap = "preempted",
           overlap # "preempted" => (row' >= Height => SetByOneBelow(s, Len(writer[s])))
    PROVE  BasicInv'
<1>1. FramesInv'
  BY ReturnFrames DEF BasicInv
<1>2. RowInv'
  BY ReturnRow DEF BasicInv
<1>3. writer' \in [Stacks -> Seq(Frames)]
  BY WriteReturns DEF BasicInv
<1>4. TypeOK'
  BY <1>3 DEF TypeOK, BasicInv, fault
<1> QED
  BY <1>1, <1>2, <1>4 DEF BasicInv

\* The screen has at least two lines of two places, and vga_get_index is a number.
LEMMA Sizes ==
    /\ Width \in Nat \ {0, 1} /\ Height \in Nat \ {0, 1}
    /\ Cells \in Nat
    /\ 0 \in 0 .. Width - 1 /\ Width - 1 \in 0 .. Width - 1
    /\ \A x \in 0 .. Width - 1, y \in Nat : vga_get_index(x, y) \in Nat
<1>1. PICK w \in Nat : w = Width
  BY SizeAssumption
<1>2. \A m, n \in Nat : m * n \in Nat
  OBVIOUS
<1>3. ASSUME NEW x \in 0 .. Width - 1, NEW y \in Nat
      PROVE  vga_get_index(x, y) \in Nat
  <2>1. PICK p \in Nat : p = y * w
    BY <1>1, <1>2
  <2>2. x \in Nat
    BY SizeAssumption
  <2> QED
    BY <1>1, <2>1, <2>2 DEF vga_get_index
<1>4. Cells \in Nat
  BY <1>2, SizeAssumption DEF Cells
<1> QED
  BY <1>3, <1>4, SizeAssumption

\* Column = 0 of a newline keeps BasicInv.
LEMMA NewlineBasic ==
    ASSUME BasicInv, NEW s \in Stacks, Newline(s)
    PROVE  BasicInv'
<1>1. At(s, "newline") /\ "newline" \in Labels
  BY DEF Newline, Labels
<1>2. /\ writer[s] # <<>> /\ Top(s) \in Frames /\ FrameInv(Top(s)) /\ Top(s).pc = "newline"
      /\ Top(s).row \in Nat
  BY <1>1, TopFrame
<1>3. PICK g \in Frames : g = [Top(s) EXCEPT !.pc = "row"]
  BY <1>2 DEF Frames, Labels
<1>4. FrameInv(g) /\ g.pc = "row" /\ g.row = Top(s).row
  BY <1>2, <1>3 DEF FrameInv, Frames
<1>5. Becomes(s, g)
  BY <1>3 DEF Newline, Goto
<1>6. /\ buffer' \in [Places -> Marks \cup {Blank}] /\ row' = row /\ row' \in Nat
      /\ column' \in 0 .. Width - 1 /\ cursor' \in Nat
      /\ fault' = fault /\ overlap' = overlap
  BY Sizes DEF Newline, Step, TypeOK, BasicInv
<1>7. overlap # "preempted" =>
          /\ row' >= Height => g.pc \in SetsRow \/ SetByOneBelow(s, Len(writer[s]))
          /\ g.row >= Height => \/ g.pc \in {"clear", "home", "left"}
                                \/ SetByOneBelow(s, Len(writer[s]))
  BY <1>2, <1>4, <1>6, OffScreen DEF BasicInv, SetsRow
<1> QED
  BY <1>2, <1>4, <1>5, <1>6, <1>7, GoesOn

\* The row is a number, the column is one of the screen's, and the buffer holds
\* characters.
LEMMA RowNat ==
    ASSUME BasicInv
    PROVE  row \in Nat /\ column \in 0 .. Width - 1 /\ buffer \in [Places -> Marks \cup {Blank}]
  BY DEF BasicInv, TypeOK

\* The buffer after vga_scroll has moved the lines holds characters only.
LEMMA ScrolledText ==
    \A text \in [Places -> Marks \cup {Blank}] :
        Scrolled(text) \in [Places -> Marks \cup {Blank}]
<1> SUFFICES ASSUME NEW text \in [Places -> Marks \cup {Blank}], NEW i \in Places,
                    i \div Width < Height - 1
             PROVE  i + Width \in Places
  BY DEF Scrolled
<1>1. PICK w \in Nat \ {0} : w = Width
  BY SizeAssumption
<1>2. PICK h \in Nat \ {0} : h = Height
  BY SizeAssumption
<1>3. PICK q \in Nat : q = i \div w
  BY <1>1 DEF Places
<1>4. q * w <= i /\ i < (q + 1) * w
  BY <1>1, <1>3 DEF Places
<1>5. q + 2 <= h
  BY <1>1, <1>2, <1>3
<1>6. (q + 2) * w <= h * w
  BY <1>5
<1>7. i + w < (q + 2) * w
  BY <1>4 DEF Places
<1> QED
  BY <1>1, <1>2, <1>6, <1>7 DEF Places, Cells

\* Vga_scroll moving the lines up keeps BasicInv.
LEMMA ScrollLinesBasic ==
    ASSUME BasicInv, NEW s \in Stacks, ScrollLines(s)
    PROVE  BasicInv'
<1>1. At(s, "scroll") /\ "scroll" \in Labels
  BY DEF ScrollLines, Labels
<1>2. /\ writer[s] # <<>> /\ Top(s) \in Frames /\ FrameInv(Top(s)) /\ Top(s).pc = "scroll"
      /\ Top(s).row \in Nat /\ Top(s).column \in 0 .. Width - 1
  BY <1>1, TopFrame
<1>3. PICK g \in Frames : g = [Top(s) EXCEPT !.pc = "lastrow"]
  BY <1>2 DEF Frames, Labels
<1>4. FrameInv(g) /\ g.pc = "lastrow" /\ g.row = Top(s).row
  BY <1>2, <1>3 DEF FrameInv, Frames
<1>5. Becomes(s, g)
  BY <1>3 DEF ScrollLines, Goto
<1>6. /\ buffer' \in [Places -> Marks \cup {Blank}] /\ row' = row /\ row' \in Nat
      /\ column' \in 0 .. Width - 1 /\ cursor' \in Nat
      /\ fault' = fault /\ overlap' = overlap
  BY Sizes, ScrolledText DEF ScrollLines, Step, screen, TypeOK, BasicInv
<1>7. overlap # "preempted" =>
          /\ row' >= Height => g.pc \in SetsRow \/ SetByOneBelow(s, Len(writer[s]))
          /\ g.row >= Height => \/ g.pc \in {"clear", "home", "left"}
                                \/ SetByOneBelow(s, Len(writer[s]))
  BY <1>2, <1>4, <1>6, OffScreen DEF BasicInv, SetsRow
<1> QED
  BY <1>2, <1>4, <1>5, <1>6, <1>7, GoesOn

\* The second load of row, behind vga_scroll, keeps BasicInv.
LEMMA ReloadRowBasic ==
    ASSUME BasicInv, NEW s \in Stacks, ReloadRow(s)
    PROVE  BasicInv'
<1>1. At(s, "reload") /\ "reload" \in Labels
  BY DEF ReloadRow, Labels
<1>2. /\ writer[s] # <<>> /\ Top(s) \in Frames /\ FrameInv(Top(s)) /\ Top(s).pc = "reload"
      /\ Top(s).row \in Nat /\ Top(s).column \in 0 .. Width - 1
  BY <1>1, TopFrame
<1>3. PICK g \in Frames : g = [Top(s) EXCEPT !.pc = "cursor", !.row = row]
  BY <1>2, RowNat DEF Frames, Labels
<1>4. FrameInv(g) /\ g.pc = "cursor" /\ g.row = row
  BY <1>2, <1>3 DEF FrameInv, Frames
<1>5. Becomes(s, g)
  BY <1>3 DEF ReloadRow
<1>6. /\ buffer' \in [Places -> Marks \cup {Blank}] /\ row' = row /\ row' \in Nat
      /\ column' \in 0 .. Width - 1 /\ cursor' \in Nat
      /\ fault' = fault /\ overlap' = overlap
  BY Sizes DEF ReloadRow, Step, screen, TypeOK, BasicInv
<1>7. overlap # "preempted" =>
          /\ row' >= Height => g.pc \in SetsRow \/ SetByOneBelow(s, Len(writer[s]))
          /\ g.row >= Height => \/ g.pc \in {"clear", "home", "left"}
                                \/ SetByOneBelow(s, Len(writer[s]))
  BY <1>2, <1>4, <1>6, OffScreen DEF BasicInv, SetsRow
<1> QED
  BY <1>2, <1>4, <1>5, <1>6, <1>7, GoesOn

\* The load of column for a glyph or a backspace keeps BasicInv.
LEMMA LoadColumnBasic ==
    ASSUME BasicInv, NEW s \in Stacks, LoadColumn(s)
    PROVE  BasicInv'
<1>1. At(s, "column") /\ "column" \in Labels
  BY DEF LoadColumn, Labels
<1>2. /\ writer[s] # <<>> /\ Top(s) \in Frames /\ FrameInv(Top(s)) /\ Top(s).pc = "column"
      /\ Top(s).row \in Nat /\ Top(s).column \in 0 .. Width - 1
  BY <1>1, TopFrame
<1>3. PICK g \in Frames : g = [Top(s) EXCEPT !.column = column,
               !.pc = IF Top(s).char = "backspace" THEN "back" ELSE "cell"]
  BY <1>2, RowNat DEF Frames, Labels
<1>4. FrameInv(g) /\ g.pc \in {"back", "cell"} /\ g.row = Top(s).row
  BY <1>2, <1>3 DEF FrameInv, Frames
<1>5. Becomes(s, g)
  BY <1>3 DEF LoadColumn
<1>6. /\ buffer' \in [Places -> Marks \cup {Blank}] /\ row' = row /\ row' \in Nat
      /\ column' \in 0 .. Width - 1 /\ cursor' \in Nat
      /\ fault' = fault /\ overlap' = overlap
  BY Sizes DEF LoadColumn, Step, screen, TypeOK, BasicInv
<1>7. overlap # "preempted" =>
          /\ row' >= Height => g.pc \in SetsRow \/ SetByOneBelow(s, Len(writer[s]))
          /\ g.row >= Height => \/ g.pc \in {"clear", "home", "left"}
                                \/ SetByOneBelow(s, Len(writer[s]))
  BY <1>2, <1>4, <1>6, OffScreen DEF BasicInv, SetsRow
<1> QED
  BY <1>2, <1>4, <1>5, <1>6, <1>7, GoesOn

\* A backspace over the start of a line keeps BasicInv.
LEMMA BackRowBasic ==
    ASSUME BasicInv, NEW s \in Stacks, BackRow(s)
    PROVE  BasicInv'
<1>1. At(s, "backrow") /\ "backrow" \in Labels
  BY DEF BackRow, Labels
<1>2. /\ writer[s] # <<>> /\ Top(s) \in Frames /\ FrameInv(Top(s)) /\ Top(s).pc = "backrow"
      /\ Top(s).row \in Nat /\ Top(s).column \in 0 .. Width - 1
  BY <1>1, TopFrame
<1>3. PICK g \in Frames : g = [Top(s) EXCEPT !.pc = "cell"]
  BY <1>2 DEF Frames, Labels
<1>4. FrameInv(g) /\ g.pc = "cell" /\ g.row = Top(s).row
  BY <1>2, <1>3 DEF FrameInv, Frames
<1>5. Becomes(s, g)
  BY <1>3 DEF BackRow, Goto
<1>6. /\ buffer' \in [Places -> Marks \cup {Blank}] /\ row' = Top(s).row /\ row' \in Nat
      /\ column' \in 0 .. Width - 1 /\ cursor' \in Nat
      /\ fault' = fault /\ overlap' = overlap
  BY Sizes, <1>2 DEF BackRow, Step, screen, TypeOK, BasicInv
<1>7. overlap # "preempted" =>
          /\ row' >= Height => g.pc \in SetsRow \/ SetByOneBelow(s, Len(writer[s]))
          /\ g.row >= Height => \/ g.pc \in {"clear", "home", "left"}
                                \/ SetByOneBelow(s, Len(writer[s]))
  BY <1>2, <1>4, <1>6, OffScreen DEF BasicInv, SetsRow
<1> QED
  BY <1>2, <1>4, <1>5, <1>6, <1>7, GoesOn

\* Vga_clear blanking the buffer keeps BasicInv.
LEMMA ClearCellsBasic ==
    ASSUME BasicInv, NEW s \in Stacks, ClearCells(s)
    PROVE  BasicInv'
<1>1. At(s, "clear") /\ "clear" \in Labels
  BY DEF ClearCells, Labels
<1>2. /\ writer[s] # <<>> /\ Top(s) \in Frames /\ FrameInv(Top(s)) /\ Top(s).pc = "clear"
      /\ Top(s).row \in Nat /\ Top(s).column \in 0 .. Width - 1
  BY <1>1, TopFrame
<1>3. PICK g \in Frames : g = [Top(s) EXCEPT !.pc = "home"]
  BY <1>2 DEF Frames, Labels
<1>4. FrameInv(g) /\ g.pc = "home"
  BY <1>2, <1>3 DEF FrameInv, Frames
<1>5. Becomes(s, g)
  BY <1>3 DEF ClearCells, Goto
<1>6. /\ buffer' \in [Places -> Marks \cup {Blank}] /\ row' = row /\ row' \in Nat
      /\ column' \in 0 .. Width - 1 /\ cursor' \in Nat
      /\ fault' = fault /\ overlap' = overlap
  BY Sizes DEF ClearCells, Step, screen, TypeOK, BasicInv
<1>7. overlap # "preempted" =>
          /\ row' >= Height => g.pc \in SetsRow \/ SetByOneBelow(s, Len(writer[s]))
          /\ g.row >= Height => \/ g.pc \in {"clear", "home", "left"}
                                \/ SetByOneBelow(s, Len(writer[s]))
  BY <1>2, <1>4, <1>6, OffScreen DEF BasicInv, SetsRow
<1> QED
  BY <1>2, <1>4, <1>5, <1>6, <1>7, GoesOn

\* Vga_clear setting row = 0 keeps BasicInv.
LEMMA ClearRowBasic ==
    ASSUME BasicInv, NEW s \in Stacks, ClearRow(s)
    PROVE  BasicInv'
<1>1. At(s, "home") /\ "home" \in Labels
  BY DEF ClearRow, Labels
<1>2. /\ writer[s] # <<>> /\ Top(s) \in Frames /\ FrameInv(Top(s)) /\ Top(s).pc = "home"
      /\ Top(s).row \in Nat /\ Top(s).column \in 0 .. Width - 1
  BY <1>1, TopFrame
<1>3. PICK g \in Frames : g = [Top(s) EXCEPT !.pc = "left"]
  BY <1>2 DEF Frames, Labels
<1>4. FrameInv(g) /\ g.pc = "left"
  BY <1>2, <1>3 DEF FrameInv, Frames
<1>5. Becomes(s, g)
  BY <1>3 DEF ClearRow, Goto
<1>6. /\ buffer' \in [Places -> Marks \cup {Blank}] /\ row' = 0 /\ row' \in Nat
      /\ column' \in 0 .. Width - 1 /\ cursor' \in Nat
      /\ fault' = fault /\ overlap' = overlap
  BY Sizes DEF ClearRow, Step, screen, TypeOK, BasicInv
<1>7. overlap # "preempted" =>
          /\ row' >= Height => g.pc \in SetsRow \/ SetByOneBelow(s, Len(writer[s]))
          /\ g.row >= Height => \/ g.pc \in {"clear", "home", "left"}
                                \/ SetByOneBelow(s, Len(writer[s]))
  BY <1>2, <1>4, <1>6, SizeAssumption, OffScreen DEF BasicInv, SetsRow
<1> QED
  BY <1>2, <1>4, <1>5, <1>6, <1>7, GoesOn

\* ++row, with its test for the last line, keeps BasicInv.
LEMMA NextRowBasic ==
    ASSUME BasicInv, NEW s \in Stacks, NextRow(s)
    PROVE  BasicInv'
<1>1. At(s, "row") /\ "row" \in Labels
  BY DEF NextRow, Labels
<1>2. /\ writer[s] # <<>> /\ Top(s) \in Frames /\ FrameInv(Top(s)) /\ Top(s).pc = "row"
      /\ Top(s).row \in Nat /\ Top(s).column \in 0 .. Width - 1
  BY <1>1, TopFrame
<1>3. PICK y \in Nat : y = Top(s).row + 1
  BY <1>2
<1>4. /\ buffer' \in [Places -> Marks \cup {Blank}] /\ row' = y
      /\ column' \in 0 .. Width - 1 /\ cursor' \in Nat
      /\ fault' = fault /\ overlap' = overlap
  BY <1>3 DEF NextRow, Step, TypeOK, BasicInv
<1>5. overlap # "preempted" /\ Top(s).row >= Height => SetByOneBelow(s, Len(writer[s]))
  BY <1>2, OffScreen DEF BasicInv
<1>6. CASE y = Height
  <2>1. PICK g \in Frames : g = [Top(s) EXCEPT !.pc = "scroll"]
    BY <1>2 DEF Frames, Labels
  <2>2. FrameInv(g) /\ g.pc = "scroll" /\ g.row = Top(s).row
    BY <1>2, <2>1 DEF FrameInv, Frames
  <2>3. Becomes(s, g)
    BY <1>3, <1>6, <2>1 DEF NextRow, Goto
  <2>4. overlap # "preempted" =>
          /\ row' >= Height => g.pc \in SetsRow \/ SetByOneBelow(s, Len(writer[s]))
          /\ g.row >= Height => \/ g.pc \in {"clear", "home", "left"}
                                \/ SetByOneBelow(s, Len(writer[s]))
    BY <1>5, <2>2 DEF SetsRow
  <2> QED
    BY <1>2, <1>4, <2>2, <2>3, <2>4, GoesOn
<1>7. CASE y # Height /\ Top(s).char # "newline"
  <2>1. PICK g \in Frames : g = [[Top(s) EXCEPT !.row = y] EXCEPT !.pc = "cursor"]
    BY <1>2 DEF Frames, Labels
  <2>2. FrameInv(g) /\ g.pc = "cursor" /\ g.row = y
    BY <1>2, <1>7, <2>1 DEF FrameInv, Frames
  <2>3. Becomes(s, g)
    <3>1. [Top(s) EXCEPT !.row = y].char = Top(s).char
      BY <1>2 DEF Frames
    <3> QED
      BY <1>3, <1>7, <2>1, <3>1 DEF NextRow, Finish
  <2>4. y >= Height => Top(s).row >= Height
    BY <1>2, <1>3, <1>7, SizeAssumption
  <2>5. overlap # "preempted" =>
          /\ row' >= Height => g.pc \in SetsRow \/ SetByOneBelow(s, Len(writer[s]))
          /\ g.row >= Height => \/ g.pc \in {"clear", "home", "left"}
                                \/ SetByOneBelow(s, Len(writer[s]))
    BY <1>4, <1>5, <2>2, <2>4
  <2> QED
    BY <1>2, <1>4, <2>2, <2>3, <2>5, GoesOn
<1>8. CASE y # Height /\ Top(s).char = "newline"
  <2>1. Return(s)
    <3>1. [Top(s) EXCEPT !.row = y].char = Top(s).char
      BY <1>2 DEF Frames
    <3> QED
      BY <1>3, <1>8, <3>1 DEF NextRow, Finish
  <2>2. y >= Height => Top(s).row >= Height
    BY <1>2, <1>3, <1>8, SizeAssumption
  <2>3. overlap # "preempted" => (row' >= Height => SetByOneBelow(s, Len(writer[s])))
    BY <1>4, <1>5, <2>2
  <2>4. overlap \in {"none", "nested", "preempted", "fault"}
    BY DEF BasicInv, TypeOK
  <2> QED
    BY <1>2, <1>4, <2>1, <2>3, <2>4, Returns
<1> QED
  BY <1>6, <1>7, <1>8

\* Vga_scroll setting row to the last line keeps BasicInv.
LEMMA ScrollRowBasic ==
    ASSUME BasicInv, NEW s \in Stacks, ScrollRow(s)
    PROVE  BasicInv'
<1>1. At(s, "lastrow") /\ "lastrow" \in Labels
  BY DEF ScrollRow, Labels
<1>2. /\ writer[s] # <<>> /\ Top(s) \in Frames /\ FrameInv(Top(s)) /\ Top(s).pc = "lastrow"
      /\ Top(s).row \in Nat /\ Top(s).column \in 0 .. Width - 1
  BY <1>1, TopFrame
<1>3. /\ buffer' \in [Places -> Marks \cup {Blank}]
      /\ row' \in Nat /\ ~(row' >= Height)
      /\ column' \in 0 .. Width - 1 /\ cursor' \in Nat
      /\ fault' = fault /\ overlap' = overlap
  BY SizeAssumption DEF ScrollRow, Step, TypeOK, BasicInv
<1>4. CASE Top(s).char = "newline"
  <2>1. Return(s)
    BY <1>4 DEF ScrollRow
  <2>2. overlap \in {"none", "nested", "preempted", "fault"}
    BY DEF BasicInv, TypeOK
  <2> QED
    BY <1>2, <1>3, <2>1, <2>2, Returns
<1>5. CASE Top(s).char # "newline"
  <2>1. PICK g \in Frames : g = [Top(s) EXCEPT !.pc = "reload"]
    BY <1>2 DEF Frames, Labels
  <2>2. FrameInv(g) /\ g.pc = "reload" /\ g.row = Top(s).row
    BY <1>2, <1>5, <2>1 DEF FrameInv, Frames
  <2>3. Becomes(s, g)
    BY <1>5, <2>1 DEF ScrollRow, Goto
  <2>4. overlap # "preempted" =>
          /\ row' >= Height => g.pc \in SetsRow \/ SetByOneBelow(s, Len(writer[s]))
          /\ g.row >= Height => \/ g.pc \in {"clear", "home", "left"}
                                \/ SetByOneBelow(s, Len(writer[s]))
    BY <1>2, <1>3, <2>2, OffScreen DEF BasicInv
  <2> QED
    BY <1>2, <1>3, <2>2, <2>3, <2>4, GoesOn
<1> QED
  BY <1>4, <1>5

\* A backspace within a line keeps BasicInv.
LEMMA BackColumnBasic ==
    ASSUME BasicInv, NEW s \in Stacks, BackColumn(s)
    PROVE  BasicInv'
<1>1. At(s, "back") /\ "back" \in Labels
  BY DEF BackColumn, Labels
<1>2. /\ writer[s] # <<>> /\ Top(s) \in Frames /\ FrameInv(Top(s)) /\ Top(s).pc = "back"
      /\ Top(s).row \in Nat /\ Top(s).column \in 0 .. Width - 1
  BY <1>1, TopFrame
<1>3. /\ buffer' \in [Places -> Marks \cup {Blank}] /\ row' = row /\ row' \in Nat
      /\ cursor' \in Nat /\ fault' = fault /\ overlap' = overlap
  BY DEF BackColumn, Step, TypeOK, BasicInv
<1>4. PICK w \in Frames : w = Top(s)
  BY <1>2
<1>5. /\ w.pc = "back" /\ w.char = "backspace" /\ w.row \in Nat /\ w.column \in 0 .. Width - 1
      /\ w.column \in Nat
  BY <1>2, <1>4, SizeAssumption DEF FrameInv
<1>6. PICK g \in Frames :
          /\ Becomes(s, g) /\ g.pc \in {"cell", "backrow"} /\ g.char = "backspace"
          /\ g.row \in Nat /\ g.row <= w.row /\ column' \in 0 .. Width - 1
  <2>1. CASE w.column > 0
    <3>1. PICK x \in 0 .. Width - 1 : x = w.column - 1
      BY <1>5, <2>1, SizeAssumption
    <3>2. PICK g \in Frames : g = [w EXCEPT !.pc = "cell", !.column = x]
      BY <1>4, <3>1 DEF Frames, Labels
    <3>3. Becomes(s, [w EXCEPT !.pc = "cell", !.column = @ - 1]) /\ column' = x
      BY <1>4, <2>1, <3>1 DEF BackColumn
    <3>4. Becomes(s, g)
      BY <3>1, <3>2, <3>3
    <3>5. g.pc = "cell" /\ g.char = w.char /\ g.row = w.row
      BY <3>2 DEF Frames
    <3> QED
      BY <1>5, <3>3, <3>4, <3>5
  <2>2. CASE w.column = 0 /\ w.row > 0
    <3>1. PICK y \in Nat : y = w.row - 1
      BY <1>5, <2>2
    <3>2. PICK g \in Frames : g = [w EXCEPT !.pc = "backrow", !.column = Width - 1, !.row = y]
      BY <1>4, <3>1, Sizes DEF Frames, Labels
    <3>3. /\ Becomes(s, [w EXCEPT !.pc = "backrow", !.column = Width - 1, !.row = @ - 1])
          /\ column' = Width - 1
      BY <1>4, <2>2 DEF BackColumn
    <3>4. Becomes(s, g)
      BY <3>1, <3>2, <3>3
    <3>5. g.pc = "backrow" /\ g.char = w.char /\ g.row = y
      BY <3>2 DEF Frames
    <3>6. y <= w.row /\ column' \in 0 .. Width - 1
      BY <1>5, <3>1, <3>3, Sizes
    <3> QED
      BY <1>5, <3>4, <3>5, <3>6
  <2>3. CASE ~(w.column > 0) /\ ~(w.column = 0 /\ w.row > 0)
    <3>1. PICK g \in Frames : g = [w EXCEPT !.pc = "cell"]
      BY <1>4 DEF Frames, Labels
    <3>2. Becomes(s, g) /\ column' = column
      BY <1>4, <2>3, <3>1 DEF BackColumn, Goto
    <3>3. g.pc = "cell" /\ g.char = w.char /\ g.row = w.row
      BY <3>1 DEF Frames
    <3> QED
      BY <1>5, <3>2, <3>3, RowNat
  <2> QED
    BY <2>1, <2>2, <2>3
<1>7. FrameInv(g)
  BY <1>6 DEF FrameInv
<1>8. overlap # "preempted" =>
          /\ row' >= Height => g.pc \in SetsRow \/ SetByOneBelow(s, Len(writer[s]))
          /\ g.row >= Height => \/ g.pc \in {"clear", "home", "left"}
                                \/ SetByOneBelow(s, Len(writer[s]))
  <2>1. /\ row >= Height /\ overlap # "preempted" => SetByOneBelow(s, Len(writer[s]))
        /\ w.row >= Height /\ overlap # "preempted" => SetByOneBelow(s, Len(writer[s]))
    BY <1>2, <1>4, OffScreen DEF BasicInv, SetsRow
  <2>2. g.row >= Height => w.row >= Height
    BY <1>5, <1>6, SizeAssumption
  <2> QED
    BY <1>3, <2>1, <2>2
<1> QED
  BY <1>2, <1>3, <1>6, <1>7, <1>8, GoesOn

\* The store of a character keeps BasicInv.
LEMMA StoreCellBasic ==
    ASSUME BasicInv, NEW s \in Stacks, StoreCell(s)
    PROVE  BasicInv'
<1>1. At(s, "cell") /\ "cell" \in Labels
  BY DEF StoreCell, Labels
<1>2. /\ writer[s] # <<>> /\ Top(s) \in Frames /\ FrameInv(Top(s)) /\ Top(s).pc = "cell"
      /\ Top(s).row \in Nat /\ Top(s).column \in 0 .. Width - 1
  BY <1>1, TopFrame
<1>3. PICK g \in Frames :
          g = [Top(s) EXCEPT !.pc = IF Top(s).char = "backspace" THEN "cursor" ELSE "advance"]
  BY <1>2 DEF Frames, Labels
<1>4. FrameInv(g) /\ g.pc \in {"cursor", "advance"} /\ g.row = Top(s).row
  BY <1>2, <1>3 DEF FrameInv, Frames
<1>5. Becomes(s, g)
  BY <1>3 DEF StoreCell, Goto
<1>6. PICK c \in Marks \cup {Blank} : c = IF Top(s).char = "backspace" THEN Blank ELSE Top(s).char
  BY <1>2 DEF FrameInv
<1>7. PICK i : i = vga_get_index(Top(s).column, Top(s).row)
  OBVIOUS
<1>8. buffer' = IF i \in Places THEN [buffer EXCEPT ![i] = c] ELSE buffer
  BY <1>6, <1>7 DEF StoreCell
<1>9. /\ buffer' \in [Places -> Marks \cup {Blank}] /\ row' = row /\ row' \in Nat
      /\ column' \in 0 .. Width - 1 /\ cursor' \in Nat
      /\ fault' = fault /\ overlap' = overlap
  BY <1>6, <1>8 DEF StoreCell, Step, TypeOK, BasicInv
<1>10. overlap # "preempted" =>
          /\ row' >= Height => g.pc \in SetsRow \/ SetByOneBelow(s, Len(writer[s]))
          /\ g.row >= Height => \/ g.pc \in {"clear", "home", "left"}
                                \/ SetByOneBelow(s, Len(writer[s]))
  BY <1>2, <1>4, <1>9, OffScreen DEF BasicInv, SetsRow
<1> QED
  BY <1>2, <1>4, <1>5, <1>9, <1>10, GoesOn

\* ++column, with its test for the last place, keeps BasicInv.
LEMMA AdvanceBasic ==
    ASSUME BasicInv, NEW s \in Stacks, Advance(s)
    PROVE  BasicInv'
<1>1. At(s, "advance") /\ "advance" \in Labels
  BY DEF Advance, Labels
<1>2. /\ writer[s] # <<>> /\ Top(s) \in Frames /\ FrameInv(Top(s)) /\ Top(s).pc = "advance"
      /\ Top(s).row \in Nat /\ Top(s).column \in 0 .. Width - 1
  BY <1>1, TopFrame
<1>3. PICK x \in 0 .. Width - 1 : x = IF Top(s).column + 1 = Width THEN 0 ELSE Top(s).column + 1
  BY <1>2, SizeAssumption
<1>4. PICK l \in {"row", "cursor"} : l = IF Top(s).column + 1 = Width THEN "row" ELSE "cursor"
  OBVIOUS
<1>5. PICK g \in Frames : g = [Top(s) EXCEPT !.column = x, !.pc = l]
  BY <1>2, <1>3, <1>4 DEF Frames, Labels
<1>6. g.pc = l /\ g.char = Top(s).char /\ g.row = Top(s).row
  BY <1>5 DEF Frames
<1>7. FrameInv(g)
  BY <1>2, <1>4, <1>6 DEF FrameInv
<1>8. column' = x
  BY <1>3 DEF Advance
<1>9. Becomes(s, g)
  BY <1>4, <1>5, <1>8 DEF Advance
<1>10. /\ buffer' \in [Places -> Marks \cup {Blank}] /\ row' = row /\ row' \in Nat
       /\ column' \in 0 .. Width - 1 /\ cursor' \in Nat
       /\ fault' = fault /\ overlap' = overlap
  BY <1>3, <1>8 DEF Advance, Step, TypeOK, BasicInv
<1>11. overlap # "preempted" =>
          /\ row' >= Height => g.pc \in SetsRow \/ SetByOneBelow(s, Len(writer[s]))
          /\ g.row >= Height => \/ g.pc \in {"clear", "home", "left"}
                                \/ SetByOneBelow(s, Len(writer[s]))
  BY <1>2, <1>6, <1>10, OffScreen DEF BasicInv, SetsRow
<1> QED
  BY <1>2, <1>7, <1>9, <1>10, <1>11, GoesOn

\* The port writes of the cursor keep BasicInv.
LEMMA vga_update_cursorBasic ==
    ASSUME BasicInv, NEW s \in Stacks, vga_update_cursor(s)
    PROVE  BasicInv'
<1>1. At(s, "cursor") /\ "cursor" \in Labels
  BY DEF vga_update_cursor, Labels
<1>2. /\ writer[s] # <<>> /\ Top(s) \in Frames /\ FrameInv(Top(s)) /\ Top(s).pc = "cursor"
      /\ Top(s).row \in Nat /\ Top(s).column \in 0 .. Width - 1
  BY <1>1, TopFrame
<1>3. /\ buffer' \in [Places -> Marks \cup {Blank}] /\ row' = row /\ row' \in Nat
      /\ column' \in 0 .. Width - 1 /\ fault' = fault /\ overlap' = overlap
      /\ Return(s)
  BY DEF vga_update_cursor, Step, TypeOK, BasicInv
<1>4. cursor' \in Nat
  BY <1>2, Sizes DEF vga_update_cursor
<1>5. overlap # "preempted" => (row' >= Height => SetByOneBelow(s, Len(writer[s])))
  BY <1>2, <1>3, OffScreen DEF BasicInv, SetsRow
<1>6. overlap \in {"none", "nested", "preempted", "fault"}
  BY DEF BasicInv, TypeOK
<1> QED
  BY <1>2, <1>3, <1>4, <1>5, <1>6, Returns

\* Vga_clear setting column = 0 keeps BasicInv.
LEMMA ClearColumnBasic ==
    ASSUME BasicInv, NEW s \in Stacks, ClearColumn(s)
    PROVE  BasicInv'
<1>1. At(s, "left") /\ "left" \in Labels
  BY DEF ClearColumn, Labels
<1>2. /\ writer[s] # <<>> /\ Top(s) \in Frames /\ FrameInv(Top(s)) /\ Top(s).pc = "left"
      /\ Top(s).row \in Nat /\ Top(s).column \in 0 .. Width - 1
  BY <1>1, TopFrame
<1>3. /\ buffer' \in [Places -> Marks \cup {Blank}] /\ row' = row /\ row' \in Nat
      /\ column' \in 0 .. Width - 1 /\ fault' = fault /\ cursor' \in Nat
      /\ Return(s)
  BY Sizes DEF ClearColumn, TypeOK, BasicInv, fault
<1>4. /\ overlap' \in {"none", "nested", "preempted", "fault"}
      /\ overlap' = "preempted" <=> overlap = "preempted"
  BY DEF ClearColumn, BasicInv, TypeOK
<1>5. overlap # "preempted" => (row' >= Height => SetByOneBelow(s, Len(writer[s])))
  BY <1>2, <1>3, OffScreen DEF BasicInv, SetsRow
<1> QED
  BY <1>2, <1>3, <1>4, <1>5, Returns

\* The record of a call, and what it is about.
LEMMA EnteredFrame ==
    ASSUME BasicInv, NEW c \in Marks \cup Controls
    PROVE  /\ Entered(c) \in Frames /\ FrameInv(Entered(c))
           /\ Entered(c).char = c /\ Entered(c).row = row
           /\ Entered(c).pc \in {"newline", "clear", "column"}
           /\ Entered(c).pc = "clear" <=> c = "clear"
           /\ Entered(c).pc = "newline" <=> c = "newline"
<1>1. PICK l \in {"newline", "clear", "column"} : l = Label(c)
  BY DEF Label
<1>2. PICK g : g = [pc |-> l, char |-> c, row |-> row, column |-> 0]
  OBVIOUS
<1>3. g = Entered(c)
  BY <1>1, <1>2 DEF Entered
<1>4. g \in Frames /\ g.pc = l /\ g.char = c /\ g.row = row
  BY <1>2, RowNat, Sizes DEF Frames, Labels
<1>5. /\ l = "clear" <=> c = "clear"
      /\ l = "newline" <=> c = "newline"
  BY <1>1 DEF Label
<1>6. FrameInv(g)
  BY <1>1, <1>4, <1>5 DEF FrameInv, Controls
<1> QED
  BY <1>1, <1>3, <1>4, <1>5, <1>6

\* A call of vga_putchar or vga_clear keeps BasicInv.
LEMMA CallBasic ==
    ASSUME BasicInv, NEW s \in Stacks, Call(s)
    PROVE  BasicInv'
<1>1. PICK c \in Marks \cup Controls : writer' = [writer EXCEPT ![s] = Append(@, Entered(c))]
  BY DEF Call, Chars, Marks, Controls
<1>2. PICK g \in Frames : g = Entered(c) /\ FrameInv(g) /\ g.row = row
  BY EnteredFrame
<1>3. writer' = [writer EXCEPT ![s] = Append(@, g)]
  BY <1>1, <1>2
<1>4. PICK n \in Nat : n = Len(writer[s])
  BY <1>3, WriteBegins DEF BasicInv
<1>5. /\ writer' \in [Stacks -> Seq(Frames)]
      /\ DOMAIN writer[s] = 1 .. n /\ DOMAIN writer'[s] = 1 .. n + 1
      /\ writer'[s][n + 1] = g
      /\ \A i \in 1 .. n : writer'[s][i] = writer[s][i]
      /\ \A t \in Stacks \ {s} : writer'[t] = writer[t]
  BY <1>3, <1>4, WriteBegins DEF BasicInv
<1>6. /\ screen' = screen /\ fault' = fault
      /\ overlap' \in {"none", "nested", "preempted", "fault"}
  BY DEF Call, BasicInv, TypeOK
<1>7. TypeOK'
  BY <1>5, <1>6 DEF TypeOK, BasicInv, screen, fault
<1>8. FramesInv'
  <2>1. SUFFICES ASSUME NEW t \in Stacks, NEW i \in DOMAIN writer'[t]
                 PROVE  FrameInv(writer'[t][i])
    BY DEF FramesInv, FrameInv
  <2>2. CASE t # s
    BY <1>5, <2>1, <2>2 DEF BasicInv, FramesInv
  <2>3. CASE t = s /\ i = n + 1
    BY <1>2, <1>5, <2>3
  <2>4. CASE t = s /\ i # n + 1
    <3>1. i \in 1 .. n
      BY <1>5, <2>1, <2>4
    <3> QED
      BY <1>5, <2>4, <3>1 DEF BasicInv, FramesInv
  <2> QED
    BY <2>2, <2>3, <2>4
<1>9. RowInv'
  <2>1. SUFFICES ASSUME overlap' # "preempted"
                 PROVE  /\ \E t \in Stacks : \A u \in Stacks \ {t} : writer'[u] = <<>>
                        /\ row' >= Height =>
                              \E t \in Stacks : \E j \in DOMAIN writer'[t] :
                                  writer'[t][j].pc \in SetsRow
                        /\ \A t \in Stacks : \A i \in DOMAIN writer'[t] :
                              writer'[t][i].row >= Height =>
                                  \/ writer'[t][i].pc \in {"clear", "home", "left"}
                                  \/ SetByOneBelow(t, i)'
    BY DEF RowInv, SetsRow
  <2>2. overlap # "preempted" /\ \A t \in Stacks \ {s} : writer[t] = <<>>
    BY <2>1 DEF Call, Idle
  <2>3. \A t \in Stacks \ {s} : writer'[t] = <<>>
    BY <1>5, <2>2
  <2>4. row' = row
    BY <1>6 DEF screen
  <2>5. ASSUME NEW i \in 1 .. n, SetByOneBelow(s, i)
        PROVE  SetByOneBelow(s, i)'
    <3>1. PICK j \in 1 .. i - 1 : writer[s][j].pc \in SetsRow
      BY <2>5 DEF SetByOneBelow
    <3>2. j \in 1 .. n
      BY <3>1
    <3>3. writer'[s][j].pc \in SetsRow
      BY <1>5, <3>1, <3>2
    <3> QED
      BY <3>1, <3>3 DEF SetByOneBelow, SetsRow
  <2>6. ASSUME row >= Height
        PROVE  \E j \in 1 .. n : writer[s][j].pc \in SetsRow
    <3>1. PICK t \in Stacks : \E j \in DOMAIN writer[t] : writer[t][j].pc \in SetsRow
      BY <2>2, <2>6 DEF BasicInv, RowInv
    <3>2. t = s
      <4>1. DOMAIN <<>> = {}
        OBVIOUS
      <4> QED
        BY <2>2, <3>1, <4>1
    <3> QED
      BY <1>5, <3>1, <3>2
  <2>7. ASSUME row' >= Height
        PROVE  \E j \in DOMAIN writer'[s] : writer'[s][j].pc \in SetsRow
    <3>1. PICK j \in 1 .. n : writer[s][j].pc \in SetsRow
      BY <2>4, <2>6, <2>7
    <3>2. j \in 1 .. n + 1
      OBVIOUS
    <3> QED
      BY <1>5, <3>1, <3>2
  <2>8. ASSUME NEW t \in Stacks, NEW i \in DOMAIN writer'[t], writer'[t][i].row >= Height
        PROVE  \/ writer'[t][i].pc \in {"clear", "home", "left"}
               \/ SetByOneBelow(t, i)'
    <3>1. t = s /\ i \in 1 .. n + 1
      BY <1>5, <2>3, <2>8, OneWrite
    <3>2. CASE i = n + 1
      <4>1. row >= Height
        BY <1>2, <1>5, <2>8, <3>1, <3>2
      <4>2. PICK j \in 1 .. n : writer[s][j].pc \in SetsRow
        BY <2>6, <4>1
      <4>3. j \in 1 .. i - 1 /\ writer'[s][j].pc \in SetsRow
        BY <1>5, <3>2, <4>2
      <4> QED
        BY <3>1, <4>3 DEF SetByOneBelow, SetsRow
    <3>3. CASE i # n + 1
      <4>1. i \in 1 .. n
        BY <3>1, <3>3
      <4>2. writer'[s][i] = writer[s][i] /\ i \in DOMAIN writer[s]
        BY <1>5, <4>1
      <4>3. writer[s][i].row >= Height => \/ writer[s][i].pc \in {"clear", "home", "left"}
                                          \/ SetByOneBelow(s, i)
        BY <2>2, <4>2 DEF BasicInv, RowInv
      <4> QED
        BY <2>5, <2>8, <3>1, <4>1, <4>2, <4>3
    <3> QED
      BY <3>2, <3>3
  <2> QED
    BY <2>3, <2>7, <2>8
<1> QED
  BY <1>7, <1>8, <1>9 DEF BasicInv

\* The stacks when all that is written is one character of the report.
LEMMA OnlyMain ==
    ASSUME NEW g \in Frames,
           writer' = [t \in Stacks |-> IF t = "main" THEN <<g>> ELSE <<>>]
    PROVE  /\ writer' \in [Stacks -> Seq(Frames)]
           /\ writer'["main"] = <<g>> /\ writer'["background"] = <<>>
           /\ \A t \in Stacks \ {"main"} : writer'[t] = <<>>
           /\ \A t \in Stacks : \A i \in DOMAIN writer'[t] :
                  t = "main" /\ i = 1 /\ writer'[t][i] = g
<1>1. /\ <<g>> \in Seq(Frames) /\ DOMAIN <<g>> = {1} /\ <<g>>[1] = g
      /\ <<>> \in Seq(Frames) /\ DOMAIN <<>> = {}
  BY OneWrite
<1>2. "main" \in Stacks /\ "background" \in Stacks /\ "main" # "background"
  BY DEF Stacks
<1>3. \A t \in Stacks : writer'[t] = IF t = "main" THEN <<g>> ELSE <<>>
  OBVIOUS
<1>4. writer' \in [Stacks -> Seq(Frames)]
  BY <1>1
<1> QED
  BY <1>1, <1>2, <1>3, <1>4

\* Then all is well, if the row is on the screen or is about to be set.
LEMMA OnlyMainBasic ==
    ASSUME BasicInv, NEW c \in Marks \cup Controls,
           writer' = [t \in Stacks |-> IF t = "main" THEN <<Entered(c)>> ELSE <<>>],
           screen' = screen, left' \in Seq(Marks \cup {"newline"}),
           raised' \in SUBSET Raised,
           overlap' \in {"none", "nested", "preempted", "fault"},
           overlap' = "preempted" \/ c = "clear" \/ row < Height
    PROVE  BasicInv'
<1>1. PICK g \in Frames : /\ g = Entered(c) /\ FrameInv(g) /\ g.row = row
                          /\ g.pc = "clear" <=> c = "clear"
  BY EnteredFrame
<1>2. writer' = [t \in Stacks |-> IF t = "main" THEN <<g>> ELSE <<>>]
  BY <1>1
<1>3. /\ writer' \in [Stacks -> Seq(Frames)]
      /\ writer'["main"] = <<g>>
      /\ \A t \in Stacks \ {"main"} : writer'[t] = <<>>
      /\ \A t \in Stacks : \A i \in DOMAIN writer'[t] :
             t = "main" /\ i = 1 /\ writer'[t][i] = g
  BY <1>2, OnlyMain
<1>4. TypeOK'
  BY <1>3 DEF BasicInv, TypeOK, screen
<1>5. FramesInv'
  BY <1>1, <1>3 DEF FramesInv, FrameInv
<1>6. RowInv'
  <2>1. SUFFICES ASSUME overlap' # "preempted"
                 PROVE  /\ \E t \in Stacks : \A u \in Stacks \ {t} : writer'[u] = <<>>
                        /\ row' >= Height =>
                              \E t \in Stacks : \E j \in DOMAIN writer'[t] :
                                  writer'[t][j].pc \in SetsRow
                        /\ \A t \in Stacks : \A i \in DOMAIN writer'[t] :
                              writer'[t][i].row >= Height =>
                                  \/ writer'[t][i].pc \in {"clear", "home", "left"}
                                  \/ SetByOneBelow(t, i)'
    BY DEF RowInv, SetsRow
  <2>2. row' = row /\ row \in Nat /\ Height \in Nat
    BY RowNat, Sizes DEF screen
  <2>3. row >= Height => g.pc = "clear"
    BY <1>1, <2>1, <2>2
  <2>4. "main" \in Stacks /\ 1 \in DOMAIN writer'["main"] /\ writer'["main"][1] = g
    BY <1>3, OneWrite DEF Stacks
  <2> QED
    BY <1>1, <1>3, <2>2, <2>3, <2>4 DEF SetsRow
<1> QED
  BY <1>4, <1>5, <1>6 DEF BasicInv

\* An exception keeps BasicInv.
LEMMA RaiseBasic ==
    ASSUME BasicInv, Raise
    PROVE  BasicInv'
<1>1. PICK vector \in Raised :
          raised' = {vector} /\ left' = Message(isr_handler(registers_t(vector)))
  BY DEF Raise
<1>2. vector \in Vectors
  BY RaisedAssumption
<1>3. left' \in Seq(Marks \cup {"newline"})
  BY <1>1, <1>2, FrameIsReport, MessageIs
<1>4. /\ writer' = [t \in Stacks |-> IF t = "main" THEN <<Entered("clear")>> ELSE <<>>]
      /\ screen' = screen /\ overlap' = "fault" /\ "clear" \in Marks \cup Controls
      /\ raised' \in SUBSET Raised
  BY <1>1 DEF Raise, Controls
<1> QED
  BY <1>3, <1>4, OnlyMainBasic

\* The call for the next character of a report keeps BasicInv.
LEMMA WriteReportBasic ==
    ASSUME BasicInv, WriteReport
    PROVE  BasicInv'
<1>1. PICK q \in Seq(Marks \cup {"newline"}) : q = left /\ q # <<>>
  BY DEF WriteReport, BasicInv, TypeOK
<1>2. Head(q) \in Marks \cup {"newline"} /\ Tail(q) \in Seq(Marks \cup {"newline"})
  BY <1>1, HeadTailProperties
<1>3. PICK c \in Marks \cup Controls : c = Head(q)
  BY <1>2 DEF Controls
<1>4. left' \in Seq(Marks \cup {"newline"}) /\ screen' = screen
  BY <1>1, <1>2 DEF WriteReport
<1>5. raised' \in SUBSET Raised /\ overlap' \in {"none", "nested", "preempted", "fault"}
      /\ overlap' = overlap
  BY DEF WriteReport, BasicInv, TypeOK
<1>6. writer' = [t \in Stacks |-> IF t = "main" THEN <<Entered(c)>> ELSE <<>>]
  <2>1. writer = [t \in Stacks |-> <<>>]
    BY DEF WriteReport, Idle, BasicInv, TypeOK
  <2>2. writer' = [writer EXCEPT !["main"] = <<Entered(c)>>]
    BY <1>1, <1>3 DEF WriteReport
  <2> QED
    BY <2>1, <2>2
<1>7. overlap = "preempted" \/ row < Height
  <2>1. ASSUME overlap # "preempted", row >= Height
        PROVE  FALSE
    <3>1. \E t \in Stacks : \E j \in DOMAIN writer[t] : writer[t][j].pc \in SetsRow
      BY <2>1 DEF BasicInv, RowInv
    <3>2. DOMAIN <<>> = {}
      OBVIOUS
    <3> QED
      BY <3>1, <3>2 DEF WriteReport, Idle
  <2> QED
    BY <2>1, RowNat, Sizes
<1> QED
  BY <1>4, <1>5, <1>6, <1>7, OnlyMainBasic

\* The screen as the boot code leaves it satisfies BasicInv.
LEMMA InitBasic ==
    ASSUME Init
    PROVE  BasicInv
<1>1. /\ writer \in [Stacks -> Seq(Frames)] /\ \A t \in Stacks : writer[t] = <<>>
      /\ DOMAIN <<>> = {} /\ "main" \in Stacks
  BY DEF Init, Stacks
<1>2. TypeOK
  <2>1. cursor \in Nat
    BY Sizes DEF Init, Places
  <2>2. left \in Seq(Marks \cup {"newline"})
    BY DEF Init
  <2>3. buffer \in [Places -> Marks \cup {Blank}]
    BY DEF Init
  <2> QED
    BY <1>1, <2>1, <2>2, <2>3, Sizes DEF Init, TypeOK
<1>3. FramesInv
  BY <1>1 DEF FramesInv
<1>4. RowInv
  <2>1. ~(row >= Height)
    BY Sizes DEF Init
  <2> QED
    BY <1>1, <2>1 DEF RowInv
<1> QED
  BY <1>2, <1>3, <1>4 DEF BasicInv

\* Every step of the console keeps BasicInv, however writes meet.
LEMMA NextBasic ==
    ASSUME BasicInv, [Next]_vars
    PROVE  BasicInv'
<1>1. ASSUME NEW s \in Stacks, Write(s)
      PROVE  BasicInv'
  BY <1>1, NewlineBasic, NextRowBasic, ScrollLinesBasic, ScrollRowBasic, ReloadRowBasic,
     LoadColumnBasic, BackColumnBasic, BackRowBasic, StoreCellBasic, AdvanceBasic,
     vga_update_cursorBasic, ClearCellsBasic, ClearRowBasic, ClearColumnBasic DEF Write
<1>2. CASE UNCHANGED vars
  BY <1>2 DEF vars, screen, fault, BasicInv, TypeOK, FramesInv, FrameInv, RowInv, SetsRow,
              SetByOneBelow
<1> QED
  BY <1>1, <1>2, CallBasic, RaiseBasic, WriteReportBasic DEF Next, HltForever

\* However writes interrupt and preempt each other, and wherever an exception comes,
\* the column stays on the screen and every write is what it was called for.  Of the row
\* that is not so: ScreenIsRestored.
THEOREM ConsoleTypeCorrect == Spec => []TypeOK
<1>1. Init => BasicInv
  BY InitBasic
<1>2. BasicInv /\ [Next]_vars => BasicInv'
  BY NextBasic
<1>3. BasicInv => TypeOK
  BY DEF BasicInv
<1> QED
  BY <1>1, <1>2, <1>3, PTL DEF Spec

----------------------------------------------------------------------------
(* What a write does that meets no other                                   *)

\* The only write there is has done to the screen what Done says.
LEMMA OnlyWrite ==
    ASSUME ConsoleInv, NEW s \in Stacks, writer[s] # <<>>, overlap = "none"
    PROVE  \E text \in Texts, y \in 0 .. Height - 1, x \in 0 .. Width - 1 :
              /\ before = <<text, y, x, cursor>>
              /\ Len(writer[s]) = 1 /\ Top(s) = writer[s][1]
              /\ \A t \in Stacks \ {s} : writer[t] = <<>>
              /\ Done(Top(s), text, y, x)
<1>1. ~Idle
  BY DEF Idle
<1>2. PICK t \in Stacks, y \in 0 .. Height - 1, x \in 0 .. Width - 1 :
          /\ before[1] \in Texts /\ before = <<before[1], y, x, cursor>>
          /\ Len(writer[t]) = 1 /\ \A u \in Stacks \ {t} : writer[u] = <<>>
          /\ Done(writer[t][1], before[1], y, x)
  BY <1>1 DEF ConsoleInv, WriteInv
<1>3. t = s
  BY <1>2
<1>4. Top(s) = writer[s][1]
  BY <1>2, <1>3 DEF Top, Last
<1>5. PICK text \in Texts : text = before[1]
  BY <1>2
<1> QED
  BY <1>2, <1>3, <1>4, <1>5

\* An exception has come: the report is written by the boot stack, one character
\* at a time.
LEMMA OnlyReport ==
    ASSUME ConsoleInv, NEW s \in Stacks, writer[s] # <<>>, raised # {}
    PROVE  /\ s = "main" /\ Len(writer[s]) = 1 /\ Top(s) = writer[s][1]
           /\ \A t \in Stacks \ {s} : writer[t] = <<>>
<1>1. PICK vector \in raised :
          /\ writer["background"] = <<>> /\ Len(writer["main"]) <= 1
  BY DEF ConsoleInv, ReportInv
<1>2. s = "main" /\ \A t \in Stacks \ {s} : writer[t] = <<>>
  BY <1>1 DEF Stacks
<1>3. Len(writer[s]) = 1
  <2>1. writer[s] \in Seq(Frames)
    BY DEF ConsoleInv, TypeOK
  <2>2. PICK n \in Nat : n = Len(writer[s]) /\ n >= 1
    BY <2>1, StackElements
  <2>3. n <= 1
    BY <1>1, <1>2, <2>2
  <2>4. n = 1
    <3> HIDE <2>2
    <3>1. n >= 1
      BY <2>2
    <3> QED
      BY <2>3, <3>1
  <2> QED
    BY <2>2, <2>4
<1>4. Top(s) = writer[s][1]
  BY <1>3 DEF Top, Last
<1> QED
  BY <1>2, <1>3, <1>4

\* A step in which a write goes on as g keeps WriteInv and ReportInv, if g has done
\* what it should have.
LEMMA GoesOnWrites ==
    ASSUME ConsoleInv, NEW s \in Stacks, writer[s] # <<>>,
           NEW g \in Frames, Becomes(s, g), g.char = Top(s).char,
           cursor' = cursor, Step,
           \A text \in Texts, y \in 0 .. Height - 1, x \in 0 .. Width - 1 :
               overlap = "none" /\ Done(Top(s), text, y, x) => Done(g, text, y, x)',
           Clears(Top(s)) => Clears(g)'
    PROVE  WriteInv' /\ ReportInv'
<1>1. /\ writer'[s] # <<>> /\ Len(writer'[s]) = Len(writer[s])
      /\ writer'[s][Len(writer[s])] = g
      /\ \A t \in Stacks \ {s} : writer'[t] = writer[t]
  BY WriteGoesOn DEF ConsoleInv
<1>2. overlap' = overlap /\ before' = before /\ left' = left /\ raised' = raised
  BY DEF Step, fault
<1>3. WriteInv'
  <2>1. SUFFICES ASSUME overlap' = "none"
                 PROVE  \E t \in Stacks, y \in 0 .. Height - 1, x \in 0 .. Width - 1 :
                            /\ before'[1] \in Texts /\ before' = <<before'[1], y, x, cursor'>>
                            /\ Len(writer'[t]) = 1
                            /\ \A u \in Stacks \ {t} : writer'[u] = <<>>
                            /\ Done(writer[t][1], before[1], y, x)'
    BY DEF WriteInv, Texts, Places, Cells
  <2>2. PICK text \in Texts, y \in 0 .. Height - 1, x \in 0 .. Width - 1 :
              /\ before = <<text, y, x, cursor>>
              /\ Len(writer[s]) = 1 /\ Top(s) = writer[s][1]
              /\ \A t \in Stacks \ {s} : writer[t] = <<>>
              /\ Done(Top(s), text, y, x)
    BY <1>2, <2>1, OnlyWrite
  <2>3. Done(g, text, y, x)'
    BY <1>2, <2>1, <2>2
  <2>4. writer'[s][1] = g /\ before'[1] = text /\ Len(writer'[s]) = 1
    BY <1>1, <1>2, <2>2
  <2>5. Done(writer[s][1], before[1], y, x)'
    BY <2>3, <2>4
  <2>6. before' = <<before'[1], y, x, cursor'>> /\ before'[1] \in Texts
    BY <1>2, <2>2, <2>4
  <2>7. \A u \in Stacks \ {s} : writer'[u] = <<>>
    BY <1>1, <2>2
  <2> QED
    BY <2>4, <2>5, <2>6, <2>7
<1>4. ReportInv'
  <2>1. overlap' = "fault" => raised' # {} /\ before' = <<>>
    BY <1>2 DEF ConsoleInv, ReportInv
  <2>2. SUFFICES ASSUME NEW vector \in raised
                 PROVE  /\ raised' = {vector}
                        /\ writer'["background"] = <<>> /\ Len(writer'["main"]) <= 1
                        /\ overlap' \in {"fault", "none"}
                        /\ overlap' = "fault" =>
                              /\ left' = Message(Report(vector)) /\ writer'["main"] # <<>>
                              /\ Clears(writer["main"][1])'
                        /\ overlap' = "none" =>
                              \E n \in 0 .. 3 : Reported(Report(vector), n)'
    BY <1>2, <2>1 DEF ReportInv
  <2>3. /\ s = "main" /\ Len(writer[s]) = 1 /\ Top(s) = writer[s][1]
        /\ \A t \in Stacks \ {s} : writer[t] = <<>>
    BY OnlyReport
  <2>4. /\ raised = {vector}
        /\ overlap \in {"fault", "none"}
        /\ overlap = "fault" => /\ left = Message(Report(vector))
                                /\ Clears(writer["main"][1])
        /\ overlap = "none" => \E n \in 0 .. 3 : Reported(Report(vector), n)
    BY DEF ConsoleInv, ReportInv
  <2>5. /\ writer'["background"] = <<>> /\ Len(writer'["main"]) = 1
        /\ writer'["main"] # <<>> /\ writer'["main"][1] = g
    BY <1>1, <2>3 DEF Stacks
  <2>6. overlap' = "fault" => Clears(writer["main"][1])'
    BY <1>2, <2>3, <2>4, <2>5
  <2>7. ASSUME overlap' = "none"
        PROVE  \E n \in 0 .. 3 : Reported(Report(vector), n)'
    <3>1. PICK n \in 0 .. 3 : Reported(Report(vector), n)
      BY <1>2, <2>4, <2>7
    <3>2. Reported(Report(vector), n)'
      BY <1>2, <2>3, <2>5, <3>1 DEF Reported
    <3> QED
      BY <3>2
  <2> QED
    BY <1>2, <2>4, <2>5, <2>6, <2>7
<1> QED
  BY <1>3, <1>4

\* Each character of the report finds what was written before it, and leaves what is
\* to be seen with it.
LEMMA ReportGoesOn ==
    ASSUME NEW vector \in Vectors, NEW n \in 1 .. 3, NEW f \in Frames,
           f.char = Message(Report(vector))[n],
           NEW text \in Texts, NEW y, NEW x,
           <<text, y, x>> = Page(Report(vector), n - 1)
    PROVE  Written(f, text, y, x) = Page(Report(vector), n)
<1> DEFINE a == ToString(Report(vector).exception)
           b == ToString(Report(vector).error)
           first == [Blanks EXCEPT ![0] = a]
           both  == [first EXCEPT ![Width] = b]
<1>1. /\ a \in Marks /\ b \in Marks /\ Message(Report(vector))[1] = a
      /\ Message(Report(vector))[2] = "newline" /\ Message(Report(vector))[3] = b
  BY MessageIs
<1>2. /\ Page(Report(vector), 0) = <<Blanks, 0, 0>> /\ Page(Report(vector), 1) = <<first, 0, 1>>
      /\ Page(Report(vector), 2) = <<first, 1, 0>> /\ Page(Report(vector), 3) = <<both, 1, 1>>
  <2>1. /\ <<Blanks, 0, 0>> = << <<Blanks, 0, 0>>, <<first, 0, 1>>, <<first, 1, 0>>, <<both, 1, 1>> >>[1]
        /\ <<first, 0, 1>> = << <<Blanks, 0, 0>>, <<first, 0, 1>>, <<first, 1, 0>>, <<both, 1, 1>> >>[2]
        /\ <<first, 1, 0>> = << <<Blanks, 0, 0>>, <<first, 0, 1>>, <<first, 1, 0>>, <<both, 1, 1>> >>[3]
        /\ <<both, 1, 1>> = << <<Blanks, 0, 0>>, <<first, 0, 1>>, <<first, 1, 0>>, <<both, 1, 1>> >>[4]
    <3> HIDE DEF first, both
    <3> QED
      OBVIOUS
  <2> QED
    BY <2>1 DEF Page
<1>3. a \notin Controls /\ b \notin Controls
  BY <1>1, MarksAssumption
<1>4. PICK w \in Nat \ {0, 1} : w = Width
  BY SizeAssumption
<1>5. PICK h \in Nat \ {0, 1} : h = Height
  BY SizeAssumption
<1> HIDE DEF a, b, first, both
<1>6. vga_get_index(0, 0) = 0 /\ vga_get_index(0, 1) = Width
  BY <1>4 DEF vga_get_index
<1>7. 0 < Width - 1 /\ 0 < Height - 1
  BY <1>4, <1>5
<1>8. CASE n = 1
  <2>1. f.char = a /\ text = Blanks /\ y = 0 /\ x = 0
    BY <1>1, <1>2, <1>8
  <2>2. Put(f, text, y, x) = first
    BY <1>3, <1>6, <2>1 DEF Put, Controls, first
  <2> QED
    BY <1>2, <1>3, <1>7, <1>8, <2>1, <2>2 DEF Written, Controls
<1>9. CASE n = 2
  <2>1. f.char = "newline" /\ text = first /\ y = 0 /\ x = 1
    BY <1>1, <1>2, <1>9
  <2>2. Put(f, text, y, x) = first
    BY <2>1 DEF Put
  <2> QED
    BY <1>2, <1>7, <1>9, <2>1, <2>2 DEF Written
<1>10. CASE n = 3
  <2>1. f.char = b /\ text = first /\ y = 1 /\ x = 0
    BY <1>1, <1>2, <1>10
  <2>2. Put(f, text, y, x) = both
    BY <1>3, <1>6, <2>1 DEF Put, Controls, both
  <2> QED
    BY <1>2, <1>3, <1>7, <1>10, <2>1, <2>2 DEF Written, Controls
<1> QED
  BY <1>8, <1>9, <1>10

\* The report, before anything of it is written, and after n characters.
LEMMA RestOfReport ==
    ASSUME NEW vector \in Vectors
    PROVE  /\ Rest(Report(vector), 0) = Message(Report(vector))
           /\ \A n \in 0 .. 2 :
                  /\ Head(Rest(Report(vector), n)) = Message(Report(vector))[n + 1]
                  /\ Tail(Rest(Report(vector), n)) = Rest(Report(vector), n + 1)
           /\ Rest(Report(vector), 3) = <<>>
<1>1. PICK q \in Seq(Marks \cup {"newline"}) : q = Message(Report(vector)) /\ Len(q) = 3
  BY MessageIs
<1>2. \A n \in 0 .. 3 : Rest(Report(vector), n) = SubSeq(q, n + 1, 3)
  BY <1>1 DEF Rest
<1>3. SubSeq(q, 1, 3) = q
  <2>1. SubSeq(q, 1, Len(q)) = q
    BY SubSeqFull
  <2> QED
    BY <1>1, <2>1
<1>4. SubSeq(q, 4, 3) = <<>>
  BY SubSeqEmpty
<1>5. ASSUME NEW n \in 0 .. 2
      PROVE  /\ Head(SubSeq(q, n + 1, 3)) = q[n + 1]
             /\ Tail(SubSeq(q, n + 1, 3)) = SubSeq(q, n + 1 + 1, 3)
  <2>1. n + 1 \in 1 .. Len(q) /\ 3 \in n + 1 .. Len(q)
    BY <1>1
  <2> QED
    BY <2>1, HeadTailOfSubSeq
<1>6. ASSUME NEW n \in 0 .. 2
      PROVE  /\ Head(Rest(Report(vector), n)) = q[n + 1]
             /\ Tail(Rest(Report(vector), n)) = Rest(Report(vector), n + 1)
  <2>1. n \in 0 .. 3 /\ n + 1 \in 0 .. 3
    OBVIOUS
  <2> QED
    BY <1>2, <1>5, <2>1
<1>7. Rest(Report(vector), 0) = q /\ Rest(Report(vector), 3) = <<>>
  <2>1. 0 \in 0 .. 3 /\ 3 \in 0 .. 3 /\ 0 + 1 = 1 /\ 3 + 1 = 4
    OBVIOUS
  <2> QED
    BY <1>2, <1>3, <1>4, <2>1
<1> QED
  BY <1>1, <1>6, <1>7

\* A step in which a write returns keeps WriteInv and ReportInv, if it has written what
\* it was asked to.
LEMMA ReturnWrites ==
    ASSUME ConsoleInv, NEW s \in Stacks, writer[s] # <<>>, Return(s),
           NEW f \in Frames, f = Top(s),
           fault' = fault, before' = before,
           overlap # "fault" => overlap' = overlap,
           Clears(f) /\ overlap = "fault" =>
               overlap' = "none" /\ buffer' = Blanks /\ row' = 0 /\ column' = 0,
           \A text \in Texts, y \in 0 .. Height - 1, x \in 0 .. Width - 1 :
               overlap = "none" /\ Done(f, text, y, x) =>
                   <<buffer', row', column'>> = Written(f, text, y, x)
    PROVE  WriteInv' /\ ReportInv'
<1>1. /\ Len(writer[s]) = 1 => writer'[s] = <<>>
      /\ \A t \in Stacks \ {s} : writer'[t] = writer[t]
  BY WriteReturns DEF ConsoleInv
<1>2. left' = left /\ raised' = raised
  BY DEF fault
<1>3. ASSUME overlap' = "none"
      PROVE  Idle'
  <2>1. CASE overlap = "fault"
    <3>1. raised # {}
      BY <2>1 DEF ConsoleInv, ReportInv
    <3> QED
      BY <1>1, <3>1, OnlyReport DEF Idle
  <2>2. CASE overlap # "fault"
    <3>1. Len(writer[s]) = 1 /\ \A t \in Stacks \ {s} : writer[t] = <<>>
      BY <1>3, <2>2, OnlyWrite
    <3> QED
      BY <1>1, <3>1 DEF Idle
  <2> QED
    BY <2>1, <2>2
<1>4. WriteInv'
  BY <1>3 DEF WriteInv
<1>5. ReportInv'
  <2>1. overlap' = "fault" => raised' # {} /\ before' = <<>>
    BY <1>2 DEF ConsoleInv, ReportInv
  <2>2. SUFFICES ASSUME NEW vector \in raised
                 PROVE  /\ raised' = {vector}
                        /\ writer'["background"] = <<>> /\ Len(writer'["main"]) <= 1
                        /\ overlap' \in {"fault", "none"}
                        /\ overlap' = "fault" =>
                              /\ left' = Message(Report(vector)) /\ writer'["main"] # <<>>
                              /\ Clears(writer["main"][1])'
                        /\ overlap' = "none" =>
                              \E n \in 0 .. 3 : Reported(Report(vector), n)'
    BY <1>2, <2>1 DEF ReportInv
  <2>3. /\ s = "main" /\ Len(writer[s]) = 1 /\ Top(s) = writer[s][1]
        /\ \A t \in Stacks \ {s} : writer[t] = <<>>
    BY OnlyReport
  <2>4. /\ raised = {vector}
        /\ overlap \in {"fault", "none"}
        /\ overlap = "fault" => /\ left = Message(Report(vector))
                                /\ Clears(writer["main"][1])
        /\ overlap = "none" => \E n \in 0 .. 3 : Reported(Report(vector), n)
    BY DEF ConsoleInv, ReportInv
  <2>5. writer'["background"] = <<>> /\ writer'["main"] = <<>>
    BY <1>1, <2>3 DEF Stacks
  <2>6. vector \in Vectors
    BY RaisedAssumption DEF ConsoleInv, TypeOK
  <2>7. overlap' = "none"
    BY <2>3, <2>4
  <2>8. CASE overlap = "fault"
    <3>1. buffer' = Blanks /\ row' = 0 /\ column' = 0
      BY <2>3, <2>4, <2>8
    <3>2. Page(Report(vector), 0) = <<Blanks, 0, 0>>
      BY DEF Page
    <3>3. left' = Rest(Report(vector), 0)
      <4>1. Rest(Report(vector), 0) = Message(Report(vector))
        BY <2>6, RestOfReport
      <4> QED
        BY <1>2, <2>4, <2>8, <4>1
    <3>4. Reported(Report(vector), 0)'
      BY <2>5, <3>1, <3>2, <3>3 DEF Reported
    <3> QED
      BY <2>4, <2>5, <2>7, <3>4, <1>2, OneWrite
  <2>9. CASE overlap = "none"
    <3>1. PICK n \in 0 .. 3 : Reported(Report(vector), n)
      BY <2>4, <2>9
    <3>2. /\ left = Rest(Report(vector), n) /\ n \in 1 .. 3
          /\ f.char = Message(Report(vector))[n]
          /\ <<before[1], before[2], before[3]>> = Page(Report(vector), n - 1)
      BY <2>3, <3>1 DEF Reported
    <3>3. PICK text \in Texts, y \in 0 .. Height - 1, x \in 0 .. Width - 1 :
              before = <<text, y, x, cursor>> /\ Done(f, text, y, x)
      BY <2>9, OnlyWrite
    <3>4. <<buffer', row', column'>> = Written(f, text, y, x)
      BY <2>9, <3>3
    <3>5. <<text, y, x>> = Page(Report(vector), n - 1)
      BY <3>2, <3>3
    <3>6. <<buffer', row', column'>> = Page(Report(vector), n)
      BY <2>6, <3>2, <3>4, <3>5, ReportGoesOn
    <3>7. Reported(Report(vector), n)'
      BY <1>2, <2>5, <3>2, <3>6 DEF Reported
    <3> QED
      BY <2>4, <2>5, <2>7, <3>7, <1>2, OneWrite
  <2> QED
    BY <2>4, <2>8, <2>9
<1> QED
  BY <1>4, <1>5

\* What the lemmas on single steps start from.
LEMMA ConsoleIsBasic == ConsoleInv => BasicInv
  BY DEF ConsoleInv, BasicInv

\* Column = 0 of a newline keeps WriteInv and ReportInv.
LEMMA NewlineWrites ==
    ASSUME ConsoleInv, NEW s \in Stacks, Newline(s)
    PROVE  WriteInv' /\ ReportInv'
<1>1. At(s, "newline") /\ "newline" \in Labels
  BY DEF Newline, Labels
<1>2. /\ writer[s] # <<>> /\ Top(s) \in Frames /\ FrameInv(Top(s)) /\ Top(s).pc = "newline"
      /\ Top(s).row \in Nat /\ Top(s).column \in 0 .. Width - 1
  BY <1>1, ConsoleIsBasic, TopFrame
<1>3. PICK g \in Frames : g = [Top(s) EXCEPT !.pc = "row"]
  BY <1>2, ConsoleIsBasic DEF Frames, Labels
<1>4. g.char = Top(s).char /\ g.pc = "row" /\ g.row = Top(s).row /\ g.char = "newline"
  BY <1>2, <1>3 DEF FrameInv, Frames
<1>5. Becomes(s, g)
  BY <1>3 DEF Newline, Goto
<1>6. cursor' = cursor /\ Step /\ buffer' = buffer /\ row' = row /\ column' = 0
  BY <1>2 DEF Newline, Step, screen
<1>7. ASSUME NEW text \in Texts, NEW y \in 0 .. Height - 1, NEW x \in 0 .. Width - 1,
             overlap = "none", Done(Top(s), text, y, x)
      PROVE  Done(g, text, y, x)'
  <2>1. Screen(text, y, x) /\ Top(s).row = y
    BY <1>2, <1>7 DEF Done
  <2> QED
    BY <1>2, <1>4, <1>6, <2>1 DEF Done, Screen, Put, EndsLine
<1>8. Clears(Top(s)) => Clears(g)'
  BY <1>2 DEF Clears
<1> QED
  BY <1>2, <1>4, <1>5, <1>6, <1>7, <1>8, GoesOnWrites

\* Vga_scroll moving the lines up keeps WriteInv and ReportInv.
LEMMA ScrollLinesWrites ==
    ASSUME ConsoleInv, NEW s \in Stacks, ScrollLines(s)
    PROVE  WriteInv' /\ ReportInv'
<1>1. At(s, "scroll") /\ "scroll" \in Labels
  BY DEF ScrollLines, Labels
<1>2. /\ writer[s] # <<>> /\ Top(s) \in Frames /\ FrameInv(Top(s)) /\ Top(s).pc = "scroll"
      /\ Top(s).row \in Nat /\ Top(s).column \in 0 .. Width - 1
  BY <1>1, ConsoleIsBasic, TopFrame
<1>3. PICK g \in Frames : g = [Top(s) EXCEPT !.pc = "lastrow"]
  BY <1>2, ConsoleIsBasic DEF Frames, Labels
<1>4. g.char = Top(s).char /\ g.pc = "lastrow" /\ g.column = Top(s).column
  BY <1>2, <1>3 DEF FrameInv, Frames
<1>5. Becomes(s, g)
  BY <1>3 DEF ScrollLines, Goto
<1>6. cursor' = cursor /\ Step /\ buffer' = Scrolled(buffer) /\ row' = row /\ column' = column
  BY <1>2 DEF ScrollLines, Step, screen
<1>7. ASSUME NEW text \in Texts, NEW y \in 0 .. Height - 1, NEW x \in 0 .. Width - 1,
             overlap = "none", Done(Top(s), text, y, x)
      PROVE  Done(g, text, y, x)'
  <2>1. /\ Screen(Put(Top(s), text, y, x), Height, 0)
        /\ y = Height - 1 /\ EndsLine(Top(s), x)
    BY <1>2, <1>7 DEF Done
  <2> QED
    BY <1>2, <1>4, <1>6, <2>1 DEF Done, Screen, Put, EndsLine
<1>8. Clears(Top(s)) => Clears(g)'
  BY <1>2 DEF Clears
<1> QED
  BY <1>2, <1>4, <1>5, <1>6, <1>7, <1>8, GoesOnWrites

\* The second load of row, behind vga_scroll, keeps WriteInv and ReportInv.
LEMMA ReloadRowWrites ==
    ASSUME ConsoleInv, NEW s \in Stacks, ReloadRow(s)
    PROVE  WriteInv' /\ ReportInv'
<1>1. At(s, "reload") /\ "reload" \in Labels
  BY DEF ReloadRow, Labels
<1>2. /\ writer[s] # <<>> /\ Top(s) \in Frames /\ FrameInv(Top(s)) /\ Top(s).pc = "reload"
      /\ Top(s).row \in Nat /\ Top(s).column \in 0 .. Width - 1
  BY <1>1, ConsoleIsBasic, TopFrame
<1>3. PICK g \in Frames : g = [Top(s) EXCEPT !.pc = "cursor", !.row = row]
  BY <1>2, ConsoleIsBasic, RowNat DEF Frames, Labels
<1>4. g.char = Top(s).char /\ g.pc = "cursor" /\ g.row = row /\ g.column = Top(s).column
      /\ g.char \in Marks
  BY <1>2, <1>3 DEF FrameInv, Frames
<1>5. Becomes(s, g)
  BY <1>3 DEF ReloadRow
<1>6. cursor' = cursor /\ Step /\ buffer' = buffer /\ row' = row /\ column' = column
  BY <1>2 DEF ReloadRow, Step, screen
<1>7. ASSUME NEW text \in Texts, NEW y \in 0 .. Height - 1, NEW x \in 0 .. Width - 1,
             overlap = "none", Done(Top(s), text, y, x)
      PROVE  Done(g, text, y, x)'
  <2>1. /\ Screen(Scrolled(Put(Top(s), text, y, x)), Height - 1, 0)
        /\ y = Height - 1 /\ EndsLine(Top(s), x)
    BY <1>2, <1>7 DEF Done
  <2> QED
    BY <1>2, <1>4, <1>6, <2>1, MarksAssumption, SizeAssumption DEF Done, Screen, Put, EndsLine, Written, Controls
<1>8. Clears(Top(s)) => Clears(g)'
  BY <1>2 DEF Clears
<1> QED
  BY <1>2, <1>4, <1>5, <1>6, <1>7, <1>8, GoesOnWrites

\* The load of column for a glyph or a backspace keeps WriteInv and ReportInv.
LEMMA LoadColumnWrites ==
    ASSUME ConsoleInv, NEW s \in Stacks, LoadColumn(s)
    PROVE  WriteInv' /\ ReportInv'
<1>1. At(s, "column") /\ "column" \in Labels
  BY DEF LoadColumn, Labels
<1>2. /\ writer[s] # <<>> /\ Top(s) \in Frames /\ FrameInv(Top(s)) /\ Top(s).pc = "column"
      /\ Top(s).row \in Nat /\ Top(s).column \in 0 .. Width - 1
  BY <1>1, ConsoleIsBasic, TopFrame
<1>3. PICK g \in Frames : g = [Top(s) EXCEPT !.column = column,
               !.pc = IF Top(s).char = "backspace" THEN "back" ELSE "cell"]
  BY <1>2, ConsoleIsBasic, RowNat DEF Frames, Labels
<1>4. g.char = Top(s).char /\ g.row = Top(s).row /\ g.column = column
      /\ g.pc = IF Top(s).char = "backspace" THEN "back" ELSE "cell"
  BY <1>2, <1>3 DEF FrameInv, Frames
<1>5. Becomes(s, g)
  BY <1>3 DEF LoadColumn
<1>6. cursor' = cursor /\ Step /\ buffer' = buffer /\ row' = row /\ column' = column
  BY <1>2 DEF LoadColumn, Step, screen
<1>7. ASSUME NEW text \in Texts, NEW y \in 0 .. Height - 1, NEW x \in 0 .. Width - 1,
             overlap = "none", Done(Top(s), text, y, x)
      PROVE  Done(g, text, y, x)'
  <2>1. Screen(text, y, x) /\ Top(s).row = y
    BY <1>2, <1>7 DEF Done
  <2> QED
    BY <1>2, <1>4, <1>6, <2>1 DEF Done, Screen, Put, EndsLine
<1>8. Clears(Top(s)) => Clears(g)'
  BY <1>2 DEF Clears
<1> QED
  BY <1>2, <1>4, <1>5, <1>6, <1>7, <1>8, GoesOnWrites

\* A backspace over the start of a line keeps WriteInv and ReportInv.
LEMMA BackRowWrites ==
    ASSUME ConsoleInv, NEW s \in Stacks, BackRow(s)
    PROVE  WriteInv' /\ ReportInv'
<1>1. At(s, "backrow") /\ "backrow" \in Labels
  BY DEF BackRow, Labels
<1>2. /\ writer[s] # <<>> /\ Top(s) \in Frames /\ FrameInv(Top(s)) /\ Top(s).pc = "backrow"
      /\ Top(s).row \in Nat /\ Top(s).column \in 0 .. Width - 1
  BY <1>1, ConsoleIsBasic, TopFrame
<1>3. PICK g \in Frames : g = [Top(s) EXCEPT !.pc = "cell"]
  BY <1>2, ConsoleIsBasic DEF Frames, Labels
<1>4. g.char = Top(s).char /\ g.pc = "cell" /\ g.row = Top(s).row /\ g.column = Top(s).column
      /\ g.char = "backspace"
  BY <1>2, <1>3 DEF FrameInv, Frames
<1>5. Becomes(s, g)
  BY <1>3 DEF BackRow, Goto
<1>6. cursor' = cursor /\ Step /\ buffer' = buffer /\ row' = Top(s).row /\ column' = column
  BY <1>2 DEF BackRow, Step, screen
<1>7. ASSUME NEW text \in Texts, NEW y \in 0 .. Height - 1, NEW x \in 0 .. Width - 1,
             overlap = "none", Done(Top(s), text, y, x)
      PROVE  Done(g, text, y, x)'
  <2>1. /\ Screen(text, y, Width - 1) /\ x = 0 /\ y > 0
        /\ Top(s).row = y - 1 /\ Top(s).column = Width - 1
    BY <1>2, <1>7 DEF Done
  <2> QED
    BY <1>2, <1>4, <1>6, <2>1 DEF Done, Screen, RowBefore, ColumnBefore
<1>8. Clears(Top(s)) => Clears(g)'
  BY <1>2 DEF Clears
<1> QED
  BY <1>2, <1>4, <1>5, <1>6, <1>7, <1>8, GoesOnWrites

\* Vga_clear blanking the buffer keeps WriteInv and ReportInv.
LEMMA ClearCellsWrites ==
    ASSUME ConsoleInv, NEW s \in Stacks, ClearCells(s)
    PROVE  WriteInv' /\ ReportInv'
<1>1. At(s, "clear") /\ "clear" \in Labels
  BY DEF ClearCells, Labels
<1>2. /\ writer[s] # <<>> /\ Top(s) \in Frames /\ FrameInv(Top(s)) /\ Top(s).pc = "clear"
      /\ Top(s).row \in Nat /\ Top(s).column \in 0 .. Width - 1
  BY <1>1, ConsoleIsBasic, TopFrame
<1>3. PICK g \in Frames : g = [Top(s) EXCEPT !.pc = "home"]
  BY <1>2, ConsoleIsBasic DEF Frames, Labels
<1>4. g.char = Top(s).char /\ g.pc = "home"
  BY <1>2, <1>3 DEF FrameInv, Frames
<1>5. Becomes(s, g)
  BY <1>3 DEF ClearCells, Goto
<1>6. cursor' = cursor /\ Step /\ buffer' = Blanks /\ row' = row /\ column' = column
  BY <1>2 DEF ClearCells, Step, screen, Blanks
<1>7. ASSUME NEW text \in Texts, NEW y \in 0 .. Height - 1, NEW x \in 0 .. Width - 1,
             overlap = "none", Done(Top(s), text, y, x)
      PROVE  Done(g, text, y, x)'
  <2>1. Screen(text, y, x)
    BY <1>2, <1>7 DEF Done
  <2> QED
    BY <1>2, <1>4, <1>6, <2>1 DEF Done, Screen, Blanks, Places, Cells
<1>8. Clears(Top(s)) => Clears(g)'
  BY <1>4, <1>6 DEF Clears, Blanks, Places, Cells
<1> QED
  BY <1>2, <1>4, <1>5, <1>6, <1>7, <1>8, GoesOnWrites

\* Vga_clear setting row = 0 keeps WriteInv and ReportInv.
LEMMA ClearRowWrites ==
    ASSUME ConsoleInv, NEW s \in Stacks, ClearRow(s)
    PROVE  WriteInv' /\ ReportInv'
<1>1. At(s, "home") /\ "home" \in Labels
  BY DEF ClearRow, Labels
<1>2. /\ writer[s] # <<>> /\ Top(s) \in Frames /\ FrameInv(Top(s)) /\ Top(s).pc = "home"
      /\ Top(s).row \in Nat /\ Top(s).column \in 0 .. Width - 1
  BY <1>1, ConsoleIsBasic, TopFrame
<1>3. PICK g \in Frames : g = [Top(s) EXCEPT !.pc = "left"]
  BY <1>2, ConsoleIsBasic DEF Frames, Labels
<1>4. g.char = Top(s).char /\ g.pc = "left"
  BY <1>2, <1>3 DEF FrameInv, Frames
<1>5. Becomes(s, g)
  BY <1>3 DEF ClearRow, Goto
<1>6. cursor' = cursor /\ Step /\ buffer' = buffer /\ row' = 0 /\ column' = column
  BY <1>2 DEF ClearRow, Step, screen
<1>7. ASSUME NEW text \in Texts, NEW y \in 0 .. Height - 1, NEW x \in 0 .. Width - 1,
             overlap = "none", Done(Top(s), text, y, x)
      PROVE  Done(g, text, y, x)'
  <2>1. Screen(Blanks, y, x)
    BY <1>2, <1>7 DEF Done
  <2> QED
    BY <1>2, <1>4, <1>6, <2>1 DEF Done, Screen, Blanks, Places, Cells
<1>8. Clears(Top(s)) => Clears(g)'
  BY <1>2, <1>4, <1>6 DEF Clears, Blanks, Places, Cells
<1> QED
  BY <1>2, <1>4, <1>5, <1>6, <1>7, <1>8, GoesOnWrites

\* ++row, with its test for the last line, keeps WriteInv and ReportInv.
LEMMA NextRowWrites ==
    ASSUME ConsoleInv, NEW s \in Stacks, NextRow(s)
    PROVE  WriteInv' /\ ReportInv'
<1>1. At(s, "row") /\ "row" \in Labels
  BY DEF NextRow, Labels
<1>2. /\ writer[s] # <<>> /\ Top(s) \in Frames /\ FrameInv(Top(s)) /\ Top(s).pc = "row"
      /\ Top(s).row \in Nat /\ Top(s).column \in 0 .. Width - 1
  BY <1>1, ConsoleIsBasic, TopFrame
<1>3. PICK f \in Frames : f = Top(s)
  BY <1>2
<1>4. PICK n \in Nat : n = f.row + 1
  BY <1>2, <1>3
<1>5. buffer' = buffer /\ row' = n /\ column' = column /\ cursor' = cursor /\ Step
  BY <1>3, <1>4 DEF NextRow
<1>6. f.char \in Marks \cup {"newline"} /\ f.pc = "row" /\ ~Clears(f)
  BY <1>2, <1>3 DEF FrameInv, Clears
<1>7. ASSUME NEW text \in Texts, NEW y \in 0 .. Height - 1, NEW x \in 0 .. Width - 1,
             Done(f, text, y, x)
      PROVE  Screen(Put(f, text, y, x), y, 0) /\ f.row = y /\ n = y + 1 /\ EndsLine(f, x)
  BY <1>4, <1>6, <1>7 DEF Done
<1>8. CASE n = Height
  <2>1. PICK g \in Frames : g = [f EXCEPT !.pc = "scroll"]
    BY DEF Frames, Labels
  <2>2. g.pc = "scroll" /\ g.char = f.char /\ g.column = f.column
    BY <2>1 DEF Frames
  <2>3. Becomes(s, g)
    BY <1>3, <1>4, <1>8, <2>1 DEF NextRow, Goto
  <2>4. ASSUME NEW text \in Texts, NEW y \in 0 .. Height - 1, NEW x \in 0 .. Width - 1,
               overlap = "none", Done(Top(s), text, y, x)
        PROVE  Done(g, text, y, x)'
    <3>1. Screen(Put(f, text, y, x), y, 0) /\ n = y + 1 /\ EndsLine(f, x)
      BY <1>3, <1>7, <2>4
    <3>2. y = Height - 1
      BY <1>8, <3>1, SizeAssumption
    <3> QED
      BY <1>5, <1>8, <2>2, <3>1, <3>2 DEF Done, Screen, Put, EndsLine
  <2> QED
    BY <1>2, <1>3, <1>5, <1>6, <2>2, <2>3, <2>4, GoesOnWrites
<1>9. CASE n # Height /\ f.char # "newline"
  <2>1. PICK g \in Frames : g = [[f EXCEPT !.row = n] EXCEPT !.pc = "cursor"]
    BY DEF Frames, Labels
  <2>2. g.pc = "cursor" /\ g.row = n /\ g.char = f.char /\ g.column = f.column
    BY <2>1 DEF Frames
  <2>3. Becomes(s, g)
    <3>1. [f EXCEPT !.row = n].char = f.char
      BY DEF Frames
    <3> QED
      BY <1>3, <1>4, <1>9, <2>1, <3>1 DEF NextRow, Finish
  <2>4. ASSUME NEW text \in Texts, NEW y \in 0 .. Height - 1, NEW x \in 0 .. Width - 1,
               overlap = "none", Done(Top(s), text, y, x)
        PROVE  Done(g, text, y, x)'
    <3>1. Screen(Put(f, text, y, x), y, 0) /\ n = y + 1 /\ EndsLine(f, x)
      BY <1>3, <1>7, <2>4
    <3>2. x = Width - 1 /\ f.column = 0
      BY <1>9, <3>1 DEF EndsLine
    <3>3. y < Height - 1 /\ ~(x < Width - 1)
      BY <1>9, <3>1, <3>2, SizeAssumption
    <3>4. Written(g, text, y, x) = <<Put(f, text, y, x), y + 1, 0>>
      BY <1>6, <1>9, <2>2, <3>3, MarksAssumption DEF Written, Put, Controls
    <3> QED
      BY <1>5, <2>2, <3>1, <3>2, <3>4 DEF Done, Screen
  <2> QED
    BY <1>2, <1>3, <1>5, <1>6, <2>2, <2>3, <2>4, GoesOnWrites
<1>10. CASE n # Height /\ f.char = "newline"
  <2>1. Return(s)
    <3>1. [f EXCEPT !.row = n].char = f.char
      BY DEF Frames
    <3> QED
      BY <1>3, <1>4, <1>10, <3>1 DEF NextRow, Finish
  <2>2. ASSUME NEW text \in Texts, NEW y \in 0 .. Height - 1, NEW x \in 0 .. Width - 1,
               overlap = "none", Done(f, text, y, x)
        PROVE  <<buffer', row', column'>> = Written(f, text, y, x)
    <3>1. Screen(Put(f, text, y, x), y, 0) /\ n = y + 1
      BY <1>7, <2>2
    <3>2. y < Height - 1
      BY <1>10, <3>1, SizeAssumption
    <3> QED
      BY <1>5, <1>10, <3>1, <3>2 DEF Written, Screen
  <2>3. fault' = fault /\ before' = before /\ overlap' = overlap
    BY <1>5 DEF Step
  <2> QED
    BY <1>2, <1>3, <1>6, <2>1, <2>2, <2>3, ReturnWrites
<1> QED
  BY <1>8, <1>9, <1>10

\* Vga_scroll setting row to the last line keeps WriteInv and ReportInv.
LEMMA ScrollRowWrites ==
    ASSUME ConsoleInv, NEW s \in Stacks, ScrollRow(s)
    PROVE  WriteInv' /\ ReportInv'
<1>1. At(s, "lastrow") /\ "lastrow" \in Labels
  BY DEF ScrollRow, Labels
<1>2. /\ writer[s] # <<>> /\ Top(s) \in Frames /\ FrameInv(Top(s)) /\ Top(s).pc = "lastrow"
      /\ Top(s).row \in Nat /\ Top(s).column \in 0 .. Width - 1
  BY <1>1, ConsoleIsBasic, TopFrame
<1>3. PICK f \in Frames : f = Top(s)
  BY <1>2
<1>4. buffer' = buffer /\ row' = Height - 1 /\ column' = column /\ cursor' = cursor /\ Step
  BY DEF ScrollRow
<1>5. f.char \in Marks \cup {"newline"} /\ f.pc = "lastrow" /\ ~Clears(f)
  BY <1>2, <1>3 DEF FrameInv, Clears
<1>6. ASSUME NEW text \in Texts, NEW y \in 0 .. Height - 1, NEW x \in 0 .. Width - 1,
             Done(f, text, y, x)
      PROVE  /\ Screen(Scrolled(Put(f, text, y, x)), Height, 0)
             /\ y = Height - 1 /\ EndsLine(f, x)
  BY <1>5, <1>6 DEF Done
<1>7. CASE f.char # "newline"
  <2>1. PICK g \in Frames : g = [f EXCEPT !.pc = "reload"]
    BY DEF Frames, Labels
  <2>2. g.pc = "reload" /\ g.char = f.char /\ g.column = f.column
    BY <2>1 DEF Frames
  <2>3. Becomes(s, g)
    BY <1>3, <1>7, <2>1 DEF ScrollRow, Goto
  <2>4. ASSUME NEW text \in Texts, NEW y \in 0 .. Height - 1, NEW x \in 0 .. Width - 1,
               overlap = "none", Done(Top(s), text, y, x)
        PROVE  Done(g, text, y, x)'
    <3>1. /\ Screen(Scrolled(Put(f, text, y, x)), Height, 0)
          /\ y = Height - 1 /\ EndsLine(f, x)
      BY <1>3, <1>6, <2>4
    <3> QED
      BY <1>4, <2>2, <3>1 DEF Done, Screen, Put, EndsLine
  <2> QED
    BY <1>2, <1>3, <1>4, <1>5, <2>2, <2>3, <2>4, GoesOnWrites
<1>8. CASE f.char = "newline"
  <2>1. Return(s)
    BY <1>3, <1>8 DEF ScrollRow
  <2>2. ASSUME NEW text \in Texts, NEW y \in 0 .. Height - 1, NEW x \in 0 .. Width - 1,
               overlap = "none", Done(f, text, y, x)
        PROVE  <<buffer', row', column'>> = Written(f, text, y, x)
    <3>1. Screen(Scrolled(Put(f, text, y, x)), Height, 0) /\ y = Height - 1
      BY <1>6, <2>2
    <3>2. ~(y < Height - 1)
      BY <3>1, SizeAssumption
    <3> QED
      BY <1>4, <1>8, <3>1, <3>2 DEF Written, Screen
  <2>3. fault' = fault /\ before' = before /\ overlap' = overlap
    BY <1>4 DEF Step
  <2> QED
    BY <1>2, <1>3, <1>5, <2>1, <2>2, <2>3, ReturnWrites
<1> QED
  BY <1>7, <1>8

\* A backspace within a line keeps WriteInv and ReportInv.
LEMMA BackColumnWrites ==
    ASSUME ConsoleInv, NEW s \in Stacks, BackColumn(s)
    PROVE  WriteInv' /\ ReportInv'
<1>1. At(s, "back") /\ "back" \in Labels
  BY DEF BackColumn, Labels
<1>2. /\ writer[s] # <<>> /\ Top(s) \in Frames /\ FrameInv(Top(s)) /\ Top(s).pc = "back"
      /\ Top(s).row \in Nat /\ Top(s).column \in 0 .. Width - 1
  BY <1>1, ConsoleIsBasic, TopFrame
<1>3. PICK f \in Frames : f = Top(s)
  BY <1>2
<1>4. buffer' = buffer /\ row' = row /\ cursor' = cursor /\ Step
  BY DEF BackColumn
<1>5. /\ f.char = "backspace" /\ f.pc = "back" /\ ~Clears(f)
      /\ f.row \in Nat /\ f.column \in 0 .. Width - 1 /\ f.column \in Nat
  BY <1>2, <1>3, SizeAssumption DEF FrameInv, Clears
<1>6. ASSUME NEW text \in Texts, NEW y \in 0 .. Height - 1, NEW x \in 0 .. Width - 1,
             Done(Top(s), text, y, x)
      PROVE  Screen(text, y, x) /\ f.row = y /\ f.column = x
  BY <1>3, <1>5, <1>6 DEF Done
<1>7. CASE f.column > 0
  <2>1. PICK u \in 0 .. Width - 1 : u = f.column - 1
    BY <1>5, <1>7, SizeAssumption
  <2>2. PICK g \in Frames : g = [f EXCEPT !.pc = "cell", !.column = u]
    BY <2>1 DEF Frames, Labels
  <2>3. g.pc = "cell" /\ g.char = f.char /\ g.column = u /\ g.row = f.row
    BY <2>2 DEF Frames
  <2>4. column' = u /\ Becomes(s, [f EXCEPT !.pc = "cell", !.column = @ - 1])
    BY <1>3, <1>7, <2>1 DEF BackColumn
  <2>5. Becomes(s, g)
    BY <2>1, <2>2, <2>4
  <2>6. ASSUME NEW text \in Texts, NEW y \in 0 .. Height - 1, NEW x \in 0 .. Width - 1,
               overlap = "none", Done(Top(s), text, y, x)
        PROVE  Done(g, text, y, x)'
    <3>1. Screen(text, y, x) /\ f.row = y /\ f.column = x
      BY <1>6, <2>6
    <3>2. RowBefore(y, x) = y /\ ColumnBefore(y, x) = u
      BY <1>7, <2>1, <3>1 DEF RowBefore, ColumnBefore
    <3> QED
      BY <1>4, <1>5, <2>3, <2>4, <3>1, <3>2 DEF Done, Screen
  <2> QED
    BY <1>2, <1>3, <1>4, <1>5, <2>3, <2>5, <2>6, GoesOnWrites
<1>8. CASE f.column = 0 /\ f.row > 0
  <2>1. PICK v \in Nat : v = f.row - 1
    BY <1>5, <1>8
  <2>2. PICK g \in Frames : g = [f EXCEPT !.pc = "backrow", !.column = Width - 1, !.row = v]
    BY <2>1, Sizes DEF Frames, Labels
  <2>3. g.pc = "backrow" /\ g.char = f.char /\ g.column = Width - 1 /\ g.row = v
    BY <2>2 DEF Frames
  <2>4. /\ column' = Width - 1
        /\ Becomes(s, [f EXCEPT !.pc = "backrow", !.column = Width - 1, !.row = @ - 1])
    BY <1>3, <1>8 DEF BackColumn
  <2>5. Becomes(s, g)
    BY <2>1, <2>2, <2>4
  <2>6. ASSUME NEW text \in Texts, NEW y \in 0 .. Height - 1, NEW x \in 0 .. Width - 1,
               overlap = "none", Done(Top(s), text, y, x)
        PROVE  Done(g, text, y, x)'
    <3>1. Screen(text, y, x) /\ f.row = y /\ f.column = x
      BY <1>6, <2>6
    <3> QED
      BY <1>4, <1>8, <2>1, <2>3, <2>4, <3>1 DEF Done, Screen
  <2> QED
    BY <1>2, <1>3, <1>4, <1>5, <2>3, <2>5, <2>6, GoesOnWrites
<1>9. CASE f.column = 0 /\ f.row = 0
  <2>1. PICK g \in Frames : g = [f EXCEPT !.pc = "cell"]
    BY DEF Frames, Labels
  <2>2. g.pc = "cell" /\ g.char = f.char /\ g.column = f.column /\ g.row = f.row
    BY <2>1 DEF Frames
  <2>3. column' = column /\ Becomes(s, g)
    BY <1>3, <1>9, <2>1 DEF BackColumn, Goto
  <2>4. ASSUME NEW text \in Texts, NEW y \in 0 .. Height - 1, NEW x \in 0 .. Width - 1,
               overlap = "none", Done(Top(s), text, y, x)
        PROVE  Done(g, text, y, x)'
    <3>1. Screen(text, y, x) /\ f.row = y /\ f.column = x
      BY <1>6, <2>4
    <3>2. RowBefore(y, x) = y /\ ColumnBefore(y, x) = x
      BY <1>9, <3>1 DEF RowBefore, ColumnBefore
    <3> QED
      BY <1>4, <1>5, <2>2, <2>3, <3>1, <3>2 DEF Done, Screen
  <2> QED
    BY <1>2, <1>3, <1>4, <1>5, <2>2, <2>3, <2>4, GoesOnWrites
<1> QED
  BY <1>5, <1>7, <1>8, <1>9

\* A row and a column on the screen have an index in the buffer.
LEMMA OnScreen ==
    ASSUME NEW y \in 0 .. Height - 1, NEW x \in 0 .. Width - 1
    PROVE  vga_get_index(x, y) \in Places
<1>1. PICK w \in Nat \ {0} : w = Width
  BY SizeAssumption
<1>2. PICK h \in Nat \ {0} : h = Height
  BY SizeAssumption
<1>3. y \in Nat /\ x \in Nat /\ x < w /\ y + 1 <= h
  BY <1>1, <1>2
<1>4. y * w + w = (y + 1) * w /\ (y + 1) * w <= h * w /\ y * w \in Nat
  BY <1>1, <1>2, <1>3
<1>5. h * w = w * h
  BY <1>1, <1>2
<1>6. PICK p \in Nat : p = y * w
  BY <1>4
<1>7. PICK c \in Nat : c = w * h
  BY <1>1, <1>2
<1>8. p + w <= c
  BY <1>4, <1>5, <1>6, <1>7
<1>9. p + x \in 0 .. c - 1
  BY <1>1, <1>3, <1>8
<1> QED
  BY <1>1, <1>2, <1>6, <1>7, <1>9 DEF vga_get_index, Places, Cells

\* The place before one on the screen, to which a backspace goes, is on the screen.
LEMMA BeforeOnScreen ==
    ASSUME NEW y \in 0 .. Height - 1, NEW x \in 0 .. Width - 1
    PROVE  RowBefore(y, x) \in 0 .. Height - 1 /\ ColumnBefore(y, x) \in 0 .. Width - 1
  BY SizeAssumption DEF RowBefore, ColumnBefore

\* The store of a character keeps WriteInv and ReportInv.
LEMMA StoreCellWrites ==
    ASSUME ConsoleInv, NEW s \in Stacks, StoreCell(s)
    PROVE  WriteInv' /\ ReportInv'
<1>1. At(s, "cell") /\ "cell" \in Labels
  BY DEF StoreCell, Labels
<1>2. /\ writer[s] # <<>> /\ Top(s) \in Frames /\ FrameInv(Top(s)) /\ Top(s).pc = "cell"
      /\ Top(s).row \in Nat /\ Top(s).column \in 0 .. Width - 1
  BY <1>1, ConsoleIsBasic, TopFrame
<1>3. PICK f \in Frames : f = Top(s)
  BY <1>2
<1>4. row' = row /\ column' = column /\ cursor' = cursor /\ Step
  BY DEF StoreCell
<1>5. /\ f.char \in Marks \cup {"backspace"} /\ f.pc = "cell" /\ ~Clears(f)
  BY <1>2, <1>3 DEF FrameInv, Clears
<1>6. PICK c : c = IF f.char = "backspace" THEN Blank ELSE f.char
  OBVIOUS
<1>7. PICK l \in {"cursor", "advance"} : l = IF f.char = "backspace" THEN "cursor" ELSE "advance"
  OBVIOUS
<1>8. vga_get_index(f.column, f.row) \in Places =>
          buffer' = [buffer EXCEPT ![vga_get_index(f.column, f.row)] = c]
  BY <1>3, <1>6 DEF StoreCell
<1>9. PICK g \in Frames : g = [f EXCEPT !.pc = l]
  BY DEF Frames, Labels
<1>10. g.pc = l /\ g.char = f.char /\ g.column = f.column /\ g.row = f.row
  BY <1>9 DEF Frames
<1>11. Becomes(s, g)
  BY <1>3, <1>7, <1>9 DEF StoreCell, Goto
<1>12. ASSUME NEW text \in Texts, NEW y \in 0 .. Height - 1, NEW x \in 0 .. Width - 1,
              overlap = "none", Done(Top(s), text, y, x)
       PROVE  Done(g, text, y, x)'
  <2>1. /\ f.row = row /\ f.column = column /\ buffer = text
        /\ IF f.char = "backspace"
           THEN row = RowBefore(y, x) /\ column = ColumnBefore(y, x)
           ELSE row = y /\ column = x
    BY <1>3, <1>5, <1>12 DEF Done
  <2>2. CASE f.char = "backspace"
    <3>1. vga_get_index(f.column, f.row) \in Places
      BY <2>1, <2>2, BeforeOnScreen, OnScreen
    <3>2. Written(g, text, y, x) = <<buffer', row', column'>>
      BY <1>4, <1>6, <1>8, <1>10, <2>1, <2>2, <3>1 DEF Written
    <3> QED
      BY <1>4, <1>7, <1>10, <2>1, <2>2, <3>2 DEF Done
  <2>3. CASE f.char # "backspace"
    <3>1. vga_get_index(f.column, f.row) \in Places
      BY <2>1, <2>3, OnScreen
    <3>2. f.char # "newline"
      BY <1>5, <2>3, MarksAssumption DEF Controls
    <3>3. buffer' = Put(g, text, y, x)
      BY <1>6, <1>8, <1>10, <2>1, <2>3, <3>1, <3>2 DEF Put
    <3> QED
      BY <1>4, <1>7, <1>10, <2>1, <2>3, <3>3 DEF Done, Screen
  <2> QED
    BY <2>2, <2>3
<1> QED
  BY <1>2, <1>3, <1>4, <1>5, <1>10, <1>11, <1>12, GoesOnWrites

\* ++column, with its test for the last place, keeps WriteInv and ReportInv.
LEMMA AdvanceWrites ==
    ASSUME ConsoleInv, NEW s \in Stacks, Advance(s)
    PROVE  WriteInv' /\ ReportInv'
<1>1. At(s, "advance") /\ "advance" \in Labels
  BY DEF Advance, Labels
<1>2. /\ writer[s] # <<>> /\ Top(s) \in Frames /\ FrameInv(Top(s)) /\ Top(s).pc = "advance"
      /\ Top(s).row \in Nat /\ Top(s).column \in 0 .. Width - 1
  BY <1>1, ConsoleIsBasic, TopFrame
<1>3. PICK f \in Frames : f = Top(s)
  BY <1>2
<1>4. PICK u \in 0 .. Width - 1 : u = IF f.column + 1 = Width THEN 0 ELSE f.column + 1
  BY <1>2, <1>3, SizeAssumption
<1>5. PICK l \in {"row", "cursor"} : l = IF f.column + 1 = Width THEN "row" ELSE "cursor"
  OBVIOUS
<1>6. buffer' = buffer /\ row' = row /\ cursor' = cursor /\ Step /\ column' = u
  BY <1>3, <1>4 DEF Advance
<1>7. f.char \in Marks /\ f.pc = "advance" /\ ~Clears(f)
  BY <1>2, <1>3 DEF FrameInv, Clears
<1>8. PICK g \in Frames : g = [f EXCEPT !.column = u, !.pc = l]
  BY <1>4, <1>5 DEF Frames, Labels
<1>9. g.pc = l /\ g.char = f.char /\ g.column = u /\ g.row = f.row
  BY <1>8 DEF Frames
<1>10. Becomes(s, g)
  BY <1>3, <1>5, <1>6, <1>8 DEF Advance
<1>11. ASSUME NEW text \in Texts, NEW y \in 0 .. Height - 1, NEW x \in 0 .. Width - 1,
              overlap = "none", Done(Top(s), text, y, x)
       PROVE  Done(g, text, y, x)'
  <2>1. Screen(Put(f, text, y, x), y, x) /\ f.row = y /\ f.column = x
    BY <1>3, <1>7, <1>11 DEF Done
  <2>2. Put(g, text, y, x) = Put(f, text, y, x)
    BY <1>9 DEF Put
  <2>3. CASE f.column + 1 = Width
    <3>1. x = Width - 1 /\ u = 0 /\ l = "row"
      BY <1>4, <1>5, <2>1, <2>3, SizeAssumption
    <3> QED
      BY <1>6, <1>9, <2>1, <2>2, <3>1 DEF Done, Screen, EndsLine
  <2>4. CASE f.column + 1 # Width
    <3>1. x < Width - 1 /\ u = x + 1 /\ l = "cursor"
      BY <1>4, <1>5, <2>1, <2>4, SizeAssumption
    <3>2. Written(g, text, y, x) = <<Put(f, text, y, x), y, x + 1>>
      BY <1>7, <1>9, <2>2, <3>1, MarksAssumption DEF Written, Controls
    <3> QED
      BY <1>6, <1>9, <2>1, <3>1, <3>2 DEF Done, Screen
  <2> QED
    BY <2>3, <2>4
<1> QED
  BY <1>2, <1>3, <1>6, <1>7, <1>9, <1>10, <1>11, GoesOnWrites

\* The port writes of the cursor keep WriteInv and ReportInv.
LEMMA vga_update_cursorWrites ==
    ASSUME ConsoleInv, NEW s \in Stacks, vga_update_cursor(s)
    PROVE  WriteInv' /\ ReportInv'
<1>1. At(s, "cursor") /\ "cursor" \in Labels
  BY DEF vga_update_cursor, Labels
<1>2. /\ writer[s] # <<>> /\ Top(s) \in Frames /\ FrameInv(Top(s)) /\ Top(s).pc = "cursor"
      /\ Top(s).row \in Nat /\ Top(s).column \in 0 .. Width - 1
  BY <1>1, ConsoleIsBasic, TopFrame
<1>3. PICK f \in Frames : f = Top(s)
  BY <1>2
<1>4. /\ buffer' = buffer /\ row' = row /\ column' = column /\ Return(s)
      /\ fault' = fault /\ before' = before /\ overlap' = overlap
  BY DEF vga_update_cursor, Step
<1>5. f.pc = "cursor" /\ ~Clears(f)
  BY <1>2, <1>3 DEF Clears
<1>6. ASSUME NEW text \in Texts, NEW y \in 0 .. Height - 1, NEW x \in 0 .. Width - 1,
             overlap = "none", Done(f, text, y, x)
      PROVE  <<buffer', row', column'>> = Written(f, text, y, x)
  BY <1>4, <1>5, <1>6 DEF Done
<1> QED
  BY <1>2, <1>3, <1>4, <1>5, <1>6, ReturnWrites

\* Vga_clear setting column = 0 keeps WriteInv and ReportInv.
LEMMA ClearColumnWrites ==
    ASSUME ConsoleInv, NEW s \in Stacks, ClearColumn(s)
    PROVE  WriteInv' /\ ReportInv'
<1>1. At(s, "left") /\ "left" \in Labels
  BY DEF ClearColumn, Labels
<1>2. /\ writer[s] # <<>> /\ Top(s) \in Frames /\ FrameInv(Top(s)) /\ Top(s).pc = "left"
      /\ Top(s).row \in Nat /\ Top(s).column \in 0 .. Width - 1
  BY <1>1, ConsoleIsBasic, TopFrame
<1>3. PICK f \in Frames : f = Top(s)
  BY <1>2
<1>4. /\ buffer' = buffer /\ row' = row /\ column' = 0 /\ Return(s)
      /\ fault' = fault /\ before' = before
      /\ overlap' = IF overlap = "fault" THEN "none" ELSE overlap
  BY DEF ClearColumn, fault
<1>5. f.pc = "left" /\ f.char = "clear"
  BY <1>2, <1>3 DEF FrameInv
<1>6. Clears(f) /\ overlap = "fault" =>
          overlap' = "none" /\ buffer' = Blanks /\ row' = 0 /\ column' = 0
  BY <1>4, <1>5 DEF Clears
<1>7. ASSUME NEW text \in Texts, NEW y \in 0 .. Height - 1, NEW x \in 0 .. Width - 1,
             overlap = "none", Done(f, text, y, x)
      PROVE  <<buffer', row', column'>> = Written(f, text, y, x)
  <2>1. Screen(Blanks, 0, x)
    BY <1>5, <1>7 DEF Done
  <2> QED
    BY <1>4, <1>5, <2>1 DEF Written, Screen
<1> QED
  BY <1>2, <1>3, <1>4, <1>6, <1>7, ReturnWrites

\* A write that begins while no other is open has done nothing yet.
LEMMA EntersWrites ==
    ASSUME ConsoleInv, NEW s \in Stacks, NEW c \in Marks \cup Controls,
           Idle, overlap = "none", screen' = screen, before' = screen,
           writer'[s] = <<Entered(c)>>, \A t \in Stacks \ {s} : writer'[t] = <<>>
    PROVE  WriteInv'
<1>1. PICK g \in Frames : /\ g = Entered(c) /\ g.row = row
                          /\ g.pc \in {"newline", "clear", "column"}
  BY ConsoleIsBasic, EnteredFrame
<1>2. row < Height
  <2>1. ASSUME row >= Height
        PROVE  FALSE
    <3>1. \E t \in Stacks : \E j \in DOMAIN writer[t] : writer[t][j].pc \in SetsRow
      BY <2>1 DEF ConsoleInv, RowInv
    <3>2. DOMAIN <<>> = {}
      OBVIOUS
    <3> QED
      BY <3>1, <3>2 DEF Idle
  <2> QED
    BY <2>1, ConsoleIsBasic, RowNat, Sizes
<1>3. PICK text \in Texts, y \in 0 .. Height - 1, x \in 0 .. Width - 1 :
          text = buffer /\ y = row /\ x = column
  BY <1>2, ConsoleIsBasic, RowNat, SizeAssumption DEF Texts
<1>4. buffer' = text /\ row' = y /\ column' = x /\ cursor' = cursor
  BY <1>3 DEF screen
<1>5. before' = <<text, y, x, cursor'>>
  BY <1>3, <1>4 DEF screen
<1>6. Len(writer'[s]) = 1 /\ writer'[s][1] = g
  BY <1>1, OneWrite
<1>7. Done(g, text, y, x)'
  BY <1>1, <1>3, <1>4 DEF Done, Screen
<1>8. before'[1] = text
  BY <1>5
<1>9. Done(writer[s][1], before[1], y, x)'
  BY <1>6, <1>7, <1>8
<1> QED
  BY <1>5, <1>6, <1>8, <1>9 DEF WriteInv, Texts, Places, Cells

\* A call of vga_putchar or vga_clear keeps WriteInv and ReportInv.
LEMMA CallWrites ==
    ASSUME ConsoleInv, NEW s \in Stacks, Call(s)
    PROVE  WriteInv' /\ ReportInv'
<1>1. PICK c \in Marks \cup Controls : writer' = [writer EXCEPT ![s] = Append(@, Entered(c))]
  BY DEF Call, Chars, Marks, Controls
<1>2. screen' = screen /\ left' = left /\ raised' = raised /\ raised = {}
  BY DEF Call, fault
<1>3. ReportInv'
  <2>1. overlap # "fault"
    BY <1>2 DEF ConsoleInv, ReportInv
  <2>2. overlap' # "fault"
    BY <2>1 DEF Call
  <2> QED
    BY <1>2, <2>2 DEF ReportInv
<1>4. WriteInv'
  <2>1. CASE Idle /\ overlap = "none"
    <3>1. overlap' = "none" /\ before' = screen
      BY <2>1 DEF Call
    <3>2. PICK g \in Frames : g = Entered(c)
      BY ConsoleIsBasic, EnteredFrame
    <3>3. writer \in [Stacks -> Seq(Frames)] /\ writer[s] = <<>>
      BY <2>1 DEF ConsoleInv, TypeOK, Idle
    <3>4. writer'[s] = <<Entered(c)>> /\ \A t \in Stacks \ {s} : writer'[t] = <<>>
      <4>1. Append(<<>>, g) = <<g>>
        OBVIOUS
      <4>2. writer' = [writer EXCEPT ![s] = Append(writer[s], g)]
        BY <1>1, <3>2
      <4> QED
        BY <2>1, <3>2, <3>3, <4>1, <4>2 DEF Idle
    <3> QED
      BY <1>2, <2>1, <3>1, <3>4, EntersWrites
  <2>2. CASE ~(Idle /\ overlap = "none")
    <3>1. overlap' # "none"
      BY <2>2 DEF Call
    <3> QED
      BY <3>1 DEF WriteInv
  <2> QED
    BY <2>1, <2>2
<1> QED
  BY <1>3, <1>4

\* An exception keeps WriteInv and ReportInv.
LEMMA RaiseWrites ==
    ASSUME ConsoleInv, Raise
    PROVE  WriteInv' /\ ReportInv'
<1>1. PICK vector \in Raised :
          raised' = {vector} /\ left' = Message(isr_handler(registers_t(vector)))
  BY DEF Raise
<1>2. left' = Message(Report(vector))
  BY <1>1, RaisedAssumption, FrameIsReport
<1>3. PICK g \in Frames : g = Entered("clear") /\ g.pc = "clear"
  BY ConsoleIsBasic, EnteredFrame DEF Controls
<1>4. /\ writer' = [t \in Stacks |-> IF t = "main" THEN <<g>> ELSE <<>>]
      /\ overlap' = "fault" /\ before' = <<>>
  BY <1>3 DEF Raise
<1>5. writer'["main"] = <<g>> /\ writer'["background"] = <<>>
  BY <1>4, OnlyMain
<1>6. /\ Len(writer'["main"]) <= 1 /\ writer'["main"] # <<>> /\ writer'["main"][1] = g
  BY <1>5, OneWrite
<1>7. Clears(writer["main"][1])'
  BY <1>3, <1>6 DEF Clears
<1>8. ReportInv'
  BY <1>1, <1>2, <1>4, <1>5, <1>6, <1>7 DEF ReportInv
<1> QED
  BY <1>4, <1>8 DEF WriteInv

\* The call for the next character of a report keeps WriteInv and ReportInv.
LEMMA WriteReportWrites ==
    ASSUME ConsoleInv, WriteReport
    PROVE  WriteInv' /\ ReportInv'
<1>1. PICK q \in Seq(Marks \cup {"newline"}) : q = left /\ q # <<>>
  BY DEF WriteReport, ConsoleInv, TypeOK
<1>2. PICK c \in Marks \cup Controls : c = Head(q)
  BY <1>1, HeadTailProperties DEF Controls
<1>3. /\ screen' = screen /\ before' = screen /\ raised' = raised /\ overlap' = overlap
      /\ left' = Tail(q) /\ Idle
  BY <1>1 DEF WriteReport
<1>4. PICK g \in Frames : g = Entered(c) /\ g.char = c
  BY ConsoleIsBasic, EnteredFrame
<1>5. /\ writer'["main"] = <<g>> /\ writer'["background"] = <<>>
      /\ \A t \in Stacks \ {"main"} : writer'[t] = <<>>
  <2>1. writer = [t \in Stacks |-> <<>>]
    BY <1>3 DEF Idle, ConsoleInv, TypeOK
  <2>2. writer' = [writer EXCEPT !["main"] = <<g>>]
    BY <1>1, <1>2, <1>4 DEF WriteReport
  <2>3. writer' = [t \in Stacks |-> IF t = "main" THEN <<g>> ELSE <<>>]
    BY <2>1, <2>2
  <2> QED
    BY <2>3, OnlyMain
<1>6. "main" \in Stacks /\ Len(writer'["main"]) <= 1 /\ writer'["main"] # <<>>
      /\ writer'["main"][1] = g
  BY <1>5, OneWrite DEF Stacks
<1>7. WriteInv'
  <2>1. CASE overlap = "none"
    BY <1>3, <1>4, <1>5, <1>6, <2>1, EntersWrites
  <2>2. CASE overlap # "none"
    BY <1>3, <2>2 DEF WriteInv
  <2> QED
    BY <2>1, <2>2
<1>8. ReportInv'
  <2>1. overlap' # "fault"
    <3>1. ASSUME overlap = "fault"
          PROVE  FALSE
      <4>1. PICK vector \in raised : writer["main"] # <<>>
        BY <3>1 DEF ConsoleInv, ReportInv
      <4> QED
        BY <1>3, <1>6, <4>1 DEF Idle
    <3> QED
      BY <1>3, <3>1
  <2>2. SUFFICES ASSUME NEW vector \in raised
                 PROVE  /\ raised' = {vector}
                        /\ writer'["background"] = <<>> /\ Len(writer'["main"]) <= 1
                        /\ overlap' \in {"fault", "none"}
                        /\ overlap' = "fault" =>
                              /\ left' = Message(Report(vector)) /\ writer'["main"] # <<>>
                              /\ Clears(writer["main"][1])'
                        /\ overlap' = "none" =>
                              \E n \in 0 .. 3 : Reported(Report(vector), n)'
    BY <1>3, <2>1 DEF ReportInv
  <2>3. /\ raised = {vector}
        /\ overlap \in {"fault", "none"}
        /\ overlap = "fault" => writer["main"] # <<>>
        /\ overlap = "none" => \E n \in 0 .. 3 : Reported(Report(vector), n)
    BY DEF ConsoleInv, ReportInv
  <2>4. overlap = "none" /\ writer["main"] = <<>>
    BY <1>3, <1>6, <2>3 DEF Idle
  <2>5. PICK n \in 0 .. 3 : Reported(Report(vector), n)
    BY <2>3, <2>4
  <2>6. vector \in Vectors
    BY RaisedAssumption DEF ConsoleInv, TypeOK
  <2>7. q = Rest(Report(vector), n) /\ <<buffer, row, column>> = Page(Report(vector), n)
    BY <1>1, <2>4, <2>5 DEF Reported
  <2>8. n \in 0 .. 2
    <3>1. n # 3
      BY <1>1, <2>6, <2>7, RestOfReport
    <3> QED
      BY <3>1
  <2>9. c = Message(Report(vector))[n + 1] /\ left' = Rest(Report(vector), n + 1)
    BY <1>2, <1>3, <2>6, <2>7, <2>8, RestOfReport
  <2>10. <<before'[1], before'[2], before'[3]>> = Page(Report(vector), n)
    BY <1>3, <2>7 DEF screen
  <2>11. Reported(Report(vector), n + 1)'
    <3>1. n + 1 > 0 /\ n + 1 - 1 = n
      BY <2>8
    <3>2. writer'["main"][1].char = Message(Report(vector))[n + 1]
      BY <1>4, <1>6, <2>9
    <3>3. <<before'[1], before'[2], before'[3]>> = Page(Report(vector), n + 1 - 1)
      BY <2>10, <3>1
    <3> QED
      BY <1>6, <2>9, <3>1, <3>2, <3>3 DEF Reported
  <2>12. n + 1 \in 0 .. 3
    BY <2>8
  <2> QED
    BY <1>3, <1>5, <1>6, <2>3, <2>4, <2>11, <2>12
<1> QED
  BY <1>7, <1>8

\* The screen as the boot code leaves it satisfies WriteInv and ReportInv.
LEMMA InitWrites ==
    ASSUME Init
    PROVE  ConsoleInv
<1>1. Idle
  BY DEF Init, Idle
<1>2. WriteInv /\ ReportInv
  BY <1>1 DEF Init, WriteInv, ReportInv
<1> QED
  BY <1>2, InitBasic DEF ConsoleInv, BasicInv

\* A step in which no variable changes keeps WriteInv and ReportInv.
LEMMA StutterWrites ==
    ASSUME ConsoleInv, UNCHANGED vars
    PROVE  WriteInv' /\ ReportInv'
<1>1. /\ buffer' = buffer /\ row' = row /\ column' = column /\ cursor' = cursor
      /\ writer' = writer /\ left' = left /\ raised' = raised /\ overlap' = overlap
      /\ before' = before
  BY DEF vars, screen, fault
<1>2. ASSUME overlap = "none", ~Idle
      PROVE  \E t \in Stacks, y \in 0 .. Height - 1, x \in 0 .. Width - 1 :
                 /\ before'[1] \in Texts /\ before' = <<before'[1], y, x, cursor'>>
                 /\ Len(writer'[t]) = 1
                 /\ \A u \in Stacks \ {t} : writer'[u] = <<>>
                 /\ Done(writer[t][1], before[1], y, x)'
  <2>1. PICK t \in Stacks, y \in 0 .. Height - 1, x \in 0 .. Width - 1 :
            /\ before[1] \in Texts /\ before = <<before[1], y, x, cursor>>
            /\ Len(writer[t]) = 1 /\ \A u \in Stacks \ {t} : writer[u] = <<>>
            /\ Done(writer[t][1], before[1], y, x)
    BY <1>2 DEF ConsoleInv, WriteInv
  <2>2. PICK f, text : f = writer[t][1] /\ text = before[1]
    OBVIOUS
  <2>3. Done(f, text, y, x)'
    BY <1>1, <2>1, <2>2 DEF Done, Screen
  <2>4. Done(writer[t][1], before[1], y, x)'
    BY <1>1, <2>2, <2>3
  <2> QED
    BY <1>1, <2>1, <2>4
<1>3. WriteInv'
  BY <1>1, <1>2 DEF WriteInv, Idle, Texts, Places, Cells
<1>4. \A vector \in raised, n \in 0 .. 3 :
          Reported(Report(vector), n) => Reported(Report(vector), n)'
  BY <1>1 DEF Reported
<1>5. \A f : Clears(f) => Clears(f)'
  BY <1>1 DEF Clears, Blanks, Places, Cells
<1>6. Clears(writer["main"][1]) => Clears(writer["main"][1])'
  <2>1. PICK f : f = writer["main"][1]
    OBVIOUS
  <2>2. Clears(f) => Clears(f)'
    BY <1>5
  <2> QED
    BY <1>1, <2>1, <2>2
<1>7. ReportInv'
  BY <1>1, <1>4, <1>6 DEF ConsoleInv, ReportInv
<1> QED
  BY <1>3, <1>7

\* Every step of the console keeps ConsoleInv.
LEMMA NextWrites ==
    ASSUME ConsoleInv, [Next]_vars
    PROVE  ConsoleInv'
<1>1. BasicInv'
  BY ConsoleIsBasic, NextBasic
<1>2. ASSUME NEW s \in Stacks, Write(s)
      PROVE  WriteInv' /\ ReportInv'
  BY <1>2, NewlineWrites, NextRowWrites, ScrollLinesWrites, ScrollRowWrites, ReloadRowWrites,
     LoadColumnWrites, BackColumnWrites, BackRowWrites, StoreCellWrites, AdvanceWrites,
     vga_update_cursorWrites, ClearCellsWrites, ClearRowWrites, ClearColumnWrites DEF Write
<1>3. ASSUME UNCHANGED vars
      PROVE  WriteInv' /\ ReportInv'
  BY <1>3, StutterWrites
<1>4. WriteInv' /\ ReportInv'
  BY <1>2, <1>3, CallWrites, RaiseWrites, WriteReportWrites DEF Next, HltForever
<1> QED
  BY <1>1, <1>4 DEF ConsoleInv, BasicInv

----------------------------------------------------------------------------
(* The theorems                                                            *)

\* The inductive invariant: what is off the screen was put there on top of a write
\* that sets the row, a write that meets no other has done what its place in the code
\* says, and a report is on the screen as far as it has been written.
THEOREM ConsoleInvariant == Spec => []ConsoleInv
<1>1. Init => ConsoleInv
  BY InitWrites
<1>2. ConsoleInv /\ [Next]_vars => ConsoleInv'
  BY NextWrites
<1> QED
  BY <1>1, <1>2, PTL DEF Spec

\* A report that has been written is what is seen.
LEMMA PageReads ==
    ASSUME NEW vector \in Vectors,
           <<buffer, row, column>> = Page(Report(vector), 3)
    PROVE  Reads(Report(vector))
<1> DEFINE a == ToString(Report(vector).exception)
           b == ToString(Report(vector).error)
           first == [Blanks EXCEPT ![0] = a]
           both  == [first EXCEPT ![Width] = b]
<1>1. buffer = both
  <2>1. <<both, 1, 1>> = << <<Blanks, 0, 0>>, <<first, 0, 1>>, <<first, 1, 0>>, <<both, 1, 1>> >>[4]
    <3> HIDE DEF first, both
    <3> QED
      OBVIOUS
  <2>2. Page(Report(vector), 3) = <<both, 1, 1>>
    BY <2>1 DEF Page
  <2> HIDE DEF both
  <2> QED
    BY <2>2
<1>2. 0 \in Places /\ Width \in Places /\ Width # 0
  <2>1. vga_get_index(0, 0) \in Places /\ vga_get_index(0, 1) \in Places
    <3>1. 0 \in 0 .. Height - 1 /\ 1 \in 0 .. Height - 1 /\ 0 \in 0 .. Width - 1
      BY SizeAssumption
    <3> QED
      BY <3>1, OnScreen
  <2>2. vga_get_index(0, 0) = 0 /\ vga_get_index(0, 1) = Width
    BY SizeAssumption DEF vga_get_index
  <2> QED
    BY <2>1, <2>2, SizeAssumption
<1> HIDE DEF a, b
<1>3. \A i \in Places : both[i] = IF i = Width THEN b ELSE IF i = 0 THEN a ELSE Blank
  BY <1>2 DEF Blanks
<1>4. \A i \in Places : buffer[i] = CASE i = 0     -> a
                                      [] i = Width -> b
                                      [] OTHER     -> Blank
  <2> HIDE DEF both
  <2> QED
    BY <1>1, <1>2, <1>3
<1> QED
  BY <1>4 DEF Reads, a, b

\* However writes interrupt each other on one stack, the row is on the screen when the
\* last one has returned, and until then only a write on top of one that is about to
\* set it stores behind the buffer; and whatever an exception interrupts, on whichever
\* stack, what is seen in the end is its report.
THEOREM ScreenIsRestored == Spec => []ScreenRecovers
<1>1. ConsoleInv => ScreenRecovers
  <2> SUFFICES ASSUME ConsoleInv
               PROVE  ScreenRecovers
    OBVIOUS
  <2>1. Idle /\ overlap # "preempted" => row < Height
    <3> SUFFICES ASSUME Idle, overlap # "preempted", row >= Height
                 PROVE  FALSE
      BY ConsoleIsBasic, RowNat, Sizes
    <3>1. \E t \in Stacks : \E j \in DOMAIN writer[t] : writer[t][j].pc \in SetsRow
      BY DEF ConsoleInv, RowInv
    <3>2. DOMAIN <<>> = {}
      OBVIOUS
    <3> QED
      BY <3>1, <3>2 DEF Idle
  <2>2. ASSUME Halted, NEW vector \in raised
        PROVE  Reads(Report(vector))
    <3>1. Idle /\ left = <<>> /\ writer["main"] = <<>>
      BY <2>2 DEF Halted, Idle, Stacks
    <3>2. /\ overlap \in {"fault", "none"}
          /\ overlap = "fault" => writer["main"] # <<>>
          /\ overlap = "none" => \E n \in 0 .. 3 : Reported(Report(vector), n)
      BY DEF ConsoleInv, ReportInv
    <3>3. PICK n \in 0 .. 3 : Reported(Report(vector), n)
      BY <3>1, <3>2
    <3>4. Rest(Report(vector), n) = <<>> /\ <<buffer, row, column>> = Page(Report(vector), n)
      BY <3>1, <3>3 DEF Reported
    <3>5. vector \in Vectors
      BY RaisedAssumption DEF ConsoleInv, TypeOK
    <3>6. n = 3
      <4>1. ASSUME n \in 0 .. 2
            PROVE  FALSE
        <5>1. PICK q \in Seq(Marks \cup {"newline"}) : q = Message(Report(vector)) /\ Len(q) = 3
          BY <3>5, MessageIs
        <5>2. SubSeq(q, n + 1, 3) = <<>>
          BY <3>4, <5>1 DEF Rest
        <5>3. Len(SubSeq(q, n + 1, 3)) = IF n + 1 <= 3 THEN 3 - (n + 1) + 1 ELSE 0
          <6>1. \A i \in 1 .. 3 : q[i] \in Marks \cup {"newline"}
            BY <5>1, StackElements
          <6>2. \A i \in n + 1 .. 3 : q[i] \in Marks \cup {"newline"}
            <7>1. \A i \in n + 1 .. 3 : i \in 1 .. 3
              BY <4>1
            <7> QED
              BY <6>1, <7>1
          <6>3. n + 1 \in Int /\ 3 \in Int
            BY <4>1
          <6> QED
            BY <6>2, <6>3, SubSeqProperties
        <5>4. Len(<<>>) = 0
          OBVIOUS
        <5>5. n + 1 <= 3 /\ 3 - (n + 1) + 1 # 0
          BY <4>1
        <5>6. Len(<<>>) = 3 - (n + 1) + 1
          BY <5>2, <5>3, <5>5
        <5> QED
          BY <5>4, <5>5, <5>6
      <4> QED
        BY <4>1
    <3> QED
      BY <3>4, <3>5, <3>6, PageReads
  <2>3. ASSUME NEW s \in Stacks, At(s, "cell"), overlap # "preempted",
               ~SetByOneBelow(s, Len(writer[s]))
        PROVE  vga_get_index(Top(s).column, Top(s).row) \in Places
    <3>1. BasicInv /\ TypeOK /\ RowInv /\ "cell" \in Labels
      BY ConsoleIsBasic DEF BasicInv, Labels
    <3>2. /\ writer[s] # <<>> /\ Top(s).pc = "cell"
          /\ Top(s).row \in Nat /\ Top(s).column \in 0 .. Width - 1
      BY <2>3, <3>1, TopFrame
    <3>3. ~(Top(s).row >= Height)
      BY <2>3, <3>1, <3>2, OffScreen
    <3>4. Top(s).row \in 0 .. Height - 1
      BY <3>2, <3>3, SizeAssumption
    <3> QED
      BY <3>2, <3>4, OnScreen
  <2> QED
    BY <2>1, <2>2, <2>3 DEF ScreenRecovers, StoresOnScreen
<1> QED
  BY <1>1, ConsoleInvariant, PTL

----------------------------------------------------------------------------
(* The console implements a terminal                                       *)

\* Places on the screen are counted line by line.
LEMMA Counting ==
    ASSUME NEW y \in 0 .. Height - 1, NEW x \in 0 .. Width - 1
    PROVE  /\ vga_get_index(x, y) \in Nat
           /\ vga_get_index(x, y) \div Width = y
           /\ vga_get_index(x, y) > 0 <=> x > 0 \/ y > 0
           /\ x > 0 => vga_get_index(x - 1, y) = vga_get_index(x, y) - 1
           /\ x = 0 /\ y > 0 => vga_get_index(Width - 1, y - 1) = vga_get_index(x, y) - 1
           /\ x < Width - 1 => vga_get_index(x + 1, y) = vga_get_index(x, y) + 1
           /\ x = Width - 1 => vga_get_index(x, y) + 1 = (y + 1) * Width
           /\ vga_get_index(0, y + 1) = (y + 1) * Width
           /\ y < Height - 1 <=> (y + 1) * Width < Cells
           /\ y = Height - 1 => /\ (y + 1) * Width - Width = vga_get_index(0, y)
                                /\ ~((y + 1) * Width < Cells)
<1>1. PICK w \in Nat \ {0, 1} : w = Width
  BY SizeAssumption
<1>2. PICK h \in Nat \ {0, 1} : h = Height
  BY SizeAssumption
<1>3. y \in Nat /\ x \in Nat /\ x < w /\ y < h
  BY <1>1, <1>2
<1>4. PICK p \in Nat : p = y * w
  BY <1>3
<1>5. PICK c \in Nat : c = h * w
  OBVIOUS
<1>6. vga_get_index(x, y) = p + x /\ Cells = c
  BY <1>1, <1>2, <1>4, <1>5 DEF vga_get_index, Cells
<1>7. (y + 1) * w = p + w
  BY <1>3, <1>4
<1>8. y > 0 => p >= w /\ (y - 1) * w = p - w
  <2>1. y > 0 => y * w >= 1 * w
    BY <1>3
  <2> QED
    BY <1>3, <1>4, <2>1
<1>9. y = 0 => p = 0
  BY <1>3, <1>4
<1>10. y < h - 1 <=> p + w < c
  <2>1. ASSUME y < h - 1
        PROVE  p + w < c
    <3>1. (y + 2) * w <= h * w
      BY <1>3, <2>1
    <3>2. (y + 2) * w = p + w + w
      BY <1>3, <1>4
    <3> QED
      BY <1>5, <3>1, <3>2
  <2>2. ASSUME ~(y < h - 1)
        PROVE  p + w = c
    <3>1. y + 1 = h
      BY <1>3, <2>2
    <3> QED
      BY <1>5, <1>7, <3>1
  <2> QED
    BY <2>1, <2>2
<1>11. (p + x) \div w = y
  BY <1>3, <1>4
<1>12. vga_get_index(0, y + 1) = p + w /\ vga_get_index(0, y) = p
  BY <1>1, <1>3, <1>4, <1>7 DEF vga_get_index
<1>13. x > 0 => vga_get_index(x - 1, y) = p + x - 1
  BY <1>1, <1>3, <1>4 DEF vga_get_index
<1>14. y > 0 => vga_get_index(Width - 1, y - 1) = p - 1
  <2>1. y > 0 => vga_get_index(Width - 1, y - 1) = (y - 1) * w + (w - 1)
    BY <1>1 DEF vga_get_index
  <2> QED
    BY <1>8, <2>1
<1>15. vga_get_index(x + 1, y) = p + x + 1
  BY <1>1, <1>3, <1>4 DEF vga_get_index
<1>16. vga_get_index(x, y) \div Width = y
  BY <1>1, <1>6, <1>11
<1>17. (y + 1) * Width = p + w
  BY <1>1, <1>7
<1>18. y < Height - 1 <=> p + w < c
  BY <1>2, <1>10
<1> QED
  BY <1>1, <1>2, <1>3, <1>6, <1>8, <1>9, <1>12, <1>13, <1>14, <1>15, <1>16, <1>17, <1>18

\* Scrolling by lines is moving every place up by a line.
LEMMA ScrolledByPlaces ==
    ASSUME NEW text
    PROVE  Scrolled(text) = [i \in 0 .. Cells - 1 |->
                                IF i + Width < Cells THEN text[i + Width] ELSE Blank]
<1>1. SUFFICES ASSUME NEW i \in Places
               PROVE  i \div Width < Height - 1 <=> i + Width < Cells
  BY DEF Scrolled, Places
<1>2. PICK w \in Nat \ {0, 1} : w = Width
  BY SizeAssumption
<1>3. PICK h \in Nat \ {0, 1} : h = Height
  BY SizeAssumption
<1>4. i \in Nat
  BY DEF Places
<1>5. PICK q \in Nat : q = i \div w
  BY <1>4
<1>6. q * w <= i /\ i < (q + 1) * w
  BY <1>4, <1>5
<1>7. Cells = h * w
  BY <1>2, <1>3 DEF Cells
<1>8. ASSUME q < h - 1
      PROVE  i + w < h * w
  <2>1. (q + 2) * w <= h * w
    BY <1>8
  <2>2. (q + 2) * w = (q + 1) * w + w
    OBVIOUS
  <2> QED
    BY <1>4, <1>6, <2>1, <2>2
<1>9. ASSUME ~(q < h - 1)
      PROVE  ~(i + w < h * w)
  <2>1. h <= q + 1
    BY <1>9
  <2>2. h * w <= (q + 1) * w
    BY <2>1
  <2>3. (q + 1) * w = q * w + w
    OBVIOUS
  <2> QED
    BY <1>4, <1>6, <2>2, <2>3
<1> QED
  BY <1>2, <1>3, <1>5, <1>7, <1>8, <1>9

\* What is shown while the only write is open is what it has found.
LEMMA ShownIs ==
    /\ Idle => Shown = screen
    /\ before = <<>> => Shown = screen
    /\ ~Idle /\ before # <<>> => Shown = before
  BY DEF Shown

\* A step of a write that does not return is not seen.
LEMMA NotSeen ==
    ASSUME ConsoleInv, NEW s \in Stacks, writer[s] # <<>>,
           NEW g, Becomes(s, g), Step, overlap' = "none"
    PROVE  Shown' = Shown
<1>1. writer'[s] # <<>>
  <2>1. PICK q \in Seq(Frames) : q = writer[s] /\ q # <<>>
    BY DEF ConsoleInv, TypeOK
  <2>2. Front(q) \in Seq(Frames)
    BY <2>1, FrontElements
  <2>3. Front(q) \in Seq(Frames \cup {g})
    BY <2>2, SeqMonotonic
  <2>4. PICK r : r = Append(Front(q), g)
    OBVIOUS
  <2>5. r \in Seq(Frames \cup {g}) /\ Len(r) = Len(Front(q)) + 1 /\ Len(Front(q)) \in Nat
    BY <2>3, <2>4, AppendProperties, LenProperties
  <2>6. r # <<>>
    BY <2>5, OneWrite, EmptySeq
  <2>7. writer' = [writer EXCEPT ![s] = r] /\ writer \in [Stacks -> Seq(Frames)]
    BY <2>1, <2>4 DEF Becomes, ConsoleInv, TypeOK
  <2> QED
    BY <2>6, <2>7
<1>2. ~Idle /\ ~Idle'
  BY <1>1 DEF Idle
<1>3. before' = before /\ overlap = "none"
  BY DEF Step
<1>4. before # <<>>
  <2>1. PICK text \in Texts, y \in 0 .. Height - 1, x \in 0 .. Width - 1 :
            before = <<text, y, x, cursor>>
    BY <1>3, OnlyWrite
  <2> QED
    BY <2>1
<1> QED
  BY <1>2, <1>3, <1>4 DEF Shown

\* The screen that a character leaves is the paper of a terminal that gets it.
LEMMA PaperStep ==
    ASSUME NEW f \in Frames, NEW text \in Texts,
           NEW y \in 0 .. Height - 1, NEW x \in 0 .. Width - 1, NEW c,
           NEW text2, NEW y2, NEW x2, NEW c2,
           Shown = <<text, y, x, c>>, Shown' = <<text2, y2, x2, c2>>,
           <<text2, y2, x2>> = Written(f, text, y, x),
           c2 = IF f.char \in {"newline", "clear"} THEN c ELSE vga_get_index(x2, y2)
    PROVE  Paper!Next
<1>1. /\ Shown[1] = text /\ vga_get_index(Shown[3], Shown[2]) = vga_get_index(x, y)
      /\ Shown[4] = c
      /\ Shown'[1] = text2 /\ Shown'[4] = c2
      /\ vga_get_index(Shown'[3], Shown'[2]) = vga_get_index(x2, y2)
  OBVIOUS
<1>2. PICK p : p = vga_get_index(x, y)
  OBVIOUS
<1>3. PICK p2 : p2 = vga_get_index(x2, y2)
  OBVIOUS
<1>4. f.char \in Marks \cup Controls
  BY DEF Frames
<1>5. CASE f.char = "clear"
  <2>1. text2 = Blanks /\ y2 = 0 /\ x2 = 0
    BY <1>5 DEF Written
  <2>2. p2 = 0
    BY <1>3, <2>1, SizeAssumption DEF vga_get_index
  <2>3. Paper!Clear
    BY <1>1, <1>3, <1>5, <2>1, <2>2 DEF Paper!Clear, Paper!BlankPaper, Paper!Places, Blanks, Places, vga_get_index
  <2> QED
    BY <2>3 DEF Paper!Next
<1>6. CASE f.char = "backspace"
  <2>1. /\ y2 = RowBefore(y, x) /\ x2 = ColumnBefore(y, x)
        /\ text2 = [text EXCEPT ![vga_get_index(x2, y2)] = Blank] /\ c2 = p2
    BY <1>3, <1>6 DEF Written
  <2>2. p2 = IF p > 0 THEN p - 1 ELSE 0
    <3>1. CASE x > 0
      BY <1>2, <1>3, <2>1, <3>1, Counting DEF RowBefore, ColumnBefore
    <3>2. CASE x = 0 /\ y > 0
      BY <1>2, <1>3, <2>1, <3>2, Counting DEF RowBefore, ColumnBefore
    <3>3. CASE x = 0 /\ y = 0
      BY <1>2, <1>3, <2>1, <3>3, Counting, SizeAssumption DEF RowBefore, ColumnBefore
    <3> QED
      BY <3>1, <3>2, <3>3
  <2>3. Paper!BackSpace
    BY <1>1, <1>2, <1>3, <2>1, <2>2 DEF Paper!BackSpace
  <2> QED
    BY <2>3 DEF Paper!Next
<1>7. CASE f.char \notin {"clear", "backspace"}
  <2>1. PICK t : t = Put(f, text, y, x)
    OBVIOUS
  <2>2. PICK to : to = IF f.char # "newline" /\ x < Width - 1 THEN p + 1 ELSE (y + 1) * Width
    OBVIOUS
  <2>3. /\ p \in Nat /\ p \div Width = y
        /\ x = Width - 1 => p + 1 = (y + 1) * Width
    BY <1>2, Counting
  <2>4. \/ text2 = t /\ p2 = to /\ to < Cells
        \/ /\ text2 = Scrolled(t) /\ p2 = to - Width /\ ~(to < Cells)
    <3>1. CASE f.char # "newline" /\ x < Width - 1
      <4>1. text2 = t /\ y2 = y /\ x2 = x + 1
        BY <1>7, <2>1, <3>1 DEF Written
      <4>2. x + 1 \in 0 .. Width - 1
        BY <3>1, SizeAssumption
      <4>3. vga_get_index(x + 1, y) \in Places
        BY <4>2, OnScreen
      <4>4. vga_get_index(x + 1, y) = p + 1
        BY <1>2, <3>1, Counting
      <4>5. p + 1 < Cells
        BY <4>3, <4>4, Sizes DEF Places
      <4> QED
        BY <1>3, <2>2, <3>1, <4>1, <4>4, <4>5
    <3>2. CASE ~(f.char # "newline" /\ x < Width - 1) /\ y < Height - 1
      <4>1. text2 = t /\ y2 = y + 1 /\ x2 = 0
        BY <1>7, <2>1, <3>2 DEF Written
      <4>2. vga_get_index(0, y + 1) = (y + 1) * Width /\ (y + 1) * Width < Cells
        BY <3>2, Counting
      <4> QED
        BY <1>3, <2>2, <3>2, <4>1, <4>2
    <3>3. CASE ~(f.char # "newline" /\ x < Width - 1) /\ ~(y < Height - 1)
      <4>1. text2 = Scrolled(t) /\ y2 = Height - 1 /\ x2 = 0
        BY <1>7, <2>1, <3>3 DEF Written
      <4>2. y = Height - 1
        BY <3>3, SizeAssumption
      <4>3. /\ (y + 1) * Width - Width = vga_get_index(0, y)
            /\ ~((y + 1) * Width < Cells)
        BY <4>2, Counting
      <4>4. p2 = vga_get_index(0, y)
        BY <1>3, <4>1, <4>2
      <4> QED
        BY <2>2, <3>3, <4>1, <4>3, <4>4
    <3> QED
      BY <3>1, <3>2, <3>3
  <2>5. Paper!GoOn(t, to)
    <3>1. CASE text2 = t /\ p2 = to /\ to < Cells
      BY <1>1, <1>3, <3>1 DEF Paper!GoOn
    <3>2. CASE text2 = Scrolled(t) /\ p2 = to - Width /\ ~(to < Cells)
      BY <1>1, <1>3, <3>2, ScrolledByPlaces DEF Paper!GoOn, Paper!Places
    <3> QED
      BY <2>4, <3>1, <3>2
  <2>6. CASE f.char = "newline"
    <3>1. t = text /\ to = (p \div Width + 1) * Width /\ c2 = c
      BY <2>1, <2>2, <2>3, <2>6 DEF Put
    <3>2. Paper!NewLine
      BY <1>1, <1>2, <2>5, <3>1 DEF Paper!NewLine
    <3> QED
      BY <3>2 DEF Paper!Next
  <2>7. CASE f.char # "newline"
    <3>1. f.char \in Marks /\ c2 = p2
      BY <1>3, <1>4, <1>7, <2>7 DEF Controls
    <3>2. t = [text EXCEPT ![p] = f.char]
      BY <1>2, <2>1, <2>7 DEF Put
    <3>3. to = p + 1
      <4>1. CASE x < Width - 1
        BY <2>2, <2>7, <4>1
      <4>2. CASE ~(x < Width - 1)
        <5>1. x = Width - 1
          BY <4>2, SizeAssumption
        <5> QED
          BY <2>2, <2>3, <4>2, <5>1
      <4> QED
        BY <4>1, <4>2
    <3>4. Paper!Put(f.char)
      BY <1>1, <1>2, <1>3, <2>5, <3>1, <3>2, <3>3 DEF Paper!Put
    <3> QED
      BY <3>1, <3>4 DEF Paper!Next
  <2> QED
    BY <2>6, <2>7
<1> QED
  BY <1>5, <1>6, <1>7

\* A write that returns has written its character on the paper.
LEMMA ReturnSeen ==
    ASSUME ConsoleInv, NEW s \in Stacks, writer[s] # <<>>, Return(s),
           NEW f \in Frames, f = Top(s), before' = before,
           overlap = "none",
           \A text \in Texts, y \in 0 .. Height - 1, x \in 0 .. Width - 1 :
               Done(f, text, y, x) =>
                   /\ <<buffer', row', column'>> = Written(f, text, y, x)
                   /\ cursor' = IF f.char \in {"newline", "clear"} THEN cursor
                                ELSE vga_get_index(column', row')
    PROVE  Paper!Next
<1>1. PICK text \in Texts, y \in 0 .. Height - 1, x \in 0 .. Width - 1 :
          /\ before = <<text, y, x, cursor>>
          /\ Len(writer[s]) = 1
          /\ \A t \in Stacks \ {s} : writer[t] = <<>>
          /\ Done(f, text, y, x)
  BY OnlyWrite
<1>2. Shown = <<text, y, x, cursor>>
  <2>1. ~Idle /\ before # <<>>
    BY <1>1 DEF Idle
  <2> QED
    BY <1>1, <2>1 DEF Shown
<1>3. Idle'
  <2>1. writer'[s] = <<>> /\ \A t \in Stacks \ {s} : writer'[t] = writer[t]
    BY <1>1, WriteReturns DEF ConsoleInv
  <2> QED
    BY <1>1, <2>1 DEF Idle
<1>4. PICK text2, y2, x2, c2 : text2 = buffer' /\ y2 = row' /\ x2 = column' /\ c2 = cursor'
  OBVIOUS
<1>5. Shown' = <<text2, y2, x2, c2>>
  BY <1>3, <1>4 DEF Shown, screen
<1>6. /\ <<text2, y2, x2>> = Written(f, text, y, x)
      /\ c2 = IF f.char \in {"newline", "clear"} THEN cursor ELSE vga_get_index(x2, y2)
  BY <1>1, <1>4
<1>7. PICK c : c = cursor
  OBVIOUS
<1>8. /\ Shown = <<text, y, x, c>>
      /\ c2 = IF f.char \in {"newline", "clear"} THEN c ELSE vga_get_index(x2, y2)
  BY <1>2, <1>6, <1>7
<1> QED
  BY <1>5, <1>6, <1>8, PaperStep

\* NextRow: a newline that does not scroll the screen returns.
LEMMA NextRowSeen ==
    ASSUME ConsoleInv, NEW s \in Stacks, NextRow(s), overlap' = "none"
    PROVE  Shown' = Shown \/ Paper!Next
<1>1. At(s, "row") /\ "row" \in Labels
  BY DEF NextRow, Labels
<1>2. /\ writer[s] # <<>> /\ Top(s) \in Frames /\ FrameInv(Top(s)) /\ Top(s).pc = "row"
      /\ Top(s).row \in Nat /\ Top(s).column \in 0 .. Width - 1
  BY <1>1, ConsoleIsBasic, TopFrame
<1>3. PICK f \in Frames : f = Top(s)
  BY <1>2
<1>4. PICK n \in Nat : n = f.row + 1
  BY <1>2, <1>3
<1>5. /\ buffer' = buffer /\ row' = n /\ column' = column /\ cursor' = cursor /\ Step
      /\ before' = before /\ overlap = "none"
  BY <1>3, <1>4 DEF NextRow, Step
<1>6. CASE ~(n # Height /\ f.char = "newline")
  <2>1. PICK g : Becomes(s, g)
    <3>1. [f EXCEPT !.row = n].char = f.char
      BY DEF Frames
    <3> QED
      BY <1>3, <1>4, <1>6, <3>1 DEF NextRow, Goto, Finish
  <2> QED
    BY <1>2, <1>5, <2>1, NotSeen
<1>7. CASE n # Height /\ f.char = "newline"
  <2>1. Return(s)
    <3>1. [f EXCEPT !.row = n].char = f.char
      BY DEF Frames
    <3> QED
      BY <1>3, <1>4, <1>7, <3>1 DEF NextRow, Finish
  <2>2. ASSUME NEW text \in Texts, NEW y \in 0 .. Height - 1, NEW x \in 0 .. Width - 1,
               Done(f, text, y, x)
        PROVE  <<buffer', row', column'>> = Written(f, text, y, x)
    <3>1. Screen(Put(f, text, y, x), y, 0) /\ n = y + 1
      BY <1>2, <1>3, <1>4, <2>2 DEF Done
    <3>2. y < Height - 1
      BY <1>7, <3>1, SizeAssumption
    <3> QED
      BY <1>5, <1>7, <3>1, <3>2 DEF Written, Screen
  <2> QED
    BY <1>2, <1>3, <1>5, <1>7, <2>1, <2>2, ReturnSeen
<1> QED
  BY <1>6, <1>7

\* ScrollRow: a newline that scrolls the screen returns.
LEMMA ScrollRowSeen ==
    ASSUME ConsoleInv, NEW s \in Stacks, ScrollRow(s), overlap' = "none"
    PROVE  Shown' = Shown \/ Paper!Next
<1>1. At(s, "lastrow") /\ "lastrow" \in Labels
  BY DEF ScrollRow, Labels
<1>2. /\ writer[s] # <<>> /\ Top(s) \in Frames /\ FrameInv(Top(s)) /\ Top(s).pc = "lastrow"
      /\ Top(s).row \in Nat /\ Top(s).column \in 0 .. Width - 1
  BY <1>1, ConsoleIsBasic, TopFrame
<1>3. PICK f \in Frames : f = Top(s)
  BY <1>2
<1>4. /\ buffer' = buffer /\ row' = Height - 1 /\ column' = column /\ cursor' = cursor /\ Step
      /\ before' = before /\ overlap = "none"
  BY DEF ScrollRow, Step
<1>5. CASE f.char # "newline"
  <2>1. PICK g : Becomes(s, g)
    BY <1>3, <1>5 DEF ScrollRow, Goto
  <2> QED
    BY <1>2, <1>4, <2>1, NotSeen
<1>6. CASE f.char = "newline"
  <2>1. Return(s)
    BY <1>3, <1>6 DEF ScrollRow
  <2>2. ASSUME NEW text \in Texts, NEW y \in 0 .. Height - 1, NEW x \in 0 .. Width - 1,
               Done(f, text, y, x)
        PROVE  <<buffer', row', column'>> = Written(f, text, y, x)
    <3>1. Screen(Scrolled(Put(f, text, y, x)), Height, 0) /\ y = Height - 1
      BY <1>2, <1>3, <2>2 DEF Done
    <3>2. ~(y < Height - 1)
      BY <3>1, SizeAssumption
    <3> QED
      BY <1>4, <1>6, <3>1, <3>2 DEF Written, Screen
  <2> QED
    BY <1>2, <1>3, <1>4, <1>6, <2>1, <2>2, ReturnSeen
<1> QED
  BY <1>5, <1>6

\* vga_update_cursor: a glyph or a backspace returns.
LEMMA vga_update_cursorSeen ==
    ASSUME ConsoleInv, NEW s \in Stacks, vga_update_cursor(s), overlap' = "none"
    PROVE  Shown' = Shown \/ Paper!Next
<1>1. At(s, "cursor") /\ "cursor" \in Labels
  BY DEF vga_update_cursor, Labels
<1>2. /\ writer[s] # <<>> /\ Top(s) \in Frames /\ FrameInv(Top(s)) /\ Top(s).pc = "cursor"
      /\ Top(s).row \in Nat /\ Top(s).column \in 0 .. Width - 1
  BY <1>1, ConsoleIsBasic, TopFrame
<1>3. PICK f \in Frames : f = Top(s)
  BY <1>2
<1>4. /\ buffer' = buffer /\ row' = row /\ column' = column /\ Return(s) /\ before' = before
      /\ overlap = "none" /\ cursor' = vga_get_index(f.column, f.row)
  BY <1>3 DEF vga_update_cursor, Step
<1>5. f.pc = "cursor" /\ f.char \notin {"newline", "clear"}
  BY <1>2, <1>3, MarksAssumption DEF FrameInv, Controls
<1>6. ASSUME NEW text \in Texts, NEW y \in 0 .. Height - 1, NEW x \in 0 .. Width - 1,
             Done(f, text, y, x)
      PROVE  /\ <<buffer', row', column'>> = Written(f, text, y, x)
             /\ cursor' = vga_get_index(column', row')
  <2>1. f.row = row /\ f.column = column /\ <<buffer, row, column>> = Written(f, text, y, x)
    BY <1>5, <1>6 DEF Done
  <2> QED
    BY <1>4, <2>1
<1> QED
  BY <1>2, <1>3, <1>4, <1>5, <1>6, ReturnSeen

\* ClearColumn: the screen is clear, and a terminal again if an exception has come.
LEMMA ClearColumnSeen ==
    ASSUME ConsoleInv, NEW s \in Stacks, ClearColumn(s), overlap' = "none"
    PROVE  Shown' = Shown \/ Paper!Next
<1>1. At(s, "left") /\ "left" \in Labels
  BY DEF ClearColumn, Labels
<1>2. /\ writer[s] # <<>> /\ Top(s) \in Frames /\ FrameInv(Top(s)) /\ Top(s).pc = "left"
      /\ Top(s).row \in Nat /\ Top(s).column \in 0 .. Width - 1
  BY <1>1, ConsoleIsBasic, TopFrame
<1>3. PICK f \in Frames : f = Top(s)
  BY <1>2
<1>4. /\ buffer' = buffer /\ row' = row /\ column' = 0 /\ Return(s)
      /\ fault' = fault /\ before' = before /\ cursor' = cursor
      /\ overlap \in {"fault", "none"}
  BY DEF ClearColumn
<1>5. f.pc = "left" /\ f.char = "clear"
  BY <1>2, <1>3 DEF FrameInv
<1>6. CASE overlap = "none"
  <2>1. ASSUME NEW text \in Texts, NEW y \in 0 .. Height - 1, NEW x \in 0 .. Width - 1,
               Done(f, text, y, x)
        PROVE  <<buffer', row', column'>> = Written(f, text, y, x)
    <3>1. Screen(Blanks, 0, x)
      BY <1>5, <2>1 DEF Done
    <3> QED
      BY <1>4, <1>5, <3>1 DEF Written, Screen
  <2> QED
    BY <1>2, <1>3, <1>4, <1>5, <1>6, <2>1, ReturnSeen
<1>7. CASE overlap = "fault"
  <2>1. raised # {} /\ before = <<>>
    BY <1>7 DEF ConsoleInv, ReportInv
  <2>2. s = "main" /\ f = writer["main"][1]
    BY <1>2, <1>3, <2>1, OnlyReport
  <2>3. Clears(f)
    BY <1>7, <2>1, <2>2 DEF ConsoleInv, ReportInv
  <2>4. buffer = Blanks /\ row = 0
    BY <1>5, <2>3 DEF Clears
  <2>5. PICK c, x : c = cursor /\ x = column
    OBVIOUS
  <2>6. Shown = <<Blanks, 0, x, c>> /\ Shown' = <<Blanks, 0, 0, c>>
    BY <1>4, <2>1, <2>4, <2>5 DEF Shown, screen
  <2>7. vga_get_index(0, 0) = 0
    BY SizeAssumption DEF vga_get_index
  <2>8. Paper!Clear
    BY <2>6, <2>7 DEF Paper!Clear, Paper!BlankPaper, Paper!Places, Blanks, Places
  <2> QED
    BY <2>8 DEF Paper!Next
<1> QED
  BY <1>4, <1>6, <1>7

\* A step of a write other than its last is not seen on the terminal, and its last is
\* seen as the whole write.
LEMMA WriteSeen ==
    ASSUME ConsoleInv, NEW s \in Stacks, Write(s), overlap' = "none"
    PROVE  Shown' = Shown \/ Paper!Next
<1>1. ASSUME NEW g, writer[s] # <<>>, Becomes(s, g), Step
      PROVE  Shown' = Shown
  BY <1>1, NotSeen
<1>2. ASSUME Newline(s) \/ ScrollLines(s) \/ ReloadRow(s) \/ LoadColumn(s) \/ BackRow(s)
             \/ StoreCell(s) \/ Advance(s) \/ ClearCells(s) \/ ClearRow(s)
      PROVE  Shown' = Shown
  <2>1. writer[s] # <<>> /\ Step
    BY <1>2 DEF Newline, ScrollLines, ReloadRow, LoadColumn, BackRow, StoreCell, Advance,
                ClearCells, ClearRow, At
  <2>2. PICK g : Becomes(s, g)
    BY <1>2 DEF Newline, ScrollLines, ReloadRow, LoadColumn, BackRow, StoreCell, Advance,
                ClearCells, ClearRow, Goto
  <2> QED
    BY <1>1, <2>1, <2>2
<1>3. ASSUME BackColumn(s)
      PROVE  Shown' = Shown
  <2>1. writer[s] # <<>> /\ Step
    BY <1>3 DEF BackColumn, At
  <2>2. PICK w : w = Top(s)
    OBVIOUS
  <2>3. CASE w.column > 0
    BY <1>1, <1>3, <2>1, <2>2, <2>3 DEF BackColumn
  <2>4. CASE ~(w.column > 0) /\ w.column = 0 /\ w.row > 0
    BY <1>1, <1>3, <2>1, <2>2, <2>4 DEF BackColumn
  <2>5. CASE ~(w.column > 0) /\ ~(w.column = 0 /\ w.row > 0)
    BY <1>1, <1>3, <2>1, <2>2, <2>5 DEF BackColumn, Goto
  <2> QED
    BY <2>3, <2>4, <2>5
<1> QED
  BY <1>2, <1>3, NextRowSeen, ScrollRowSeen, vga_update_cursorSeen, ClearColumnSeen DEF Write

\* The beginning of a write is not seen on the terminal.
LEMMA BeginsUnseen ==
    ASSUME Idle, ~Idle', before' = screen, screen' = screen
    PROVE  Shown' = Shown
<1>1. before' # <<>>
  BY DEF screen
<1> QED
  BY <1>1 DEF Shown

\* A call of vga_putchar or vga_clear is not seen before it returns.
LEMMA CallSeen ==
    ASSUME ConsoleInv, NEW s \in Stacks, Call(s), overlap' = "none"
    PROVE  Shown' = Shown
<1>1. Idle /\ before' = screen /\ screen' = screen
  BY DEF Call
<1>2. PICK c \in Marks \cup Controls : writer' = [writer EXCEPT ![s] = Append(@, Entered(c))]
  BY DEF Call, Chars, Marks, Controls
<1>3. PICK g \in Frames : g = Entered(c)
  BY ConsoleIsBasic, EnteredFrame
<1>4. writer'[s] # <<>>
  BY <1>2, <1>3, WriteBegins DEF ConsoleInv
<1> QED
  BY <1>1, <1>4, BeginsUnseen DEF Idle

\* Neither is the call for the next character of a report.
LEMMA WriteReportSeen ==
    ASSUME ConsoleInv, WriteReport
    PROVE  Shown' = Shown
<1>1. Idle /\ before' = screen /\ screen' = screen
  BY DEF WriteReport
<1>2. writer'["main"] # <<>> /\ "main" \in Stacks
  <2>1. writer \in [Stacks -> Seq(Frames)] /\ "main" \in Stacks
    BY DEF ConsoleInv, TypeOK, Stacks
  <2>2. writer'["main"] = <<Entered(Head(left))>>
    BY <2>1 DEF WriteReport
  <2> QED
    BY <2>1, <2>2
<1> QED
  BY <1>1, <1>2, BeginsUnseen DEF Idle

\* The terminal begins with blank paper, as the boot code leaves the screen.
LEMMA InitSeen ==
    ASSUME Init
    PROVE  Paper!Init
<1>1. Idle
  BY DEF Init, Idle
<1>2. /\ Shown[1] = Blanks /\ Shown[2] = 0 /\ Shown[3] = 0 /\ Shown[4] \in Places
  BY <1>1 DEF Init, Shown, screen, Blanks
<1>3. vga_get_index(Shown[3], Shown[2]) = 0
  BY <1>2, SizeAssumption DEF vga_get_index
<1> QED
  BY <1>2, <1>3 DEF Paper!Init, Paper!BlankPaper, Paper!Places, Blanks, Places

\* As long as no write meets another, the console is a terminal that gets each
\* character when the call returns; and the report of an exception, whatever it has
\* interrupted, makes it one again.
THEOREM ConsoleIsATerminal == Spec => IsTerminal
<1>1. Init => Paper!Init
  BY InitSeen
<1>2. ConsoleInv /\ [Next]_vars => (overlap' = "none" => [Paper!Next]_(Paper!vars))
  <2> SUFFICES ASSUME ConsoleInv, [Next]_vars, overlap' = "none"
               PROVE  Paper!Next \/ Shown' = Shown
    BY DEF Paper!vars
  <2>1. ASSUME UNCHANGED vars
        PROVE  Shown' = Shown
    BY <2>1 DEF vars, Shown, Idle, screen
  <2>2. ~Raise
    BY DEF Raise
  <2> QED
    BY <2>1, <2>2, WriteSeen, CallSeen, WriteReportSeen DEF Next, HltForever
<1> QED
  BY <1>1, <1>2, ConsoleInvariant, PTL DEF Spec, IsTerminal

====
