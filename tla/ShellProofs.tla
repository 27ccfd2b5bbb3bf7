---------------------------- MODULE ShellProofs ----------------------------
(***************************************************************************)
(* The shell under the keyboard driver, for any keys, any length of the    *)
(* line and any number of open handlers.                                   *)
(***************************************************************************)
EXTENDS Shell, StackLemmas

----------------------------------------------------------------------------
(***************************************************************************)
(* The inductive invariant behind the properties.  First, what holds       *)
(* however handlers nest: the last byte of the buffer is never written.    *)
(***************************************************************************)
LastIsNul == command_buffer[MaxCommandLen - 1] = NUL

StoresFit ==
    \A s \in Stacks : \A i \in DOMAIN handler[s] :
        handler[s][i].pc = "char" => handler[s][i].idx < MaxCommandLen - 1

(***************************************************************************)
(* And what holds as long as none has run while another one was open:      *)
(* there is one at most, what it has loaded is what is there, and the line *)
(* is what precedes buffer_idx.                                            *)
(***************************************************************************)
Alone ==
    /\ \A s \in Stacks : handler[s] # <<>> => Len(handler[s]) = 1
    /\ \A s, t \in Stacks : handler[s] # <<>> /\ handler[t] # <<>> => s = t

AtShift(s) == At(s, "decode") /\ IsShift(Top(s).code)

HandlerInv(s) ==
    /\ AtShift(s) => (Top(s).code.down <=> Top(s).code.key \in held)
    /\ At(s, "type") => Top(s).char \in Characters
    /\ At(s, "char") => Top(s).char \in Characters /\ Top(s).idx = buffer_idx
    /\ At(s, "count") =>
          \/ Top(s).idx = buffer_idx - 1
          \/ Top(s).idx = buffer_idx + 1 /\ command_buffer[buffer_idx] # NUL
    /\ At(s, "dispatch") => buffer_idx > 0 /\ command_buffer[buffer_idx] = NUL
    /\ s \in Running => Top(s).text # <<>>

LineInv == Running = {} => \A i \in Places : i < buffer_idx => command_buffer[i] # NUL

KeysInv ==
    (\A s \in Stacks : ~AtShift(s)) =>
        /\ held = {} => shift_pressed = 0
        /\ held = ShiftKeys => shift_pressed = 1

ShellInv ==
    /\ TypeOK /\ LastIsNul /\ StoresFit
    /\ apart => /\ Alone
                /\ \A s \in Stacks : HandlerInv(s)
                /\ LineInv
                /\ KeysInv

----------------------------------------------------------------------------
InputType ==
    [pc : Labels, char : Characters \cup {NUL}, idx : Places, text : Seq(Characters)]

\* What is known of the handler on top of a stack.
LEMMA TopHandler ==
    ASSUME TypeOK, NEW s \in Stacks, handler[s] # <<>>
    PROVE  /\ Top(s) \in Handlers
           /\ \/ Top(s).pc = "decode" /\ Top(s).code \in Codes
              \/ Top(s).pc \in Labels /\ Top(s) \in InputType
           /\ Len(handler[s]) \in Nat \ {0} /\ Top(s) = handler[s][Len(handler[s])]
           /\ Len(handler[s]) \in DOMAIN handler[s]
<1>1. handler[s] \in Seq(Handlers)
  BY DEF TypeOK
<1>2. /\ Len(handler[s]) \in Nat \ {0} /\ Len(handler[s]) \in DOMAIN handler[s]
      /\ handler[s][Len(handler[s])] \in Handlers
  BY <1>1, StackElements
<1>3. Top(s) = handler[s][Len(handler[s])]
  BY DEF Top, Last
<1> QED
  BY <1>2, <1>3 DEF Handlers, InputType

\* Where a handler on top of a stack is, if it is past the decoding.
LEMMA InputHandler ==
    ASSUME TypeOK, NEW s \in Stacks, NEW l \in Labels, At(s, l)
    PROVE  /\ handler[s] # <<>> /\ Top(s) \in InputType /\ Top(s).pc = l
           /\ Top(s).char \in Characters \cup {NUL} /\ Top(s).idx \in Places
           /\ Top(s).text \in Seq(Characters)
<1>1. handler[s] # <<>> /\ Top(s).pc = l /\ l # "decode"
  BY DEF At, Top, Labels
<1> QED
  BY <1>1, TopHandler DEF InputType

\* When the handler on top goes on as h, all other handlers stay what they are.
LEMMA HandlerBecomes ==
    ASSUME TypeOK, NEW s \in Stacks, handler[s] # <<>>, NEW h, Becomes(s, h)
    PROVE  /\ h \in Handlers => handler' \in [Stacks -> Seq(Handlers)]
           /\ handler'[s] # <<>> /\ Top(s)' = h /\ Len(handler'[s]) = Len(handler[s])
           /\ \A t \in Stacks \ {s} : handler'[t] = handler[t]
           /\ StoresFit /\ (h.pc = "char" => h.idx < MaxCommandLen - 1) => StoresFit'
<1>1. handler[s] \in Seq(Handlers) /\ handler \in [Stacks -> Seq(Handlers)]
  BY DEF TypeOK
<1> DEFINE T == Handlers \cup {h}
<1>2. handler[s] \in Seq(T) /\ (h \in Handlers => T = Handlers)
  BY <1>1, SeqMonotonic
<1> HIDE DEF T
<1>3. h \in T
  BY DEF T
<1>4. PICK q \in Seq(T) : q = Append(Front(handler[s]), h)
  BY <1>2, <1>3, StackReplace
<1>5. /\ Len(handler[s]) \in Nat \ {0}
      /\ DOMAIN q = DOMAIN handler[s] /\ DOMAIN handler[s] = 1 .. Len(handler[s])
      /\ q[Len(handler[s])] = h
      /\ \A i \in DOMAIN handler[s] \ {Len(handler[s])} : q[i] = handler[s][i]
  BY <1>2, <1>3, <1>4, StackReplace
<1>6. Len(q) = Len(handler[s]) /\ q # <<>>
  BY <1>4, <1>5
<1>7. handler' = [handler EXCEPT ![s] = q]
  BY <1>1, <1>4 DEF Becomes
<1>8. handler'[s] = q /\ \A t \in Stacks \ {s} : handler'[t] = handler[t]
  BY <1>1, <1>7
<1>9. Top(s)' = h
  BY <1>5, <1>6, <1>8 DEF Top, Last
<1>10. StoresFit /\ (h.pc = "char" => h.idx < MaxCommandLen - 1) => StoresFit'
  BY <1>5, <1>8 DEF StoresFit
<1> QED
  BY <1>1, <1>2, <1>4, <1>6, <1>7, <1>8, <1>9, <1>10

\* When the handler on top returns, those below it stay what they are.
LEMMA HandlerReturns ==
    ASSUME TypeOK, NEW s \in Stacks, handler[s] # <<>>, Return(s)
    PROVE  /\ handler' \in [Stacks -> Seq(Handlers)]
           /\ Len(handler[s]) \in Nat \ {0} /\ Len(handler'[s]) = Len(handler[s]) - 1
           /\ \A t \in Stacks \ {s} : handler'[t] = handler[t]
           /\ StoresFit => StoresFit'
<1>1. handler[s] \in Seq(Handlers) /\ handler \in [Stacks -> Seq(Handlers)]
  BY DEF TypeOK
<1>2. PICK q \in Seq(Handlers) : q = Front(handler[s])
  BY <1>1, StackPop
<1>3. /\ Len(handler[s]) \in Nat \ {0} /\ Len(q) = Len(handler[s]) - 1
      /\ DOMAIN q = 1 .. Len(handler[s]) - 1 /\ DOMAIN handler[s] = 1 .. Len(handler[s])
      /\ \A i \in DOMAIN q : q[i] = handler[s][i]
  BY <1>1, <1>2, StackPop
<1>4. handler' = [handler EXCEPT ![s] = q]
  BY <1>1, <1>2 DEF Return
<1>5. handler'[s] = q /\ \A t \in Stacks \ {s} : handler'[t] = handler[t]
  BY <1>1, <1>4
<1>6. StoresFit => StoresFit'
  <2>1. DOMAIN q \subseteq DOMAIN handler[s]
    BY <1>3
  <2> QED
    BY <1>3, <1>5, <2>1 DEF StoresFit
<1> QED
  BY <1>1, <1>2, <1>3, <1>4, <1>5, <1>6

\* A handler on its own goes on, and is still on its own.
LEMMA OneBecomes ==
    ASSUME TypeOK, Alone, NEW s \in Stacks, handler[s] # <<>>, NEW h, Becomes(s, h)
    PROVE  /\ Alone' /\ At(s, h.pc)' /\ Top(s)' = h
           /\ \A l : At(s, l)' <=> l = h.pc
           /\ \A t \in Stacks \ {s} : handler[t] = <<>> /\ handler'[t] = <<>>
           /\ \A t \in Stacks \ {s} : \A l : ~At(t, l)'
           /\ Running' = IF h.pc \in {"run", "cut", "done"} THEN {s} ELSE {}
<1>1. /\ handler'[s] # <<>> /\ Top(s)' = h /\ Len(handler'[s]) = Len(handler[s])
      /\ \A t \in Stacks \ {s} : handler'[t] = handler[t]
  BY HandlerBecomes
<1>2. \A t \in Stacks \ {s} : handler[t] = <<>>
  BY DEF Alone
<1>3. \A l : At(s, l)' <=> l = h.pc
  BY <1>1 DEF At, Top
<1>4. \A t \in Stacks \ {s} : \A l : ~At(t, l)'
  BY <1>1, <1>2 DEF At
<1>5. Running' = IF h.pc \in {"run", "cut", "done"} THEN {s} ELSE {}
  BY <1>3, <1>4 DEF Running
<1> QED
  BY <1>1, <1>2, <1>3, <1>4, <1>5 DEF Alone

\* When the only open handler returns, none is open on any stack.
LEMMA OneReturns ==
    ASSUME TypeOK, Alone, NEW s \in Stacks, handler[s] # <<>>, Return(s)
    PROVE  Alone' /\ \A t \in Stacks : handler'[t] = <<>> /\ \A l : ~At(t, l)'
<1>1. /\ handler' \in [Stacks -> Seq(Handlers)]
      /\ Len(handler[s]) \in Nat \ {0} /\ Len(handler'[s]) = Len(handler[s]) - 1
      /\ \A t \in Stacks \ {s} : handler'[t] = handler[t]
  BY HandlerReturns
<1>2. \A t \in Stacks \ {s} : handler[t] = <<>>
  BY DEF Alone
<1>3. Len(handler[s]) = 1
  BY DEF Alone
<1>4. Len(handler'[s]) = 0
  BY <1>1, <1>3
<1>5. handler'[s] = <<>>
  BY <1>1, <1>4, EmptySeq
<1> QED
  BY <1>1, <1>2, <1>5 DEF Alone, At

\* While no handler is open, there is nothing to say but for the line and Shift.
LEMMA NobodyOpen ==
    ASSUME \A t \in Stacks : \A l : ~At(t, l)'
    PROVE  /\ \A t \in Stacks : HandlerInv(t)' /\ ~AtShift(t)'
           /\ Running' = {}
  BY DEF HandlerInv, AtShift, Running

----------------------------------------------------------------------------
(* The invariant                                                           *)

\* The part of it that concerns handlers on their own.
ApartInv ==
    Alone /\ (\A s \in Stacks : HandlerInv(s)) /\ LineInv /\ KeysInv

\* The empty line of a shell that has not been started satisfies the invariant.
LEMMA InitiallyShell == Init => ShellInv
<1> SUFFICES ASSUME Init PROVE ShellInv
  OBVIOUS
<1>1. /\ held = {} /\ shift_pressed = 0 /\ command_buffer = [i \in Places |-> NUL]
      /\ buffer_idx = 0 /\ handler = [s \in Stacks |-> <<>>] /\ stage = "boot" /\ apart = TRUE
  BY DEF Init
<1>2. 0 \in Places /\ MaxCommandLen - 1 \in Places
  BY LenAssumption DEF Places
<1>3. TypeOK
  BY <1>1, <1>2 DEF TypeOK
<1>4. \A s \in Stacks : handler[s] = <<>> /\ Len(handler[s]) = 0 /\ DOMAIN handler[s] = {}
  BY <1>1
<1>5. LastIsNul /\ StoresFit
  BY <1>1, <1>2, <1>4 DEF LastIsNul, StoresFit
<1>6. Alone
  BY <1>4 DEF Alone
<1>7. (\A s \in Stacks : HandlerInv(s)) /\ Running = {}
  BY <1>4 DEF HandlerInv, AtShift, At, Running
<1>8. LineInv
  BY <1>1 DEF LineInv, Places
<1>9. KeysInv
  BY <1>1, KeysAssumption DEF KeysInv
<1> QED
  BY <1>3, <1>5, <1>6, <1>7, <1>8, <1>9 DEF ShellInv

\* A scancode comes; it finds no handler open, if none is to run meanwhile.
LEMMA KeyKeeps ==
    ASSUME ShellInv, NEW s \in Stacks, Key(s)
    PROVE  ShellInv'
<1>1. PICK code \in Codes :
          Strike(code) /\ handler' = [handler EXCEPT ![s] = Append(@, KeyHandler(code))]
  BY DEF Key
<1>2. /\ apart' = (apart /\ Idle)
      /\ UNCHANGED <<shift_pressed, command_buffer, buffer_idx, stage>>
  BY DEF Key, line
<1>3. PICK h \in Handlers : h = KeyHandler(code)
  BY DEF KeyHandler, Handlers
<1>4. h.pc = "decode" /\ h.code = code
  BY <1>3 DEF KeyHandler
<1>5. handler \in [Stacks -> Seq(Handlers)]
  BY DEF ShellInv, TypeOK
<1>6. PICK q \in Seq(Handlers) : q = Append(handler[s], h)
  <2>1. handler[s] \in Seq(Handlers)
    BY <1>5
  <2> QED
    BY <2>1, AppendProperties
<1>7. /\ Len(handler[s]) \in Nat /\ Len(q) = Len(handler[s]) + 1
      /\ DOMAIN q = 1 .. Len(handler[s]) + 1 /\ DOMAIN handler[s] = 1 .. Len(handler[s])
      /\ q[Len(handler[s]) + 1] = h
      /\ \A i \in DOMAIN handler[s] : q[i] = handler[s][i]
  <2>1. handler[s] \in Seq(Handlers)
    BY <1>5
  <2> QED
    BY <1>6, <2>1, AppendProperties, LenProperties
<1>8. /\ handler' \in [Stacks -> Seq(Handlers)] /\ handler'[s] = q
      /\ \A t \in Stacks \ {s} : handler'[t] = handler[t]
  BY <1>1, <1>3, <1>5, <1>6
<1>9. held' \in SUBSET ShiftKeys
  BY <1>1 DEF Strike, Codes, ShellInv, TypeOK
<1>10. TypeOK'
  BY <1>2, <1>8, <1>9 DEF ShellInv, TypeOK
<1>11. LastIsNul'
  BY <1>2 DEF ShellInv, LastIsNul
<1>12. StoresFit'
  <2>1. ASSUME NEW i \in DOMAIN q, q[i].pc = "char" PROVE q[i].idx < MaxCommandLen - 1
    <3>1. i \in DOMAIN handler[s] /\ q[i] = handler[s][i]
      BY <1>4, <1>7, <2>1
    <3> QED
      BY <2>1, <3>1 DEF ShellInv, StoresFit
  <2> QED
    BY <1>8, <2>1 DEF ShellInv, StoresFit
<1>13. ASSUME apart' PROVE ApartInv'
  <2>1. apart /\ Idle /\ \A t \in Stacks : handler[t] = <<>>
    BY <1>2, <1>13 DEF Idle
  <2>2. Len(q) = 1 /\ q # <<>> /\ q[1] = h
    BY <1>7, <2>1
  <2>3. \A t \in Stacks \ {s} : handler'[t] = <<>>
    BY <1>8, <2>1
  <2>4. Alone'
    BY <1>8, <2>2, <2>3 DEF Alone
  <2>5. Top(s)' = h /\ \A l : At(s, l)' <=> l = "decode"
    BY <1>4, <1>8, <2>2 DEF Top, At, Last
  <2>6. \A t \in Stacks \ {s} : \A l : ~At(t, l)'
    BY <2>3 DEF At
  <2>7. AtShift(s)' => (code.down <=> code.key \in held')
    BY <1>1, <1>4, <2>5 DEF AtShift, IsShift, Strike, Codes
  <2>8. \A t \in Stacks : HandlerInv(t)'
    BY <1>4, <2>5, <2>6, <2>7 DEF HandlerInv, AtShift, Running
  <2>9. Running' = {} /\ Running = {}
    BY <2>1, <2>5, <2>6 DEF Running, At
  <2>10. LineInv'
    BY <1>2, <2>1, <2>9 DEF ShellInv, LineInv
  <2>11. KeysInv'
    <3> SUFFICES ASSUME ~AtShift(s)'
                 PROVE  /\ held' = {} => shift_pressed' = 0
                        /\ held' = ShiftKeys => shift_pressed' = 1
      BY DEF KeysInv
    <3>1. held' = held
      <4>1. code.key \notin ShiftKeys
        BY <1>4, <2>5 DEF AtShift, IsShift
      <4> QED
        BY <1>1, <4>1 DEF Strike, Codes
    <3>2. \A t \in Stacks : ~AtShift(t)
      BY <2>1 DEF AtShift, At
    <3> QED
      BY <1>2, <2>1, <3>1, <3>2 DEF ShellInv, KeysInv
  <2> QED
    BY <2>4, <2>8, <2>10, <2>11 DEF ApartInv
<1> QED
  BY <1>10, <1>11, <1>12, <1>13 DEF ShellInv, ApartInv

\* A handler goes on as h; the keys and buffer_idx stay as they are.
LEMMA GoesOn ==
    ASSUME ShellInv, NEW s \in Stacks, handler[s] # <<>>, ~AtShift(s),
           NEW h \in Handlers, Becomes(s, h), h.pc # "decode",
           h.pc = "char" => h.idx < MaxCommandLen - 1,
           UNCHANGED <<held, shift_pressed, buffer_idx, stage, apart>>,
           command_buffer' \in [Places -> Characters \cup {NUL}], LastIsNul',
           apart /\ ApartInv => HandlerInv(s)' /\ LineInv'
    PROVE  ShellInv'
<1>1. TypeOK /\ LastIsNul /\ StoresFit
  BY DEF ShellInv
<1>2. TypeOK' /\ StoresFit'
  BY <1>1, HandlerBecomes DEF TypeOK
<1>3. ASSUME apart' PROVE ApartInv'
  <2>1. apart /\ ApartInv
    BY <1>3 DEF ShellInv, ApartInv
  <2>2. /\ Alone' /\ \A l : At(s, l)' <=> l = h.pc
        /\ \A t \in Stacks \ {s} : handler[t] = <<>>
        /\ \A t \in Stacks \ {s} : \A l : ~At(t, l)'
    BY <1>1, <2>1, OneBecomes DEF ApartInv
  <2>3. \A t \in Stacks \ {s} : HandlerInv(t)'
    BY <2>2 DEF HandlerInv, AtShift, Running
  <2>4. \A t \in Stacks : ~AtShift(t)
    BY <2>2 DEF AtShift, At
  <2>5. KeysInv'
    BY <2>1, <2>4 DEF ApartInv, KeysInv
  <2> QED
    BY <2>1, <2>2, <2>3, <2>5 DEF ApartInv
<1> QED
  BY <1>2, <1>3 DEF ShellInv, ApartInv

\* A handler returns, with what it was to store stored.
LEMMA GoesBack ==
    ASSUME ShellInv, NEW s \in Stacks, handler[s] # <<>>, Return(s),
           UNCHANGED <<held, command_buffer, stage, apart>>,
           shift_pressed' \in {0, 1}, buffer_idx' \in Places,
           apart /\ ApartInv =>
               /\ \A i \in Places : i < buffer_idx' => command_buffer[i] # NUL
               /\ held = {} => shift_pressed' = 0
               /\ held = ShiftKeys => shift_pressed' = 1
    PROVE  ShellInv'
<1>1. TypeOK /\ LastIsNul /\ StoresFit
  BY DEF ShellInv
<1>2. TypeOK' /\ StoresFit' /\ LastIsNul'
  BY <1>1, HandlerReturns DEF TypeOK, LastIsNul
<1>3. ASSUME apart' PROVE ApartInv'
  <2>1. apart /\ ApartInv
    BY <1>3 DEF ShellInv, ApartInv
  <2>2. Alone' /\ \A t \in Stacks : \A l : ~At(t, l)'
    BY <1>1, <2>1, OneReturns DEF ApartInv
  <2>3. /\ \A t \in Stacks : HandlerInv(t)' /\ ~AtShift(t)'
        /\ Running' = {}
    BY <2>2, NobodyOpen
  <2>4. LineInv' /\ KeysInv'
    BY <2>1 DEF LineInv, KeysInv
  <2> QED
    BY <2>2, <2>3, <2>4 DEF ApartInv
<1> QED
  BY <1>2, <1>3 DEF ShellInv, ApartInv

\* A handler that is past the decoding and on its own: what Shift is, and whether
\* it runs a command.
LEMMA OnItsOwn ==
    ASSUME TypeOK, ApartInv, NEW s \in Stacks, handler[s] # <<>>, ~AtShift(s)
    PROVE  /\ held = {} => shift_pressed = 0
           /\ held = ShiftKeys => shift_pressed = 1
           /\ \A t \in Stacks \ {s} : \A l : ~At(t, l)
           /\ Running = IF s \in Running THEN {s} ELSE {}
<1>1. \A t \in Stacks \ {s} : \A l : ~At(t, l)
  BY DEF ApartInv, Alone, At
<1>2. \A t \in Stacks : ~AtShift(t)
  BY <1>1 DEF AtShift
<1> QED
  BY <1>1, <1>2 DEF ApartInv, KeysInv, Running

\* keyboard.c setting or clearing shift_pressed keeps the invariant.
LEMMA DecodeShiftKeeps ==
    ASSUME ShellInv, NEW s \in Stacks, DecodeShift(s)
    PROVE  ShellInv'
<1>1. /\ handler[s] # <<>> /\ AtShift(s) /\ Return(s)
      /\ shift_pressed' = IF Top(s).code.down THEN 1 ELSE 0
      /\ UNCHANGED <<held, command_buffer, buffer_idx, stage, apart>>
  BY DEF DecodeShift, At, AtShift, SetShift, line
<1>2. TypeOK /\ buffer_idx \in Places /\ held \in SUBSET ShiftKeys
  BY DEF ShellInv, TypeOK
<1>3. Top(s).code \in Codes /\ Top(s).code.key \in ShiftKeys /\ Top(s).pc = "decode"
  BY <1>1, <1>2, TopHandler DEF AtShift, At, IsShift, Top, Labels
<1>4. Top(s).code.down \in BOOLEAN
  BY <1>3 DEF Codes
<1>5. ASSUME apart, ApartInv
      PROVE  /\ \A i \in Places : i < buffer_idx => command_buffer[i] # NUL
             /\ held = {} => shift_pressed' = 0
             /\ held = ShiftKeys => shift_pressed' = 1
  <2>1. Running = {}
    BY <1>1, <1>3, <1>5 DEF ApartInv, Alone, Running, At, Top
  <2>2. Top(s).code.down <=> Top(s).code.key \in held
    BY <1>1, <1>5 DEF ApartInv, HandlerInv
  <2> QED
    BY <1>1, <1>3, <1>4, <1>5, <2>1, <2>2 DEF ApartInv, LineInv
<1> QED
  BY <1>1, <1>2, <1>5, GoesBack

\* The key of a scancode is a character's, or Enter or Backspace.
Decoded(s) ==
    LET key == Top(s).code.key IN
    CASE key = "enter"     -> ShellInput("enter", NUL)
      [] key = "backspace" -> ShellInput("erase", NUL)
      [] OTHER -> ShellInput("type", Character(key, shift_pressed))

\* What keyboard.c makes of a key other than Shift: an Enter, a Backspace or a
\* character for shell_input.
LEMMA DecodesTo ==
    ASSUME ShellInv, NEW s \in Stacks, Decode(s)
    PROVE  /\ At(s, "decode") /\ handler[s] # <<>> /\ ~AtShift(s)
           /\ Decoded(s) \in Handlers /\ Becomes(s, Decoded(s))
           /\ Decoded(s).pc \in {"enter", "erase", "type"}
           /\ Decoded(s).pc = "type" => Decoded(s).char \in Characters
<1> DEFINE key == Top(s).code.key
<1>1. /\ At(s, "decode") /\ ~IsShift(Top(s).code) /\ Becomes(s, Decoded(s))
      /\ UNCHANGED <<held, shift_pressed, command_buffer, buffer_idx, stage, apart>>
  BY DEF Decode, Decoded, keyboard, line
<1>2. /\ TypeOK /\ handler[s] # <<>> /\ ~AtShift(s) /\ Top(s).pc = "decode"
      /\ shift_pressed \in {0, 1} /\ LastIsNul
  BY <1>1 DEF At, AtShift, ShellInv, TypeOK, Top
<1>3. Top(s).code \in Codes
  BY <1>2, TopHandler DEF Labels
<1>4. key \in LetterKeys \cup OtherKeys
  BY <1>1, <1>3 DEF Codes, IsShift
<1>5. \E c \in Characters \cup {NUL}, l \in {"enter", "erase", "type"} :
         Decoded(s) = ShellInput(l, c) /\ (l = "type" => c \in Characters)
  <2>1. CASE key = "enter"
    BY <2>1 DEF Decoded
  <2>2. CASE key = "backspace"
    BY <2>2 DEF Decoded
  <2>3. CASE key # "enter" /\ key # "backspace"
    <3>1. Character(key, shift_pressed) \in Characters
      BY <1>2, <1>4, <2>3 DEF Character, Characters, OtherKeys
    <3> QED
      BY <2>3, <3>1 DEF Decoded
  <2> QED
    BY <2>1, <2>2, <2>3
<1>6. PICK c \in Characters \cup {NUL}, l \in {"enter", "erase", "type"} :
         Decoded(s) = ShellInput(l, c) /\ (l = "type" => c \in Characters)
  BY <1>5
<1>7. PICK h \in Handlers : h = ShellInput(l, c)
  <2>1. 0 \in Places /\ <<>> \in Seq(Characters)
    BY LenAssumption DEF Places
  <2> QED
    BY <2>1 DEF ShellInput, Handlers, Labels
<1>8. h.pc = l /\ h.char = c
  BY <1>7 DEF ShellInput
<1>9. Decoded(s) = h
  BY <1>6, <1>7
<1>10. h.pc \in {"enter", "erase", "type"} /\ (h.pc = "type" => h.char \in Characters)
  BY <1>6, <1>8
<1> QED
  BY <1>1, <1>2, <1>9, <1>10

\* The translation of a key into a call of shell_input keeps the invariant.
LEMMA DecodeKeeps ==
    ASSUME ShellInv, NEW s \in Stacks, Decode(s)
    PROVE  ShellInv'
<1>1. /\ handler[s] # <<>> /\ ~AtShift(s) /\ At(s, "decode")
      /\ UNCHANGED <<held, shift_pressed, command_buffer, buffer_idx, stage, apart>>
  BY DecodesTo DEF Decode, keyboard, line
<1>2. PICK h \in Handlers : /\ Becomes(s, h) /\ h.pc \in {"enter", "erase", "type"}
                            /\ h.pc = "type" => h.char \in Characters
  BY DecodesTo
<1>3. TypeOK /\ LastIsNul
  BY DEF ShellInv
<1>4. ASSUME apart, ApartInv
      PROVE  HandlerInv(s)' /\ LineInv'
  <2>1. Running = {}
    BY <1>1, <1>3, <1>4, OnItsOwn DEF Running, At, Top
  <2>2. Top(s)' = h /\ (\A m : At(s, m)' <=> m = h.pc) /\ Running' = {}
    BY <1>1, <1>2, <1>3, <1>4, OneBecomes DEF ApartInv
  <2>3. HandlerInv(s)'
    BY <1>2, <2>2 DEF HandlerInv, AtShift
  <2> QED
    BY <1>1, <1>4, <2>1, <2>3 DEF ApartInv, LineInv
<1>5. command_buffer' \in [Places -> Characters \cup {NUL}] /\ LastIsNul'
  BY <1>1, <1>3 DEF TypeOK, LastIsNul
<1>6. h.pc # "decode" /\ h.pc # "char"
  BY <1>2
<1> QED
  BY <1>1, <1>2, <1>4, <1>5, <1>6, GoesOn

\* What a handler past the decoding, on its own or not, knows of itself.
LEMMA PastDecoding ==
    ASSUME ShellInv, NEW s \in Stacks, NEW l \in Labels, At(s, l)
    PROVE  /\ TypeOK /\ LastIsNul /\ StoresFit
           /\ handler[s] # <<>> /\ ~AtShift(s) /\ (\A m : At(s, m) <=> m = l)
           /\ Top(s) \in InputType /\ Top(s).pc = l
           /\ Top(s).char \in Characters \cup {NUL} /\ Top(s).idx \in Places
           /\ Top(s).text \in Seq(Characters)
           /\ l = "char" => Top(s).idx < MaxCommandLen - 1
           /\ buffer_idx \in Places /\ Places = 0 .. MaxCommandLen - 1
           /\ MaxCommandLen \in Nat \ {0, 1}
           /\ shift_pressed \in {0, 1}
           /\ command_buffer \in [Places -> Characters \cup {NUL}]
<1>1. TypeOK /\ LastIsNul /\ StoresFit
  BY DEF ShellInv
<1>2. /\ handler[s] # <<>> /\ Top(s) \in InputType /\ Top(s).pc = l
      /\ Top(s).char \in Characters \cup {NUL} /\ Top(s).idx \in Places
      /\ Top(s).text \in Seq(Characters)
  BY <1>1, InputHandler
<1>3. \A m : At(s, m) <=> m = l
  BY <1>2 DEF At, Top
<1>4. ~AtShift(s)
  BY <1>3 DEF AtShift, Labels
<1>5. l = "char" => Top(s).idx < MaxCommandLen - 1
  BY <1>1, <1>2, TopHandler DEF StoresFit
<1>6. MaxCommandLen \in Nat \ {0, 1} /\ Places = 0 .. MaxCommandLen - 1
  BY LenAssumption DEF Places
<1> QED
  BY <1>1, <1>2, <1>3, <1>4, <1>5, <1>6 DEF TypeOK

\* The record of a handler that goes on elsewhere, at another place of the line,
\* or with a line it has read.
LEMMA OtherLabel ==
    ASSUME NEW c \in InputType, NEW l \in Labels
    PROVE  \E h \in Handlers : /\ h = [c EXCEPT !.pc = l] /\ h.pc = l /\ h.idx = c.idx
                               /\ h.char = c.char /\ h.text = c.text
<1> DEFINE h == [c EXCEPT !.pc = l]
<1>1. h \in Handlers /\ h.pc = l /\ h.idx = c.idx /\ h.char = c.char /\ h.text = c.text
  BY DEF InputType, Handlers
<1> QED
  BY <1>1

OnTo(c, l, i) == [c EXCEPT !.pc = l, !.idx = i]

\* A handler that has loaded the index, at its next place, is a handler still.
LEMMA OtherPlace ==
    ASSUME NEW c \in InputType, NEW l \in Labels, NEW i \in Places
    PROVE  /\ OnTo(c, l, i) \in Handlers /\ OnTo(c, l, i).pc = l /\ OnTo(c, l, i).idx = i
           /\ OnTo(c, l, i).char = c.char /\ OnTo(c, l, i).text = c.text
  BY DEF InputType, Handlers, OnTo

Reading(c, l, x) == [c EXCEPT !.pc = l, !.text = x]

\* A handler that has read the line, at its next place, is a handler still.
LEMMA OtherText ==
    ASSUME NEW c \in InputType, NEW l \in Labels, NEW x \in Seq(Characters)
    PROVE  /\ Reading(c, l, x) \in Handlers /\ Reading(c, l, x).pc = l
           /\ Reading(c, l, x).text = x
  BY DEF InputType, Handlers, Reading

\* A handler that leaves the line as it is and then has something to store.
LEMMA LooksOnly ==
    ASSUME ShellInv, NEW s \in Stacks, NEW l \in {"type", "erase"}, At(s, l),
           NEW i \in Places, NEW m \in {"char", "count"},
           Becomes(s, [Top(s) EXCEPT !.pc = m, !.idx = i]),
           UNCHANGED <<keyboard, line, stage, apart>>,
           m = "char" => l = "type" /\ i = buffer_idx /\ i < MaxCommandLen - 1,
           m = "count" => i = buffer_idx - 1
    PROVE  ShellInv'
<1>1. l \in Labels /\ m \in Labels
  BY DEF Labels
<1>2. /\ TypeOK /\ LastIsNul /\ handler[s] # <<>> /\ ~AtShift(s)
      /\ Top(s) \in InputType /\ Top(s).text \in Seq(Characters)
      /\ (\A k : At(s, k) <=> k = l)
      /\ command_buffer \in [Places -> Characters \cup {NUL}]
  BY <1>1, PastDecoding
<1>3. PICK h \in Handlers : /\ h = OnTo(Top(s), m, i) /\ h.pc = m /\ h.idx = i
                            /\ h.char = Top(s).char
  BY <1>1, <1>2, OtherPlace
<1>4. Becomes(s, h)
  BY <1>3 DEF OnTo
<1>5. ASSUME apart, ApartInv
      PROVE  HandlerInv(s)' /\ LineInv'
  <2>1. Running = {}
    BY <1>2, <1>5, OnItsOwn DEF Running
  <2>2. Top(s)' = h /\ (\A k : At(s, k)' <=> k = m) /\ Running' = {}
    BY <1>2, <1>3, <1>4, <1>5, OneBecomes DEF ApartInv
  <2>3. m = "char" => h.char \in Characters
    BY <1>2, <1>3, <1>5 DEF ApartInv, HandlerInv
  <2>4. HandlerInv(s)'
    BY <1>3, <2>2, <2>3 DEF HandlerInv, AtShift, line
  <2> QED
    BY <1>5, <2>1, <2>4 DEF ApartInv, LineInv, line
<1>6. command_buffer' \in [Places -> Characters \cup {NUL}] /\ LastIsNul'
  BY <1>2 DEF LastIsNul, line
<1> QED
  BY <1>2, <1>3, <1>4, <1>5, <1>6, GoesOn DEF line, keyboard

\* A handler that returns without having stored anything keeps the invariant.
LEMMA ReturnsOnly ==
    ASSUME ShellInv, NEW s \in Stacks, NEW l \in {"type", "erase", "enter"}, At(s, l),
           Return(s), UNCHANGED <<keyboard, line, stage, apart>>
    PROVE  ShellInv'
<1>1. l \in Labels
  BY DEF Labels
<1>2. /\ TypeOK /\ handler[s] # <<>> /\ ~AtShift(s) /\ (\A k : At(s, k) <=> k = l)
      /\ buffer_idx \in Places /\ shift_pressed \in {0, 1}
  BY <1>1, PastDecoding
<1>3. ASSUME apart, ApartInv
      PROVE  /\ \A i \in Places : i < buffer_idx => command_buffer[i] # NUL
             /\ held = {} => shift_pressed = 0
             /\ held = ShiftKeys => shift_pressed = 1
  <2>1. Running = {}
    BY <1>2, <1>3, OnItsOwn DEF Running
  <2> QED
    BY <1>2, <1>3, <2>1, OnItsOwn DEF ApartInv, LineInv
<1> QED
  BY <1>2, <1>3, GoesBack DEF line, keyboard

\* A character or Backspace, up to the look at buffer_idx.
LEMMA TypeKeeps ==
    ASSUME ShellInv, NEW s \in Stacks, Type(s)
    PROVE  ShellInv'
<1>1. At(s, "type") /\ "type" \in Labels /\ UNCHANGED <<keyboard, line, stage, apart>>
  BY DEF Type, Labels
<1>2. buffer_idx \in Places
  BY <1>1, PastDecoding
<1> QED
  BY <1>1, <1>2, LooksOnly, ReturnsOnly DEF Type, HasPlace

\* A Backspace, which looks at the index and goes on only if it is above 0, keeps the
\* invariant.
LEMMA EraseKeeps ==
    ASSUME ShellInv, NEW s \in Stacks, Erase(s)
    PROVE  ShellInv'
<1>1. At(s, "erase") /\ "erase" \in Labels /\ UNCHANGED <<keyboard, line, stage, apart>>
  BY DEF Erase, Labels
<1>2. buffer_idx \in Places /\ Places = 0 .. MaxCommandLen - 1 /\ MaxCommandLen \in Nat
  BY <1>1, PastDecoding
<1>3. buffer_idx > 0 => buffer_idx - 1 \in Places
  BY <1>2
<1> QED
  BY <1>1, <1>3, LooksOnly, ReturnsOnly DEF Erase, HasChars

\* The character goes into the place that was loaded, which is not the last.
LEMMA StoreCharKeeps ==
    ASSUME ShellInv, NEW s \in Stacks, StoreChar(s)
    PROVE  ShellInv'
<1>1. /\ At(s, "char") /\ "char" \in Labels /\ "count" \in Labels
      /\ command_buffer' = [command_buffer EXCEPT ![Top(s).idx] = Top(s).char]
      /\ Becomes(s, [Top(s) EXCEPT !.pc = "count", !.idx = @ + 1])
      /\ UNCHANGED <<held, shift_pressed, buffer_idx, stage, apart>>
  BY DEF StoreChar, Labels, keyboard
<1>2. /\ TypeOK /\ LastIsNul /\ handler[s] # <<>> /\ ~AtShift(s)
      /\ Top(s) \in InputType /\ Top(s).text \in Seq(Characters)
      /\ Top(s).char \in Characters \cup {NUL} /\ Top(s).idx \in Places
      /\ (\A k : At(s, k) <=> k = "char")
      /\ command_buffer \in [Places -> Characters \cup {NUL}]
      /\ Top(s).idx < MaxCommandLen - 1
      /\ Places = 0 .. MaxCommandLen - 1 /\ MaxCommandLen \in Nat \ {0, 1}
  BY <1>1, PastDecoding
<1>3. PICK i \in Places : i = Top(s).idx /\ i < MaxCommandLen - 1
  BY <1>2
<1>4. i + 1 \in Places /\ MaxCommandLen - 1 \in Places /\ i # MaxCommandLen - 1
  BY <1>2, <1>3
<1>5. PICK h \in Handlers : h = OnTo(Top(s), "count", i + 1) /\ h.pc = "count" /\ h.idx = i + 1
  BY <1>1, <1>2, <1>4, OtherPlace
<1>6. Becomes(s, h)
  <2>1. h = [Top(s) EXCEPT !.pc = "count", !.idx = @ + 1]
    BY <1>2, <1>3, <1>5 DEF OnTo, InputType
  <2> QED
    BY <1>1, <2>1
<1>7. /\ command_buffer' \in [Places -> Characters \cup {NUL}]
      /\ \A j \in Places : command_buffer'[j] = IF j = i THEN Top(s).char ELSE command_buffer[j]
  BY <1>1, <1>2, <1>3
<1>8. LastIsNul'
  BY <1>2, <1>4, <1>7 DEF LastIsNul
<1>9. ASSUME apart, ApartInv
      PROVE  HandlerInv(s)' /\ LineInv'
  <2>1. Running = {}
    BY <1>2, <1>9, OnItsOwn DEF Running
  <2>2. Top(s)' = h /\ (\A k : At(s, k)' <=> k = "count") /\ Running' = {}
    BY <1>2, <1>5, <1>6, <1>9, OneBecomes DEF ApartInv
  <2>3. i = buffer_idx /\ Top(s).char # NUL
    BY <1>1, <1>3, <1>9, KeysAssumption DEF ApartInv, HandlerInv, Characters, NUL
  <2>4. HandlerInv(s)'
    BY <1>1, <1>5, <1>7, <2>2, <2>3 DEF HandlerInv, AtShift
  <2>5. LineInv'
    BY <1>1, <1>7, <1>9, <2>1, <2>3 DEF ApartInv, LineInv
  <2> QED
    BY <2>4, <2>5
<1> QED
  BY <1>1, <1>2, <1>5, <1>6, <1>7, <1>8, <1>9, GoesOn

\* buffer_idx takes the value the handler has for it.
LEMMA StoreCountKeeps ==
    ASSUME ShellInv, NEW s \in Stacks, StoreCount(s)
    PROVE  ShellInv'
<1>1. /\ At(s, "count") /\ "count" \in Labels /\ buffer_idx' = Top(s).idx /\ Return(s)
      /\ UNCHANGED <<held, shift_pressed, command_buffer, stage, apart>>
  BY DEF StoreCount, Labels, keyboard
<1>2. /\ TypeOK /\ handler[s] # <<>> /\ ~AtShift(s) /\ (\A k : At(s, k) <=> k = "count")
      /\ Top(s).idx \in Places /\ buffer_idx \in Places /\ shift_pressed \in {0, 1}
      /\ Places = 0 .. MaxCommandLen - 1
  BY <1>1, PastDecoding
<1>3. PICK n \in Places : n = Top(s).idx
  BY <1>2
<1>4. ASSUME apart, ApartInv
      PROVE  /\ \A i \in Places : i < n => command_buffer[i] # NUL
             /\ held = {} => shift_pressed = 0
             /\ held = ShiftKeys => shift_pressed = 1
  <2>1. Running = {}
    BY <1>2, <1>4, OnItsOwn DEF Running
  <2>2. \A i \in Places : i < buffer_idx => command_buffer[i] # NUL
    BY <1>4, <2>1 DEF ApartInv, LineInv
  <2>3. n = buffer_idx - 1 \/ (n = buffer_idx + 1 /\ command_buffer[buffer_idx] # NUL)
    BY <1>1, <1>3, <1>4 DEF ApartInv, HandlerInv
  <2>4. \A i \in Places : i < n => i < buffer_idx \/ (i = buffer_idx /\ n = buffer_idx + 1)
    BY <1>2, <2>3
  <2>5. n = buffer_idx + 1 => command_buffer[buffer_idx] # NUL
    BY <1>2, <2>3
  <2> QED
    BY <1>2, <1>4, <2>2, <2>4, <2>5, OnItsOwn
<1> QED
  BY <1>1, <1>2, <1>3, <1>4, GoesBack

\* Enter: nothing to run, or the terminator behind the line.
LEMMA EnterKeeps ==
    ASSUME ShellInv, NEW s \in Stacks, Enter(s)
    PROVE  ShellInv'
<1>1. At(s, "enter") /\ "enter" \in Labels /\ "dispatch" \in Labels
      /\ UNCHANGED <<keyboard, stage, apart>>
  BY DEF Enter, Labels
<1>2. CASE buffer_idx = 0
  BY <1>1, <1>2, ReturnsOnly DEF Enter
<1>3. CASE buffer_idx # 0
  <2>1. /\ command_buffer' = [command_buffer EXCEPT ![buffer_idx] = NUL]
        /\ Becomes(s, [Top(s) EXCEPT !.pc = "dispatch"])
        /\ UNCHANGED <<held, shift_pressed, buffer_idx, stage, apart>>
    BY <1>1, <1>3 DEF Enter, Terminate, keyboard
  <2>2. /\ TypeOK /\ LastIsNul /\ handler[s] # <<>> /\ ~AtShift(s)
        /\ Top(s) \in InputType /\ Top(s).text \in Seq(Characters) /\ Top(s).idx \in Places
        /\ (\A k : At(s, k) <=> k = "enter")
        /\ command_buffer \in [Places -> Characters \cup {NUL}] /\ buffer_idx \in Places
        /\ Places = 0 .. MaxCommandLen - 1 /\ MaxCommandLen \in Nat \ {0, 1}
    BY <1>1, PastDecoding
  <2>3. PICK h \in Handlers : h = [Top(s) EXCEPT !.pc = "dispatch"] /\ h.pc = "dispatch"
    BY <1>1, <2>2, OtherLabel
  <2>4. Becomes(s, h)
    BY <2>1, <2>3
  <2>5. /\ command_buffer' \in [Places -> Characters \cup {NUL}]
        /\ \A j \in Places : command_buffer'[j] = IF j = buffer_idx THEN NUL ELSE command_buffer[j]
        /\ MaxCommandLen - 1 \in Places /\ buffer_idx > 0
    BY <1>3, <2>1, <2>2
  <2>6. LastIsNul'
    BY <2>2, <2>5 DEF LastIsNul
  <2>7. ASSUME apart, ApartInv
        PROVE  HandlerInv(s)' /\ LineInv'
    <3>1. Running = {}
      BY <2>2, <2>7, OnItsOwn DEF Running
    <3>2. Top(s)' = h /\ (\A k : At(s, k)' <=> k = "dispatch") /\ Running' = {}
      BY <2>2, <2>3, <2>4, <2>7, OneBecomes DEF ApartInv
    <3>3. HandlerInv(s)'
      BY <2>1, <2>2, <2>5, <3>2 DEF HandlerInv, AtShift
    <3>4. \A j \in Places : j < buffer_idx => j # buffer_idx
      BY <2>2
    <3>5. LineInv'
      BY <2>1, <2>5, <2>7, <3>1, <3>4 DEF ApartInv, LineInv
    <3> QED
      BY <3>3, <3>5
  <2> QED
    BY <2>1, <2>2, <2>3, <2>4, <2>5, <2>6, <2>7, GoesOn
<1> QED
  BY <1>2, <1>3

\* The string in the buffer ends at a terminator, the last place at the latest.
LEMMA TheText ==
    ASSUME TypeOK, LastIsNul
    PROVE  /\ Terminated /\ End \in Places /\ End \in Nat /\ command_buffer[End] = NUL
           /\ \A j \in Places : j < End => command_buffer[j] # NUL
           /\ Text \in Seq(Characters) /\ Text = [i \in 1 .. End |-> command_buffer[i - 1]]
           /\ End > 0 => Text # <<>>
<1>1. /\ Places = 0 .. MaxCommandLen - 1 /\ Places \in SUBSET Nat /\ MaxCommandLen - 1 \in Places
      /\ command_buffer \in [Places -> Characters \cup {NUL}]
  BY LenAssumption DEF Places, TypeOK
<1>2. Terminated
  BY <1>1 DEF Terminated, LastIsNul
<1> DEFINE E == {i \in Places : command_buffer[i] = NUL}
<1>3. \E i \in E : \A j \in E : i <= j
  <2>1. E \in SUBSET Nat /\ E # {}
    BY <1>1, <1>2 DEF Terminated
  <2> HIDE DEF E
  <2> QED
    BY <2>1, FirstOfNumbers
<1>4. PICK i \in Places : command_buffer[i] = NUL /\ \A j \in E : i <= j
  BY <1>3
<1>5. \A j \in Places : j < i => command_buffer[j] # NUL
  <2>1. \A j \in Places : j < i => ~ (i <= j)
    BY <1>1
  <2> QED
    BY <1>4, <2>1
<1>6. End \in Places /\ command_buffer[End] = NUL /\ \A j \in Places : j < End => command_buffer[j] # NUL
  <2>1. \E k \in Places : command_buffer[k] = NUL /\ \A j \in Places : j < k => command_buffer[j] # NUL
    BY <1>4, <1>5
  <2> QED
    BY <2>1 DEF End
<1>7. PICK n \in Places : n = End
  BY <1>6
<1>8. \A k \in 1 .. n : k - 1 \in Places /\ k - 1 < n
  BY <1>1, <1>7
<1>9. \A k \in 1 .. n : command_buffer[k - 1] \in Characters
  BY <1>1, <1>6, <1>7, <1>8
<1>10. [k \in 1 .. n |-> command_buffer[k - 1]] \in Seq(Characters)
  <2>1. n \in Nat
    BY <1>1
  <2> QED
    BY <1>9, <2>1
<1>11. n > 0 => [k \in 1 .. n |-> command_buffer[k - 1]] # <<>>
  <2>1. n > 0 => 1 \in DOMAIN [k \in 1 .. n |-> command_buffer[k - 1]]
    BY <1>1
  <2> QED
    BY <2>1
<1> QED
  BY <1>1, <1>2, <1>6, <1>7, <1>10, <1>11 DEF Text

\* execute_command reading its line up to the terminator keeps the invariant.
LEMMA DispatchKeeps ==
    ASSUME ShellInv, NEW s \in Stacks, Dispatch(s)
    PROVE  ShellInv'
<1>1. /\ At(s, "dispatch") /\ "dispatch" \in Labels /\ "run" \in Labels
      /\ Becomes(s, [Top(s) EXCEPT !.pc = "run", !.text = Text])
      /\ UNCHANGED <<held, shift_pressed, command_buffer, buffer_idx, stage, apart>>
  BY DEF Dispatch, Labels, keyboard, line
<1>2. /\ TypeOK /\ LastIsNul /\ handler[s] # <<>> /\ ~AtShift(s)
      /\ Top(s) \in InputType /\ (\A k : At(s, k) <=> k = "dispatch")
      /\ command_buffer \in [Places -> Characters \cup {NUL}] /\ buffer_idx \in Places
      /\ Places = 0 .. MaxCommandLen - 1 /\ MaxCommandLen \in Nat \ {0, 1}
  BY <1>1, PastDecoding
<1>3. PICK x \in Seq(Characters) : x = Text
  BY <1>2, TheText
<1>4. PICK h \in Handlers : h = Reading(Top(s), "run", x) /\ h.pc = "run" /\ h.text = x
  BY <1>1, <1>2, OtherText
<1>5. Becomes(s, h)
  BY <1>1, <1>3, <1>4 DEF Reading
<1>6. ASSUME apart, ApartInv
      PROVE  HandlerInv(s)' /\ LineInv'
  <2>1. Running = {}
    BY <1>2, <1>6, OnItsOwn DEF Running
  <2>2. Top(s)' = h /\ (\A k : At(s, k)' <=> k = "run") /\ Running' = {s}
    BY <1>2, <1>4, <1>5, <1>6, OneBecomes DEF ApartInv
  <2>3. buffer_idx > 0
    BY <1>1, <1>6 DEF ApartInv, HandlerInv
  <2>4. 0 \in Places /\ command_buffer[0] # NUL
    <3>1. 0 \in Places /\ 0 < buffer_idx
      BY <1>2, <2>3
    <3> QED
      BY <1>6, <2>1, <3>1 DEF ApartInv, LineInv
  <2>5. End > 0
    BY <1>2, <2>4, TheText
  <2>6. x # <<>>
    BY <1>2, <1>3, <2>5, TheText
  <2> QED
    BY <1>4, <2>2, <2>6 DEF HandlerInv, AtShift, LineInv
<1>7. command_buffer' \in [Places -> Characters \cup {NUL}] /\ LastIsNul'
  BY <1>1, <1>2 DEF LastIsNul
<1> QED
  BY <1>1, <1>2, <1>4, <1>5, <1>6, <1>7, GoesOn

\* The command write finding the space behind the name, or none, keeps the invariant.
LEMMA FindSpaceKeeps ==
    ASSUME ShellInv, NEW s \in Stacks, FindSpace(s)
    PROVE  ShellInv'
<1>1. /\ At(s, "run") /\ "run" \in Labels /\ "cut" \in Labels
      /\ UNCHANGED <<held, shift_pressed, command_buffer, buffer_idx, stage, apart>>
  BY DEF FindSpace, Labels, keyboard, line
<1>2. PICK i \in Places : Becomes(s, OnTo(Top(s), "cut", i))
  BY DEF FindSpace, OnTo
<1>3. /\ TypeOK /\ LastIsNul /\ handler[s] # <<>> /\ ~AtShift(s)
      /\ Top(s) \in InputType /\ (\A k : At(s, k) <=> k = "run")
      /\ command_buffer \in [Places -> Characters \cup {NUL}]
  BY <1>1, PastDecoding
<1>4. PICK h \in Handlers : h = OnTo(Top(s), "cut", i) /\ h.pc = "cut" /\ h.text = Top(s).text
  BY <1>1, <1>3, OtherPlace
<1>5. ASSUME apart, ApartInv
      PROVE  HandlerInv(s)' /\ LineInv'
  <2>1. Top(s)' = h /\ (\A k : At(s, k)' <=> k = "cut") /\ Running' = {s}
    BY <1>2, <1>3, <1>4, <1>5, OneBecomes DEF ApartInv
  <2>2. Top(s).text # <<>>
    BY <1>1, <1>5 DEF ApartInv, HandlerInv, Running
  <2> QED
    BY <1>4, <2>1, <2>2 DEF HandlerInv, AtShift, LineInv
<1>6. command_buffer' \in [Places -> Characters \cup {NUL}] /\ LastIsNul'
  BY <1>1, <1>3 DEF LastIsNul
<1> QED
  BY <1>1, <1>2, <1>3, <1>4, <1>5, <1>6, GoesOn

\* The command write storing a terminator over that space keeps the invariant.
LEMMA CutKeeps ==
    ASSUME ShellInv, NEW s \in Stacks, Cut(s)
    PROVE  ShellInv'
<1>1. /\ At(s, "cut") /\ "cut" \in Labels /\ "done" \in Labels
      /\ command_buffer' = [command_buffer EXCEPT ![Top(s).idx] = NUL]
      /\ Becomes(s, [Top(s) EXCEPT !.pc = "done"])
      /\ UNCHANGED <<held, shift_pressed, buffer_idx, stage, apart>>
  BY DEF Cut, Labels, keyboard
<1>2. /\ TypeOK /\ LastIsNul /\ handler[s] # <<>> /\ ~AtShift(s)
      /\ Top(s) \in InputType /\ (\A k : At(s, k) <=> k = "cut") /\ Top(s).idx \in Places
      /\ command_buffer \in [Places -> Characters \cup {NUL}]
      /\ Places = 0 .. MaxCommandLen - 1 /\ MaxCommandLen \in Nat \ {0, 1}
  BY <1>1, PastDecoding
<1>3. PICK h \in Handlers :
         h = [Top(s) EXCEPT !.pc = "done"] /\ h.pc = "done" /\ h.text = Top(s).text
  BY <1>1, <1>2, OtherLabel
<1>4. Becomes(s, h)
  BY <1>1, <1>3
<1>5. ASSUME apart, ApartInv
      PROVE  HandlerInv(s)' /\ LineInv'
  <2>1. Top(s)' = h /\ (\A k : At(s, k)' <=> k = "done") /\ Running' = {s}
    BY <1>2, <1>3, <1>4, <1>5, OneBecomes DEF ApartInv
  <2>2. Top(s).text # <<>>
    BY <1>1, <1>5 DEF ApartInv, HandlerInv, Running
  <2> QED
    BY <1>3, <2>1, <2>2 DEF HandlerInv, AtShift, LineInv
<1>6. /\ command_buffer' \in [Places -> Characters \cup {NUL}] /\ MaxCommandLen - 1 \in Places
      /\ \A j \in Places : command_buffer'[j] = IF j = Top(s).idx THEN NUL ELSE command_buffer[j]
  BY <1>1, <1>2
<1>7. LastIsNul'
  BY <1>2, <1>6 DEF LastIsNul
<1> QED
  BY <1>1, <1>2, <1>3, <1>4, <1>5, <1>6, <1>7, GoesOn

\* The end of a command, which empties the line, keeps the invariant.
LEMMA FinishKeeps ==
    ASSUME ShellInv, NEW s \in Stacks, Finish(s)
    PROVE  ShellInv'
<1>1. /\ At(s, "run") \/ At(s, "done")
      /\ {"run", "done"} \subseteq Labels /\ buffer_idx' = 0 /\ Return(s)
      /\ UNCHANGED <<held, shift_pressed, command_buffer, stage, apart>>
  BY DEF Finish, Labels, keyboard
<1>2. /\ TypeOK /\ handler[s] # <<>> /\ ~AtShift(s) /\ shift_pressed \in {0, 1}
      /\ Places = 0 .. MaxCommandLen - 1 /\ MaxCommandLen \in Nat \ {0, 1}
  BY <1>1, PastDecoding
<1>3. 0 \in Places /\ \A i \in Places : ~ (i < 0)
  BY <1>2
<1> QED
  BY <1>1, <1>2, <1>3, OnItsOwn, GoesBack

\* create_task and shell_init in kernel_main keep the invariant.
LEMMA MainKeeps ==
    ASSUME ShellInv, CreateTask \/ ShellInit \/ UNCHANGED vars
    PROVE  ShellInv'
<1>1. /\ UNCHANGED <<held, shift_pressed, command_buffer, handler>>
      /\ stage' \in {"boot", "tasks", "ready"}
      /\ buffer_idx' \in {0, buffer_idx} /\ apart' \in {apart, apart /\ Idle}
  BY DEF CreateTask, ShellInit, vars, keyboard, line, ShellInv, TypeOK
<1>2. buffer_idx' # buffer_idx => ShellInit /\ apart' = (apart /\ Idle)
  BY DEF CreateTask, ShellInit, vars, line
<1>3. Places = 0 .. MaxCommandLen - 1 /\ MaxCommandLen \in Nat \ {0, 1}
  BY LenAssumption DEF Places
<1>4. TypeOK'
  <2>1. buffer_idx' \in Places
    BY <1>1, <1>3 DEF ShellInv, TypeOK
  <2>2. apart' \in BOOLEAN
    BY <1>1 DEF ShellInv, TypeOK, Idle
  <2> QED
    BY <1>1, <2>1, <2>2 DEF ShellInv, TypeOK
<1>5. LastIsNul' /\ StoresFit'
  BY <1>1 DEF ShellInv, LastIsNul, StoresFit
<1>6. ASSUME apart' PROVE ApartInv'
  <2>1. apart /\ ApartInv
    BY <1>1, <1>6 DEF ShellInv, ApartInv
  <2>2. CASE buffer_idx' = buffer_idx
    BY <1>1, <2>1, <2>2 DEF ApartInv, Alone, HandlerInv, AtShift, At, Top, Running, LineInv, KeysInv
  <2>3. CASE buffer_idx' # buffer_idx
    <3>1. \A t \in Stacks : handler[t] = <<>> /\ handler'[t] = <<>>
      BY <1>1, <1>2, <1>6, <2>3 DEF Idle
    <3>2. \A t \in Stacks : \A l : ~At(t, l) /\ ~At(t, l)'
      BY <3>1 DEF At
    <3>3. (\A t \in Stacks : HandlerInv(t)') /\ \A t \in Stacks : ~AtShift(t)
      BY <3>2, NobodyOpen DEF AtShift
    <3>4. Alone' /\ KeysInv'
      BY <1>1, <2>1, <3>1, <3>3 DEF ApartInv, Alone, KeysInv
    <3>5. \A i \in Places : ~ (i < 0)
      BY <1>3
    <3>6. LineInv'
      BY <1>1, <2>3, <3>5 DEF LineInv
    <3> QED
      BY <3>3, <3>4, <3>6 DEF ApartInv
  <2> QED
    BY <2>2, <2>3
<1> QED
  BY <1>4, <1>5, <1>6 DEF ShellInv, ApartInv

\* Every step of the keyboard driver and of the shell keeps the invariant.
LEMMA NextKeepsShell ==
    ASSUME ShellInv, [Next]_vars
    PROVE  ShellInv'
<1>1. ASSUME NEW s \in Stacks, Handler(s) PROVE ShellInv'
  BY <1>1, DecodeShiftKeeps, DecodeKeeps, TypeKeeps, StoreCharKeeps, EraseKeeps, StoreCountKeeps,
     EnterKeeps, DispatchKeeps, FindSpaceKeeps, CutKeeps, FinishKeeps DEF Handler
<1> QED
  BY <1>1, KeyKeeps, MainKeeps DEF Next

(***************************************************************************)
(* The inductive invariant, whatever interrupts what.                      *)
(***************************************************************************)
THEOREM ShellInvariant == Spec => []ShellInv
<1>1. ShellInv /\ [Next]_vars => ShellInv'
  BY NextKeepsShell
<1> QED
  BY <1>1, InitiallyShell, PTL DEF Spec

(***************************************************************************)
(* buffer_idx, and the place of every character and terminator the shell   *)
(* stores, stay inside command_buffer (shell.c, 40 and 80-82), however     *)
(* handlers nest and tasks preempt them.                                   *)
(***************************************************************************)
THEOREM ShellTypeCorrect == Spec => []TypeOK
<1>1. ShellInv => TypeOK
  BY DEF ShellInv
<1> QED
  BY <1>1, ShellInvariant, PTL

(***************************************************************************)
(* A command that looks for the end of its line finds it in the buffer,    *)
(* whatever other keys have done to the line meanwhile.                    *)
(***************************************************************************)
THEOREM EndIsFound == Spec => []CommandsFindTheEnd
<1>1. ShellInv => CommandsFindTheEnd
  BY TheText DEF ShellInv, CommandsFindTheEnd
<1> QED
  BY <1>1, ShellInvariant, PTL

(***************************************************************************)
(* As long as keys do not overtake each other, keyboard.c's shift_pressed  *)
(* is 0 when no Shift key is down and 1 when all are.                      *)
(***************************************************************************)
THEOREM ShiftIsFollowed == Spec => []ShiftFollowsKeys
<1>1. ASSUME ShellInv PROVE ShiftFollowsKeys
  <2>1. Idle => \A s \in Stacks : ~AtShift(s)
    BY DEF Idle, AtShift, At
  <2> QED
    BY <1>1, <2>1 DEF ShellInv, KeysInv, ShiftFollowsKeys
<1> QED
  BY <1>1, ShellInvariant, PTL

----------------------------------------------------------------------------
(* The shell implements LineEditor.                                        *)

\* The first characters of the buffer, as a line, with one more or one less.
Begins(b, n) == [i \in 1 .. n |-> b[i - 1]]

\* The first n characters of the buffer are a line of n characters.
LEMMA LineOf ==
    ASSUME NEW T, NEW n \in Nat, NEW b, \A i \in 1 .. n : b[i - 1] \in T
    PROVE  LET q == [i \in 1 .. n |-> b[i - 1]]
           IN  q \in Seq(T) /\ Len(q) = n /\ (n > 0 => q # <<>>) /\ (n = 0 => q = <<>>)
<1> DEFINE q == [i \in 1 .. n |-> b[i - 1]]
<1>1. q \in Seq(T) /\ Len(q) = n
  OBVIOUS
<1>2. n > 0 => q # <<>>
  BY <1>1
<1>3. n = 0 => q = <<>>
  BY <1>1, EmptySeq
<1> QED
  BY <1>1, <1>2, <1>3

\* A character stored behind the first n makes the line one longer, at its end.
LEMMA LineGrows ==
    ASSUME NEW T, NEW n \in Nat, NEW b, \A i \in 1 .. n + 1 : b[i - 1] \in T
    PROVE  [i \in 1 .. n + 1 |-> b[i - 1]] = Append([i \in 1 .. n |-> b[i - 1]], b[n])
<1> DEFINE q == [i \in 1 .. n |-> b[i - 1]]
           r == [i \in 1 .. n + 1 |-> b[i - 1]]
<1>1. b[n] \in T /\ \A i \in 1 .. n : b[i - 1] \in T
  <2>1. n + 1 \in 1 .. n + 1 /\ n + 1 - 1 = n /\ 1 .. n \subseteq 1 .. n + 1
    OBVIOUS
  <2> QED
    BY <2>1
<1>2. q \in Seq(T) /\ Len(q) = n /\ r \in Seq(T) /\ Len(r) = n + 1
  BY <1>1
<1>3. /\ Append(q, b[n]) \in Seq(T) /\ Len(Append(q, b[n])) = n + 1
      /\ \A i \in 1 .. n : Append(q, b[n])[i] = q[i]
      /\ Append(q, b[n])[n + 1] = b[n]
  BY <1>1, <1>2, AppendProperties
<1>4. \A i \in 1 .. n + 1 : r[i] = Append(q, b[n])[i]
  <2> SUFFICES ASSUME NEW i \in 1 .. n + 1 PROVE b[i - 1] = Append(q, b[n])[i]
    OBVIOUS
  <2>1. CASE i \in 1 .. n
    BY <1>3, <2>1
  <2>2. CASE i = n + 1
    BY <1>3, <2>2
  <2> QED
    BY <2>1, <2>2
<1> HIDE DEF q, r
<1>5. r = Append(q, b[n])
  BY <1>2, <1>3, <1>4, SeqEqual
<1> QED
  BY <1>5 DEF q, r

\* The line without its last character is the first n - 1 characters of the buffer.
LEMMA LineShrinks ==
    ASSUME NEW T, NEW n \in Nat \ {0}, NEW b, \A i \in 1 .. n : b[i - 1] \in T
    PROVE  Begins(b, n - 1) = Front(Begins(b, n))
<1> DEFINE q == [i \in 1 .. n |-> b[i - 1]]
           r == [i \in 1 .. n - 1 |-> b[i - 1]]
<1>1. \A i \in 1 .. n - 1 : b[i - 1] \in T
  <2>1. 1 .. n - 1 \subseteq 1 .. n
    OBVIOUS
  <2> QED
    BY <2>1
<1>2. q \in Seq(T) /\ Len(q) = n
  OBVIOUS
<1>3. r \in Seq(T) /\ Len(r) = n - 1
  <2>1. n - 1 \in Nat
    OBVIOUS
  <2> QED
    BY <1>1, <2>1
<1>4. /\ Front(q) \in Seq(T) /\ Len(Front(q)) = n - 1
      /\ \A i \in 1 .. n - 1 : Front(q)[i] = q[i]
  <2>1. q # <<>>
    BY <1>2
  <2> HIDE DEF q
  <2> QED
    BY <1>2, <2>1, FrontElements
<1>5. \A i \in 1 .. n - 1 : r[i] = Front(q)[i]
  BY <1>4
<1> HIDE DEF q, r
<1>6. r = Front(q)
  BY <1>3, <1>4, <1>5, SeqEqual
<1> QED
  BY <1>6 DEF q, r, Begins

\* What the editor sees of a handler on its own.
LEMMA Seen ==
    ASSUME TypeOK, ApartInv
    PROVE  /\ \A s \in Stacks : \A l \in {"run", "cut", "done"} : At(s, l) =>
                 Running = {s} /\ RunningLine = Top(s).text /\ TypedLine = <<>> /\ Top(s).text # <<>>
           /\ Running = {} =>
                 /\ RunningLine = <<>>
                 /\ TypedLine = [i \in 1 .. buffer_idx |-> command_buffer[i - 1]]
                 /\ \A i \in 1 .. buffer_idx : command_buffer[i - 1] \in Characters
<1>1. ASSUME NEW s \in Stacks, NEW l \in {"run", "cut", "done"}, At(s, l)
      PROVE  Running = {s} /\ RunningLine = Top(s).text /\ TypedLine = <<>> /\ Top(s).text # <<>>
  <2>1. s \in Running /\ \A t \in Stacks : t # s => t \notin Running
    BY <1>1 DEF ApartInv, Alone, Running, At
  <2>2. Running = {s}
    BY <2>1 DEF Running
  <2>3. Top(s).text # <<>>
    BY <2>1 DEF ApartInv, HandlerInv
  <2>4. (CHOOSE t \in Running : TRUE) = s
    BY <2>2
  <2> QED
    BY <2>2, <2>3, <2>4 DEF RunningLine, TypedLine
<1>2. ASSUME Running = {}
      PROVE  \A i \in 1 .. buffer_idx : command_buffer[i - 1] \in Characters
  <2>1. /\ Places = 0 .. MaxCommandLen - 1 /\ buffer_idx \in Places /\ MaxCommandLen \in Nat
        /\ command_buffer \in [Places -> Characters \cup {NUL}]
    BY LenAssumption DEF TypeOK, Places
  <2>2. \A i \in 1 .. buffer_idx : i - 1 \in Places /\ i - 1 < buffer_idx
    BY <2>1
  <2> QED
    BY <1>2, <2>1, <2>2 DEF ApartInv, LineInv
<1> QED
  BY <1>1, <1>2 DEF RunningLine, TypedLine

\* What it sees stays the same if the line does, while no command runs.
LEMMA SeenTheSame ==
    ASSUME ShellInv, Running = {}, Running' = {}, buffer_idx' = buffer_idx,
           \A i \in Places : i < buffer_idx => command_buffer'[i] = command_buffer[i]
    PROVE  UNCHANGED Editor!vars
<1>1. Places = 0 .. MaxCommandLen - 1 /\ buffer_idx \in Places /\ MaxCommandLen \in Nat
  BY LenAssumption DEF ShellInv, TypeOK, Places
<1>2. \A i \in 1 .. buffer_idx : i - 1 \in Places /\ i - 1 < buffer_idx
  BY <1>1
<1>3. TypedLine' = TypedLine
  BY <1>2 DEF TypedLine
<1>4. RunningLine' = RunningLine
  BY DEF RunningLine
<1> QED
  BY <1>3, <1>4 DEF Editor!vars

\* A handler that is past the decoding and on its own, before a command runs.
LEMMA NoneRuns ==
    ASSUME TypeOK, ApartInv, NEW s \in Stacks, NEW l, At(s, l),
           l \notin {"run", "cut", "done"}
    PROVE  Running = {}
<1>1. \A t \in Stacks \ {s} : handler[t] = <<>>
  BY DEF ApartInv, Alone, At
<1>2. \A m \in {"run", "cut", "done"} : ~At(s, m)
  BY DEF At
<1> QED
  BY <1>1, <1>2 DEF Running, At

\* It goes on or returns, and no command runs.
LEMMA NoneRunsThen ==
    ASSUME TypeOK, ApartInv, NEW s \in Stacks, NEW l, At(s, l),
           l \notin {"run", "cut", "done"},
           Return(s) \/ \E h : Becomes(s, h) /\ h.pc \notin {"run", "cut", "done"}
    PROVE  Running' = {}
<1>1. handler[s] # <<>> /\ Alone
  BY DEF At, ApartInv
<1>2. CASE Return(s)
  BY <1>1, <1>2, OneReturns, NobodyOpen
<1>3. ASSUME NEW h, Becomes(s, h), h.pc \notin {"run", "cut", "done"}
      PROVE  Running' = {}
  BY <1>1, <1>3, OneBecomes
<1> QED
  BY <1>2, <1>3

\* A key that comes finds no command running.
LEMMA KeyShowsNothing ==
    ASSUME ShellInv, ShellInv', apart', NEW s \in Stacks, Key(s)
    PROVE  UNCHANGED Editor!vars
<1>1. PICK code \in Codes : handler' = [handler EXCEPT ![s] = Append(@, KeyHandler(code))]
  BY DEF Key
<1>2. /\ \A t \in Stacks : handler[t] = <<>>
      /\ UNCHANGED <<command_buffer, buffer_idx>>
  BY DEF Key, Idle, line
<1>3. handler \in [Stacks -> Seq(Handlers)] /\ KeyHandler(code).pc = "decode"
  BY DEF ShellInv, TypeOK, KeyHandler
<1>4. KeyHandler(code) \in Handlers
  BY DEF KeyHandler, Handlers
<1>5. Last(handler'[s]) = KeyHandler(code) /\ \A t \in Stacks \ {s} : handler'[t] = <<>>
  BY <1>1, <1>2, <1>3, <1>4, StackPush DEF Last
<1>6. Running = {} /\ Running' = {}
  BY <1>2, <1>3, <1>4, <1>5 DEF Running, At
<1> QED
  BY <1>2, <1>6, SeenTheSame

\* A handler before it stores its count or runs a command shows nothing: the
\* places it writes are behind the line.
LEMMA HandlerShowsNothing ==
    ASSUME ShellInv, apart', NEW s \in Stacks,
           DecodeShift(s) \/ Decode(s) \/ Type(s) \/ StoreChar(s) \/ Erase(s) \/ Enter(s)
    PROVE  UNCHANGED Editor!vars
<1>1. /\ TypeOK /\ apart /\ ApartInv /\ buffer_idx' = buffer_idx
      /\ buffer_idx \in Places /\ Places = 0 .. MaxCommandLen - 1 /\ MaxCommandLen \in Nat
      /\ command_buffer \in [Places -> Characters \cup {NUL}]
  BY LenAssumption DEF ShellInv, ApartInv, TypeOK, DecodeShift, Decode, Type, StoreChar, Erase,
                       Enter, Places, line
<1>2. \A i \in Places : i < buffer_idx => i # buffer_idx
  BY <1>1
<1>3. Running = {} /\ Running' = {}
  <2>1. ASSUME NEW l \in {"decode", "type", "char", "erase", "enter"}, At(s, l),
               \/ Return(s)
               \/ \E h : Becomes(s, h) /\ h.pc \in {"type", "char", "count", "erase", "enter", "dispatch"}
        PROVE  Running = {} /\ Running' = {}
    BY <1>1, <2>1, NoneRuns, NoneRunsThen
  <2>2. ASSUME NEW l, At(s, l), handler[s] # <<>>, l # "decode", NEW m, NEW i
        PROVE  [Top(s) EXCEPT !.pc = m].pc = m /\ OnTo(Top(s), m, i).pc = m
    <3>1. Top(s) \in InputType
      BY <1>1, <2>2, TopHandler DEF At, Top
    <3> QED
      BY <3>1 DEF InputType, OnTo
  <2>3. ASSUME NEW l, At(s, l) PROVE handler[s] # <<>>
    BY <2>3 DEF At
  <2>4. CASE DecodeShift(s)
    BY <2>1, <2>4 DEF DecodeShift
  <2>5. CASE Decode(s)
    <3>1. /\ At(s, "decode")
          /\ \E h : Becomes(s, h) /\ h.pc \in {"enter", "erase", "type"}
      BY <2>5, DecodesTo
    <3> QED
      BY <2>1, <3>1
  <2>6. CASE Type(s)
    <3>1. At(s, "type") /\ (Return(s) \/ Becomes(s, OnTo(Top(s), "char", buffer_idx)))
      BY <2>6 DEF Type, OnTo
    <3> QED
      BY <2>1, <2>2, <2>3, <3>1
  <2>7. CASE StoreChar(s)
    <3>1. At(s, "char") /\ Becomes(s, OnTo(Top(s), "count", Top(s).idx + 1))
      <4>1. At(s, "char") /\ Becomes(s, [Top(s) EXCEPT !.pc = "count", !.idx = @ + 1])
        BY <2>7 DEF StoreChar
      <4>2. Top(s) \in InputType
        BY <1>1, <4>1, TopHandler DEF At, Top
      <4>3. [Top(s) EXCEPT !.pc = "count", !.idx = @ + 1] = OnTo(Top(s), "count", Top(s).idx + 1)
        BY <4>2 DEF OnTo, InputType
      <4> QED
        BY <4>1, <4>3
    <3> QED
      BY <2>1, <2>2, <2>3, <3>1
  <2>8. CASE Erase(s)
    <3>1. At(s, "erase") /\ (Return(s) \/ Becomes(s, OnTo(Top(s), "count", buffer_idx - 1)))
      BY <2>8 DEF Erase, OnTo
    <3> QED
      BY <2>1, <2>2, <2>3, <3>1
  <2>9. CASE Enter(s)
    <3>1. At(s, "enter") /\ (Return(s) \/ Becomes(s, [Top(s) EXCEPT !.pc = "dispatch"]))
      BY <2>9 DEF Enter
    <3> QED
      BY <2>1, <2>2, <2>3, <3>1
  <2> QED
    BY <2>4, <2>5, <2>6, <2>7, <2>8, <2>9
<1>4. \A i \in Places : i < buffer_idx => command_buffer'[i] = command_buffer[i]
  <2>1. CASE StoreChar(s)
    <3>1. Top(s).idx = buffer_idx
      BY <1>1, <2>1 DEF StoreChar, ApartInv, HandlerInv
    <3> QED
      BY <1>1, <1>2, <2>1, <3>1 DEF StoreChar
  <2>2. CASE Enter(s)
    BY <1>1, <1>2, <2>2 DEF Enter, Terminate, line
  <2>3. CASE DecodeShift(s) \/ Decode(s) \/ Type(s) \/ Erase(s)
    BY <2>3 DEF DecodeShift, Decode, Type, Erase, line
  <2> QED
    BY <2>1, <2>2, <2>3
<1> QED
  BY <1>1, <1>3, <1>4, SeenTheSame

\* The count that a handler stores makes the line one longer or one shorter.
LEMMA StoreCountShows ==
    ASSUME ShellInv, ShellInv', apart', NEW s \in Stacks, StoreCount(s)
    PROVE  [Editor!Next]_(Editor!vars)
<1>1. /\ At(s, "count") /\ "count" \in Labels /\ buffer_idx' = Top(s).idx /\ Return(s)
      /\ UNCHANGED <<command_buffer, apart>>
  BY DEF StoreCount, Labels
<1>2. /\ TypeOK /\ apart /\ ApartInv
      /\ Top(s).idx \in Places /\ buffer_idx \in Places
      /\ Places = 0 .. MaxCommandLen - 1 /\ MaxCommandLen \in Nat
  BY <1>1, PastDecoding DEF ShellInv, ApartInv
<1>3. Running = {} /\ Running' = {}
  BY <1>1, <1>2, NoneRuns, NoneRunsThen
<1>4. PICK n \in Nat : n = buffer_idx /\ n <= MaxCommandLen - 1
  BY <1>2
<1>5. /\ TypedLine = [i \in 1 .. n |-> command_buffer[i - 1]]
      /\ TypedLine' = [i \in 1 .. buffer_idx' |-> command_buffer[i - 1]]
      /\ RunningLine = <<>> /\ RunningLine' = <<>>
      /\ \A i \in 1 .. n : command_buffer[i - 1] \in Characters
  BY <1>1, <1>2, <1>3, <1>4, Seen DEF TypedLine, RunningLine
<1>6. \A i \in 1 .. buffer_idx' : command_buffer[i - 1] \in Characters
  <2>1. \A i \in 1 .. buffer_idx' : i - 1 \in Places /\ i - 1 < buffer_idx'
    BY <1>1, <1>2
  <2>2. \A i \in Places : i < buffer_idx' => command_buffer[i] # NUL
    BY <1>1, <1>3 DEF ShellInv, LineInv
  <2> QED
    BY <2>1, <2>2 DEF ShellInv, TypeOK
<1>7. PICK m \in Places : m = buffer_idx'
  BY <1>1, <1>2
<1>8. m = n + 1 \/ m = n - 1
  BY <1>1, <1>2, <1>4, <1>7 DEF ApartInv, HandlerInv
<1>9. CASE m = n + 1
  <2>1. /\ TypedLine' = [i \in 1 .. n + 1 |-> command_buffer[i - 1]]
        /\ \A i \in 1 .. n + 1 : command_buffer[i - 1] \in Characters
    BY <1>5, <1>6, <1>7, <1>9
  <2>2. TypedLine' = Append(TypedLine, command_buffer[n])
    BY <1>5, <2>1, LineGrows
  <2>3. command_buffer[n] \in Characters
    <3>1. n + 1 \in 1 .. n + 1 /\ n + 1 - 1 = n
      OBVIOUS
    <3> QED
      BY <2>1, <3>1
  <2>4. Len(TypedLine) < MaxCommandLen - 1
    <3>1. Len(TypedLine) = n
      BY <1>5, LineOf
    <3>2. n < MaxCommandLen - 1
      BY <1>2, <1>7, <1>9
    <3> QED
      BY <3>1, <3>2
  <2> QED
    BY <1>5, <2>2, <2>3, <2>4 DEF Editor!Next, Editor!Type
<1>10. CASE m = n - 1
  <2>1. n \in Nat \ {0}
    BY <1>2, <1>7, <1>10
  <2>2. TypedLine' = [i \in 1 .. n - 1 |-> command_buffer[i - 1]]
    BY <1>5, <1>7, <1>10
  <2>3. TypedLine' = Front(TypedLine)
    <3>1. \A i \in 1 .. n : command_buffer[i - 1] \in Characters
      BY <1>5
    <3>2. Begins(command_buffer, n - 1) = Front(Begins(command_buffer, n))
      BY <2>1, <3>1, LineShrinks
    <3>3. TypedLine = Begins(command_buffer, n) /\ TypedLine' = Begins(command_buffer, n - 1)
      BY <1>5, <2>2 DEF Begins
    <3> QED
      BY <3>2, <3>3
  <2>4. TypedLine # <<>>
    BY <1>5, <2>1, LineOf
  <2>5. Editor!Front(TypedLine) = Front(TypedLine)
    BY DEF Front, Editor!Front
  <2> QED
    BY <1>5, <2>3, <2>4, <2>5 DEF Editor!Next, Editor!Erase
<1> QED
  BY <1>8, <1>9, <1>10

\* The comparison with the commands' names submits the line.
LEMMA DispatchShows ==
    ASSUME ShellInv, ShellInv', apart', NEW s \in Stacks, Dispatch(s)
    PROVE  [Editor!Next]_(Editor!vars)
<1>1. /\ At(s, "dispatch") /\ "dispatch" \in Labels /\ "run" \in Labels
      /\ Becomes(s, [Top(s) EXCEPT !.pc = "run", !.text = Text])
      /\ UNCHANGED <<command_buffer, buffer_idx, apart>>
  BY DEF Dispatch, Labels, line
<1>2. /\ TypeOK /\ LastIsNul /\ apart /\ ApartInv /\ handler[s] # <<>>
      /\ Top(s) \in InputType /\ buffer_idx \in Places
      /\ Places = 0 .. MaxCommandLen - 1 /\ MaxCommandLen \in Nat
  BY <1>1, PastDecoding DEF ShellInv, ApartInv
<1>3. Running = {}
  BY <1>1, <1>2, NoneRuns
<1>4. buffer_idx > 0 /\ command_buffer[buffer_idx] = NUL
  BY <1>1, <1>2 DEF ApartInv, HandlerInv
<1>5. /\ TypedLine = [i \in 1 .. buffer_idx |-> command_buffer[i - 1]] /\ RunningLine = <<>>
      /\ \A i \in Places : i < buffer_idx => command_buffer[i] # NUL
  BY <1>2, <1>3, Seen DEF ApartInv, LineInv
<1>6. End = buffer_idx
  <2>1. ~ (End < buffer_idx)
    BY <1>2, <1>5, TheText
  <2>2. ~ (buffer_idx < End)
    BY <1>2, <1>4, TheText
  <2> QED
    BY <1>2, <2>1, <2>2, TheText
<1>7. TypedLine = Text /\ Text \in Seq(Characters) /\ Text # <<>>
  BY <1>2, <1>4, <1>5, <1>6, TheText
<1>8. PICK x \in Seq(Characters) : x = Text
  BY <1>7
<1>9. PICK h \in Handlers : h = Reading(Top(s), "run", x) /\ h.pc = "run" /\ h.text = x
  BY <1>1, <1>2, OtherText
<1>10. Becomes(s, h)
  BY <1>1, <1>8, <1>9 DEF Reading
<1>11. Running' = {s} /\ Top(s)' = h
  BY <1>2, <1>9, <1>10, OneBecomes DEF ApartInv
<1>12. TypedLine' = <<>> /\ RunningLine' = x
  <2>1. (CHOOSE t \in Running' : TRUE) = s
    BY <1>11
  <2> QED
    BY <1>9, <1>11, <2>1 DEF TypedLine, RunningLine
<1> QED
  BY <1>5, <1>7, <1>8, <1>12 DEF Editor!Next, Editor!Submit

\* While a command looks for the space and cuts the line there, and when it is
\* over.
LEMMA CommandShows ==
    ASSUME ShellInv, ShellInv', apart', NEW s \in Stacks, FindSpace(s) \/ Cut(s) \/ Finish(s)
    PROVE  [Editor!Next]_(Editor!vars)
<1>1. PICK l \in {"run", "cut", "done"} : At(s, l)
  BY DEF FindSpace, Cut, Finish
<1>2. /\ TypeOK /\ apart /\ ApartInv /\ handler[s] # <<>> /\ Top(s) \in InputType /\ l \in Labels
  <2>1. l \in Labels
    BY DEF Labels
  <2>2. apart
    BY DEF FindSpace, Cut, Finish
  <2> QED
    BY <1>1, <2>1, <2>2, PastDecoding DEF ShellInv, ApartInv
<1>3. RunningLine = Top(s).text /\ TypedLine = <<>> /\ Top(s).text # <<>>
  BY <1>1, <1>2, Seen
<1>4. ASSUME NEW h, Becomes(s, h), h.pc \in {"cut", "done"}, h.text = Top(s).text
      PROVE  UNCHANGED Editor!vars
  <2>1. Running' = {s} /\ Top(s)' = h
    BY <1>2, <1>4, OneBecomes DEF ApartInv
  <2>2. (CHOOSE t \in Running' : TRUE) = s
    BY <2>1
  <2>3. TypedLine' = <<>> /\ RunningLine' = Top(s).text
    BY <1>4, <2>1, <2>2 DEF TypedLine, RunningLine
  <2> QED
    BY <1>3, <2>3 DEF Editor!vars
<1>5. CASE FindSpace(s)
  <2>1. PICK i \in Places : Becomes(s, OnTo(Top(s), "cut", i))
    BY <1>5 DEF FindSpace, OnTo
  <2>2. OnTo(Top(s), "cut", i).pc = "cut" /\ OnTo(Top(s), "cut", i).text = Top(s).text
    BY <1>2, OtherPlace DEF Labels
  <2> QED
    BY <1>4, <2>1, <2>2
<1>6. CASE Cut(s)
  <2>1. Becomes(s, [Top(s) EXCEPT !.pc = "done"])
    BY <1>6 DEF Cut
  <2>2. [Top(s) EXCEPT !.pc = "done"].pc = "done" /\ [Top(s) EXCEPT !.pc = "done"].text = Top(s).text
    BY <1>2 DEF InputType
  <2> QED
    BY <1>4, <2>1, <2>2
<1>7. CASE Finish(s)
  <2>1. Return(s) /\ buffer_idx' = 0
    BY <1>7 DEF Finish
  <2>2. Running' = {}
    BY <1>2, <2>1, OneReturns, NobodyOpen DEF ApartInv
  <2>3. RunningLine' = <<>> /\ TypedLine' = <<>>
    <3>1. TypedLine' = [i \in 1 .. 0 |-> command_buffer'[i - 1]]
      BY <2>1, <2>2 DEF TypedLine
    <3>2. [i \in 1 .. 0 |-> command_buffer'[i - 1]] = <<>>
      BY LineOf
    <3> QED
      BY <2>2, <3>1, <3>2 DEF RunningLine
  <2> QED
    BY <1>3, <2>3 DEF Editor!Next, Editor!Finish
<1> QED
  BY <1>5, <1>6, <1>7

\* create_task and shell_init leave an empty line: nothing is edited.
LEMMA MainShows ==
    ASSUME ShellInv, ShellInv', apart', CreateTask \/ ShellInit \/ UNCHANGED vars
    PROVE  [Editor!Next]_(Editor!vars)
<1>1. CASE CreateTask \/ UNCHANGED vars
  <2>1. UNCHANGED <<command_buffer, buffer_idx, handler>>
    BY <1>1 DEF CreateTask, vars, line
  <2>2. TypedLine' = TypedLine /\ RunningLine' = RunningLine
    BY <2>1 DEF TypedLine, RunningLine, Running, At, Top
  <2> QED
    BY <2>2 DEF Editor!vars
<1>2. CASE ShellInit
  <2>1. /\ buffer_idx' = 0 /\ UNCHANGED <<command_buffer, handler>>
        /\ \A t \in Stacks : handler[t] = <<>>
    BY <1>2 DEF ShellInit, Idle
  <2>2. Running = {} /\ Running' = {}
    BY <2>1 DEF Running, At
  <2>3. RunningLine = <<>> /\ RunningLine' = <<>>
    BY <2>2 DEF RunningLine
  <2>4. TypedLine' = <<>>
    <3>1. TypedLine' = [i \in 1 .. 0 |-> command_buffer'[i - 1]]
      BY <2>1, <2>2 DEF TypedLine
    <3>2. [i \in 1 .. 0 |-> command_buffer'[i - 1]] = <<>>
      BY LineOf
    <3> QED
      BY <3>1, <3>2
  <2> QED
    BY <2>3, <2>4 DEF Editor!Next, Editor!Start
<1> QED
  BY <1>1, <1>2

(***************************************************************************)
(* As long as no key is struck while another one is being handled, what    *)
(* keyboard_handler and shell_input do is what a LineEditor does: each     *)
(* command runs whole and once, as it was typed.                           *)
(***************************************************************************)
THEOREM EditsAsTyped == Spec => EditsLines
<1>1. Init => Editor!Init
  <2> SUFFICES ASSUME Init PROVE TypedLine = <<>> /\ RunningLine = <<>>
    BY DEF Editor!Init
  <2>1. Running = {} /\ buffer_idx = 0
    BY DEF Init, Running, At
  <2>2. TypedLine = [i \in 1 .. 0 |-> command_buffer[i - 1]] /\ RunningLine = <<>>
    BY <2>1 DEF TypedLine, RunningLine
  <2>3. [i \in 1 .. 0 |-> command_buffer[i - 1]] = <<>>
    BY LineOf
  <2> QED
    BY <2>2, <2>3
<1>2. ASSUME ShellInv, ShellInv', [Next]_vars, apart'
      PROVE  [Editor!Next]_(Editor!vars)
  <2>1. ASSUME NEW s \in Stacks, Handler(s) PROVE [Editor!Next]_(Editor!vars)
    BY <1>2, <2>1, HandlerShowsNothing, StoreCountShows, DispatchShows, CommandShows DEF Handler
  <2> QED
    BY <1>2, <2>1, KeyShowsNothing, MainShows DEF Next
<1>3. ShellInv /\ ShellInv' /\ [Next]_vars => [apart' => [Editor!Next]_(Editor!vars)]_vars
  BY <1>2
<1> QED
  BY <1>1, <1>3, ShellInvariant, PTL DEF Spec, EditsLines
=============================================================================
