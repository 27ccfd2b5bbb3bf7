------------------------------ MODULE Keyboard ------------------------------
(***************************************************************************)
(* The keyboard and its driver, keyboard.c: the keys somebody holds, the   *)
(* scancodes they send, and how the driver turns them into characters.     *)
(*                                                                         *)
(* A letter stands for the keys the two tables translate differently.  The *)
(* driver ignores break codes other than those of Shift and keys without a *)
(* character, which are left out.                                          *)
(***************************************************************************)
EXTENDS Naturals

CONSTANTS
    LetterKeys,
    ShiftKeys      \* SCANCODE_LSHIFT, SCANCODE_RSHIFT

ASSUME KeysAssumption == "nul" \notin LetterKeys /\ ShiftKeys # {}

VARIABLES
    held,          \* the Shift keys that are down
    shift_pressed

keyboard == <<held, shift_pressed>>

OtherKeys == {"space", "enter", "backspace"}

Codes ==
    [key : LetterKeys \cup OtherKeys, down : {TRUE}]
        \cup [key : ShiftKeys, down : BOOLEAN]

\* A key is pressed, repeats itself, or is let go.
Strike(code) ==
    /\ code.down \/ code.key \in held
    /\ held' = IF code.down THEN held \cup ({code.key} \cap ShiftKeys)
                            ELSE held \ {code.key}

IsShift(code) == code.key \in ShiftKeys

\* Shift pressed, shift released, after a mutant that ignores break codes.
SetShift_MakeOnly(code) == shift_pressed' = IF code.down THEN 1 ELSE shift_pressed

SetShift(code) == shift_pressed' = IF code.down THEN 1 ELSE 0

\* scancode_ascii_normal and scancode_ascii_shift.
Character(key, shift) ==
    [key |-> key, shift |-> IF key \in LetterKeys THEN shift ELSE 0]

Characters ==
    [key : LetterKeys, shift : {0, 1}] \cup [key : {"space"}, shift : {0}]
=============================================================================
