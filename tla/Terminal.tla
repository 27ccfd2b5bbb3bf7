------------------------------ MODULE Terminal ------------------------------
(***************************************************************************)
(* What a text screen is to whoever writes on it: a roll of paper, seen    *)
(* through a window of Cells places, Width to a line.  Writing goes on     *)
(* from place to place, and the paper moves up by a line when it leaves    *)
(* the window.                                                             *)
(***************************************************************************)
EXTENDS Integers

CONSTANTS Width, Cells, Glyphs, Blank

VARIABLES
    paper,     \* what is seen
    place,     \* where the next character goes
    cursor     \* the blinking one

vars == <<paper, place, cursor>>

Places == 0 .. Cells - 1

BlankPaper == [i \in Places |-> Blank]

Init == paper = BlankPaper /\ place = 0 /\ cursor \in Places

\* Writing goes on at a place that may be the first one below the window.
GoOn(written, to) ==
    IF to < Cells
    THEN paper' = written /\ place' = to
    ELSE /\ paper' = [i \in Places |->
                          IF i + Width < Cells THEN written[i + Width] ELSE Blank]
         /\ place' = to - Width

Put(g) ==
    /\ GoOn([paper EXCEPT ![place] = g], place + 1)
    /\ cursor' = place'

NewLine ==
    /\ GoOn(paper, (place \div Width + 1) * Width)
    /\ UNCHANGED cursor

BackSpace ==
    /\ place' = IF place > 0 THEN place - 1 ELSE 0
    /\ paper' = [paper EXCEPT ![place'] = Blank]
    /\ cursor' = place'

Clear ==
    /\ paper' = BlankPaper
    /\ place' = 0
    /\ UNCHANGED cursor

Next ==
    \/ \E g \in Glyphs : Put(g)
    \/ NewLine \/ BackSpace \/ Clear

Spec == Init /\ [][Next]_vars
=============================================================================
