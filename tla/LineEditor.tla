----------------------------- MODULE LineEditor -----------------------------
(***************************************************************************)
(* What a shell is to somebody who types: a line that grows and shrinks at *)
(* its end and is run, whole and once, when it is submitted.               *)
(***************************************************************************)
EXTENDS Naturals, Sequences, SequencesExt

CONSTANTS Characters, MaxLine

VARIABLES
    line,      \* what has been typed since the last command
    running    \* the command that runs, <<>> when none does

vars == <<line, running>>

Init == line = <<>> /\ running = <<>>

Type(c) ==
    /\ running = <<>>
    /\ Len(line) < MaxLine
    /\ line' = Append(line, c)
    /\ UNCHANGED running

Erase ==
    /\ running = <<>>
    /\ line # <<>>
    /\ line' = Front(line)
    /\ UNCHANGED running

Submit ==
    /\ running = <<>>
    /\ line # <<>>
    /\ running' = line
    /\ line' = <<>>

Finish ==
    /\ running # <<>>
    /\ running' = <<>>
    /\ UNCHANGED line

\* The shell starts: what was typed before is forgotten.
Start == running = <<>> /\ line' = <<>> /\ UNCHANGED running

Next ==
    \/ \E c \in Characters : Type(c)
    \/ Erase \/ Submit \/ Finish \/ Start

Spec == Init /\ [][Next]_vars
=============================================================================
