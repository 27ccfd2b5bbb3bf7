----------------------------- MODULE FileStore -----------------------------
(***************************************************************************)
(* What vfs.h promises: named files that are created once, never change    *)
(* and never go away, at most MaxFiles of them.                            *)
(***************************************************************************)
EXTENDS Naturals, FiniteSets

CONSTANTS Names, Contents, MaxFiles

VARIABLE files      \* the content of each file there is

Init == files = [n \in {} |-> n]

Create(n, c) ==
    /\ n \notin DOMAIN files
    /\ Cardinality(DOMAIN files) < MaxFiles
    /\ files' = [m \in DOMAIN files \cup {n} |-> IF m = n THEN c ELSE files[m]]

Next == \E n \in Names, c \in Contents : Create(n, c)

Spec == Init /\ [][Next]_files
=============================================================================
