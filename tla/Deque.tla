------------------------------- MODULE Deque -------------------------------
(***************************************************************************)
(* What vector.h promises its callers: a list of data pointers that grows at *)
(* both ends, shrinks at both ends and is read by position.                 *)
(***************************************************************************)
EXTENDS Naturals, Sequences, SequencesExt

CONSTANTS Data, NULL

VARIABLES
    contents,  \* the elements, first to last
    result     \* what the last call returned, NULL for a call that returns nothing

Init == contents = << >> /\ result = NULL

AddLast(d) == contents' = Append(contents, d) /\ result' = NULL

AddFirst(d) == contents' = <<d>> \o contents /\ result' = NULL

DropLast ==
    /\ contents # << >>
    /\ contents' = Front(contents)
    /\ result' = NULL

TakeFirst ==
    /\ result' = IF contents = << >> THEN NULL ELSE Head(contents)
    /\ contents' = IF contents = << >> THEN << >> ELSE Tail(contents)

First ==
    /\ result' = IF contents = << >> THEN NULL ELSE Head(contents)
    /\ UNCHANGED contents

Length == result' = Len(contents) /\ UNCHANGED contents

\* Positions count from 1, and 0 reads the first element too.
Nth(n) ==
    /\ n <= Len(contents)
    /\ result' = IF contents = << >> THEN NULL
                 ELSE contents[IF n = 0 THEN 1 ELSE n]
    /\ UNCHANGED contents

Clear == contents' = << >> /\ result' = NULL

Next ==
    \/ \E d \in Data : AddLast(d) \/ AddFirst(d)
    \/ DropLast
    \/ TakeFirst
    \/ First
    \/ Length
    \/ \E n \in 0 .. Len(contents) : Nth(n)
    \/ Clear

Spec == Init /\ [][Next]_<<contents, result>>
=============================================================================
