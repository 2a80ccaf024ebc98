--------------------------- MODULE CertifiedIndex ----------------------------
(* The index as a reader that publishes it may think of it: one value that   *)
(* is there or is not, withdrawn before another is put in its place, and     *)
(* taken whole or not at all.  IndexReaders implements it with six files and *)
(* no lock between a map and a reader.                                       *)
CONSTANT Readers

VARIABLES
    index,      \* the value, as a set of at most one
    open,       \* the readers at work
    seen,       \* seen[q]: the values there were since q opened
    taken       \* taken[q]: the value q publishes, as a set of at most one

absVars == <<index, open, seen, taken>>

Init ==
    /\ index = {} /\ open = {}
    /\ seen = [q \in Readers |-> {}]
    /\ taken = [q \in Readers |-> {}]

Moves ==
    /\ seen' = [q \in Readers |-> IF q \in open THEN seen[q] \cup index' ELSE {}]
    /\ UNCHANGED <<open, taken>>

Withdraw == index # {} /\ index' = {} /\ Moves
Put == index = {} /\ (\E v \in index' : index' = {v}) /\ Moves

Open(q) ==
    /\ q \notin open
    /\ open' = open \cup {q}
    /\ seen' = [seen EXCEPT ![q] = index]
    /\ UNCHANGED <<index, taken>>

(* What was the index at some instant since q opened.                        *)
Take(q) ==
    /\ q \in open /\ taken[q] = {}
    /\ \E v \in seen[q] : taken' = [taken EXCEPT ![q] = {v}]
    /\ UNCHANGED <<index, open, seen>>

(* Published, or refused.                                                    *)
Close(q) ==
    /\ q \in open
    /\ open' = open \ {q}
    /\ seen' = [seen EXCEPT ![q] = {}]
    /\ taken' = [taken EXCEPT ![q] = {}]
    /\ UNCHANGED index

Next == Withdraw \/ Put \/ \E q \in Readers : Open(q) \/ Take(q) \/ Close(q)

Spec == Init /\ [][Next]_absVars
=============================================================================
