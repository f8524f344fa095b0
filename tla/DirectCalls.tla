----------------------------- MODULE DirectCalls -----------------------------
(***************************************************************************)
(* What a program may expect of a call of an external library, were there  *)
(* no sandbox: the library works on the very objects it is given pointers  *)
(* to, on no other memory, and a call in which it strayed outside of them  *)
(* does not return.  The process may stop at any time.                     *)
(***************************************************************************)
EXTENDS Naturals, Sequences, SequencesExt

CONSTANTS
    Threads,
    Cells,    \* the cells of the program's memory
    Values    \* what a cell may hold

VARIABLES
    memory,   \* what the cells hold
    lent,     \* lent[t]: the cells lent to each library t is in, innermost last
    strayed,  \* strayed[t]: whether that library wrote where it may not
    up        \* the process lives

vars == <<memory, lent, strayed, up>>

Init ==
    /\ memory \in [Cells -> Values]
    /\ lent = [t \in Threads |-> <<>>]
    /\ strayed = [t \in Threads |-> <<>>]
    /\ up = TRUE

Lend(t) ==
    /\ up
    /\ \E cells \in SUBSET Cells : lent' = [lent EXCEPT ![t] = Append(@, cells)]
    /\ strayed' = [strayed EXCEPT ![t] = Append(@, FALSE)]
    /\ UNCHANGED <<memory, up>>

LibraryWrites(t) ==
    /\ up
    /\ lent[t] # <<>>
    /\ \E c \in Last(lent[t]), v \in Values : memory' = [memory EXCEPT ![c] = v]
    /\ UNCHANGED <<lent, strayed, up>>

Stray(t) ==
    /\ up
    /\ lent[t] # <<>>
    /\ strayed' = [strayed EXCEPT ![t][Len(strayed[t])] = TRUE]
    /\ UNCHANGED <<memory, lent, up>>

TakeBack(t) ==
    /\ up
    /\ lent[t] # <<>>
    /\ ~Last(strayed[t])
    /\ lent' = [lent EXCEPT ![t] = Front(@)]
    /\ strayed' = [strayed EXCEPT ![t] = Front(@)]
    /\ UNCHANGED <<memory, up>>

\* The program writes a cell it has not lent.
ProgramWrites ==
    /\ up
    /\ \E c \in Cells, v \in Values :
          /\ \A t \in Threads : \A i \in DOMAIN lent[t] : c \notin lent[t][i]
          /\ memory' = [memory EXCEPT ![c] = v]
    /\ UNCHANGED <<lent, strayed, up>>

\* Of what the others held nothing is promised.
Stop == up /\ up' = FALSE

Next ==
    \/ \E t \in Threads : Lend(t) \/ LibraryWrites(t) \/ Stray(t) \/ TakeBack(t)
    \/ ProgramWrites
    \/ Stop

Spec == Init /\ [][Next]_vars
=============================================================================
