---------------------------- MODULE TemporalKeys ----------------------------
(***************************************************************************)
(* What the temporal half of the run-time library promises, whatever the   *)
(* tables and locks that implement it: every object a program creates      *)
(* (a heap block, a stack variable) is named by a key drawn from a         *)
(* counter; the key is live from the moment the object is registered to    *)
(* the moment it is released; a thread enters an access only with a live   *)
(* key and the object stays live until the access is over; a key that has  *)
(* been retired never names an object again.                               *)
(***************************************************************************)
EXTENDS Naturals

CONSTANTS
    Threads,  \* threads of the compiled program
    Places,   \* addresses at which an object can start
    NoKey     \* "no key": a thread that has drawn none, or accesses nothing

VARIABLES
    next,   \* the next key of the counter
    drawn,  \* drawn[t]: the key t has drawn and not yet given to an object
    home,   \* home[a]: the live key of the object that starts at a, or NoKey
    access  \* access[t]: the key under which t is accessing an object

vars == <<next, drawn, home, access>>

Init ==
    /\ next = 1
    /\ drawn = [t \in Threads |-> NoKey]
    /\ home = [a \in Places |-> NoKey]
    /\ access = [t \in Threads |-> NoKey]

Draw(t) ==
    /\ drawn[t] = NoKey
    /\ drawn' = [drawn EXCEPT ![t] = next]
    /\ next' = next + 1
    /\ UNCHANGED <<home, access>>

\* The object takes the place a, which no live object may occupy.
Activate(t, a) ==
    /\ drawn[t] # NoKey
    /\ home[a] = NoKey
    /\ home' = [home EXCEPT ![a] = drawn[t]]
    /\ drawn' = [drawn EXCEPT ![t] = NoKey]
    /\ UNCHANGED <<next, access>>

\* No thread is accessing the object that goes away.
Retire(a) ==
    /\ home[a] # NoKey
    /\ \A t \in Threads : access[t] # home[a]
    /\ home' = [home EXCEPT ![a] = NoKey]
    /\ UNCHANGED <<next, drawn, access>>

Enter(t) ==
    /\ access[t] = NoKey
    /\ \E a \in Places :
          /\ home[a] # NoKey
          /\ access' = [access EXCEPT ![t] = home[a]]
    /\ UNCHANGED <<next, drawn, home>>

Leave(t) ==
    /\ access[t] # NoKey
    /\ access' = [access EXCEPT ![t] = NoKey]
    /\ UNCHANGED <<next, drawn, home>>

Next ==
    \/ \E t \in Threads : Draw(t) \/ Enter(t) \/ Leave(t)
    \/ \E t \in Threads, a \in Places : Activate(t, a)
    \/ \E a \in Places : Retire(a)

Spec == Init /\ [][Next]_vars

-----------------------------------------------------------------------------
(* What follows for a key *)

\* It was drawn, and no thread holds it for an object, no object has it, nobody uses it.
Retired(k) ==
    /\ k < next
    /\ \A t \in Threads : drawn[t] # k /\ access[t] # k
    /\ \A a \in Places : home[a] # k

\* A key that has been retired never names an object again and lets nobody in.
RetiredForGood == [][\A k \in 1 .. next - 1 : Retired(k) => Retired(k)']_vars
=============================================================================
