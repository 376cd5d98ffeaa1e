------------------------------- MODULE Lists -------------------------------
(***************************************************************************)
(* The doubly linked lists of the alert server.  streams.c and clients.c   *)
(* each have a head pointer in the global structure and prev and next in   *)
(* every element, with the same two operations on them.                    *)
(*                                                                         *)
(* A list is a record of its head and of the next and prev of every object *)
(* that exists or ever may; None is NULL.                                  *)
(***************************************************************************)
EXTENDS Integers, FiniteSets

CONSTANT None

ListsOver(X) == [head : X \cup {None},
                 next : [X -> X \cup {None}],
                 prev : [X -> X \cup {None}]]

EmptyList(X) == [head |-> None,
                 next |-> [x \in X |-> None],
                 prev |-> [x \in X |-> None]]

\* The block malloc gives.  Free blocks are alike (Cleared), so that one of them
\* stands for all; the one given back last may be it.
Block(free) == IF free = {} THEN {} ELSE {CHOOSE x \in free : TRUE}

\* The pointers of x as memset leaves them.
Cleared(l, x) == [head |-> l.head,
                  next |-> [l.next EXCEPT ![x] = None],
                  prev |-> [l.prev EXCEPT ![x] = None]]

InsertFirst(l, x) ==
    [head |-> x,
     next |-> [l.next EXCEPT ![x] = l.head],
     prev |-> IF l.head = None THEN l.prev ELSE [l.prev EXCEPT ![l.head] = x]]

\* The back pointer of the successor is forgotten.
Slip_Remove(l, x) ==
    LET p == l.prev[x]
        n == l.next[x]
    IN  [head |-> IF p = None THEN n ELSE l.head,
         next |-> IF p = None THEN l.next ELSE [l.next EXCEPT ![p] = n],
         prev |-> l.prev]

Remove(l, x) ==
    LET p == l.prev[x]
        n == l.next[x]
    IN  [head |-> IF p = None THEN n ELSE l.head,
         next |-> IF p = None THEN l.next ELSE [l.next EXCEPT ![p] = n],
         prev |-> IF n = None THEN l.prev ELSE [l.prev EXCEPT ![n] = p]]

-----------------------------------------------------------------------------

\* The pointers of the elements of S agree with each other and stay in S.
Linked(l, S) ==
    /\ l.head \in S \cup {None}
    /\ \A x \in S :
         /\ l.next[x] \in S \cup {None} /\ l.prev[x] \in S \cup {None}
         /\ l.prev[x] = None <=> l.head = x
         /\ \A y \in S : l.next[x] = y <=> l.prev[y] = x

\* Following next from the head leads to every element of S: no part of S is
\* closed under next, contains the head and is not all of S.
Reached(l, S) ==
    \A V \in SUBSET S :
        l.head \in V \cup {None} /\ (\A x \in V : l.next[x] \in V \cup {None}) => V = S

\* A walk from the head meets the elements of S, once each, as none has two
\* predecessors and the head has none, and then ends.
WellFormed(l, S) == Linked(l, S) /\ Reached(l, S)
=============================================================================
