---------------------------- MODULE ListsProofs ----------------------------
(***************************************************************************)
(* What the operations on the linked lists of the alert server keep: the   *)
(* pointers of the elements agree and lead to all of them, and those of    *)
(* other memory stay as they are.                                          *)
(***************************************************************************)
EXTENDS Lists, TLAPS

\* The memory of X outside S has no pointers.
Blank(l, X, S) == \A x \in X \ S : l.next[x] = None /\ l.prev[x] = None

\* l is a list in the memory X, of the elements of S.
ListIn(l, X, S) ==
    None \notin X /\ S \subseteq X /\ l \in ListsOver(X) /\ WellFormed(l, S)

\* The memory of Y has the same pointers in l and m.
SameOn(l, m, Y) == \A y \in Y : m.next[y] = l.next[y] /\ m.prev[y] = l.prev[y]

LEMMA EmptyKeeps ==
    ASSUME NEW X
    PROVE  /\ EmptyList(X) \in ListsOver(X)
           /\ WellFormed(EmptyList(X), {}) /\ Blank(EmptyList(X), X, {})
  BY DEF EmptyList, ListsOver, WellFormed, Linked, Reached, Blank

LEMMA BlockIsFree == ASSUME NEW F PROVE Block(F) \subseteq F
  BY DEF Block

LEMMA InsertKeeps ==
    ASSUME NEW l, NEW X, NEW S, ListIn(l, X, S),
           NEW x, x \in X, x \notin S, l.prev[x] = None
    PROVE  /\ ListIn(InsertFirst(l, x), X, S \cup {x})
           /\ SameOn(l, InsertFirst(l, x), X \ (S \cup {x}))
<1> DEFINE m == InsertFirst(l, x)
<1> USE DEF ListIn, WellFormed, SameOn
<1>1. m \in ListsOver(X)
  BY DEF InsertFirst, ListsOver, Linked
<1>2. /\ m.head = x /\ m.next[x] = l.head /\ m.prev[x] = None
      /\ \A y \in X \ {x} : m.next[y] = l.next[y]
      /\ \A y \in X : m.prev[y] = IF y = l.head THEN x ELSE l.prev[y]
  BY DEF InsertFirst, ListsOver, Linked
<1> HIDE DEF m
<1>3. Linked(m, S \cup {x})
  BY <1>2 DEF Linked, ListsOver
<1>4. \A y \in X \ (S \cup {x}) : m.next[y] = l.next[y] /\ m.prev[y] = l.prev[y]
  BY <1>2 DEF Linked
<1>5. ASSUME NEW V \in SUBSET (S \cup {x}),
             m.head \in V \cup {None}, \A y \in V : m.next[y] \in V \cup {None}
      PROVE  V = S \cup {x}
  <2>1. x \in V /\ l.head \in (V \ {x}) \cup {None}
    BY <1>2, <1>5 DEF Linked
  <2>2. \A y \in V \ {x} : l.next[y] \in (V \ {x}) \cup {None}
    BY <1>2, <1>5 DEF Linked
  <2>3. V \ {x} = S
    BY <2>1, <2>2 DEF Reached
  <2>4. QED
    BY <2>1, <2>3
<1>6. QED
  BY <1>1, <1>3, <1>4, <1>5 DEF m, Reached

LEMMA RemoveKeeps ==
    ASSUME NEW l, NEW X, NEW S, ListIn(l, X, S), NEW x, x \in S
    PROVE  ListIn(Remove(l, x), X, S \ {x}) /\ SameOn(l, Remove(l, x), X \ S)
<1> USE DEF ListIn, WellFormed, SameOn
<1> DEFINE m == Remove(l, x)
           p == l.prev[x]
           n == l.next[x]
<1>1. m \in ListsOver(X)
  BY DEF Remove, ListsOver, Linked
<1>2. /\ m.head = IF p = None THEN n ELSE l.head
      /\ \A y \in X : m.next[y] = IF y = p THEN n ELSE l.next[y]
      /\ \A y \in X : m.prev[y] = IF y = n THEN p ELSE l.prev[y]
  BY DEF Remove, ListsOver, Linked
<1>3. p \in S \cup {None} /\ n \in S \cup {None}
  BY DEF Linked
<1> HIDE DEF m
<1>4. Linked(m, S \ {x})
  BY <1>2, <1>3 DEF Linked, ListsOver
<1>5. \A y \in X \ S : m.next[y] = l.next[y] /\ m.prev[y] = l.prev[y]
  BY <1>2, <1>3
<1>6. ASSUME NEW V \in SUBSET (S \ {x}),
             m.head \in V \cup {None}, \A y \in V : m.next[y] \in V \cup {None}
      PROVE  V = S \ {x}
  <2>1. CASE p # None /\ p \notin V
    \* V would be closed in l too, and lacks x.
    <3>1. l.head \in V \cup {None} /\ \A y \in V : l.next[y] \in V \cup {None}
      BY <1>2, <1>6, <2>1
    <3>2. QED
      BY <3>1 DEF Reached
  <2>2. CASE p = None \/ p \in V
    <3>1. l.head \in V \cup {x} \cup {None}
      BY <1>2, <1>6, <2>2 DEF Linked
    <3>2. \A y \in V \cup {x} : l.next[y] \in V \cup {x} \cup {None}
      <4>1. l.next[x] \in V \cup {None}
        BY <1>2, <1>6, <2>2
      <4>2. \A y \in V : l.next[y] = IF y = p THEN x ELSE m.next[y]
        BY <1>2, <1>3, <1>6 DEF Linked
      <4>3. QED
        BY <1>6, <4>1, <4>2
    <3> DEFINE W == V \cup {x}
    <3>3. W \in SUBSET S
      OBVIOUS
    <3>4. l.head \in W \cup {None} /\ \A y \in W : l.next[y] \in W \cup {None}
      BY <3>1, <3>2
    <3>5. x \in W /\ W \ {x} = V
      OBVIOUS
    <3> HIDE DEF W
    <3>6. W = S
      BY <3>3, <3>4 DEF Reached
    <3>7. QED
      BY <3>5, <3>6
  <2>3. QED
    BY <2>1, <2>2
<1>7. QED
  BY <1>1, <1>4, <1>5, <1>6 DEF m, Reached

LEMMA ClearedKeeps ==
    ASSUME NEW l, NEW X, NEW S, ListIn(l, X, S), NEW x, x \in X, x \notin S
    PROVE  /\ ListIn(Cleared(l, x), X, S) /\ SameOn(l, Cleared(l, x), X \ {x})
           /\ Cleared(l, x).next[x] = None /\ Cleared(l, x).prev[x] = None
  BY DEF Cleared, ListsOver, WellFormed, Linked, Reached, ListIn, SameOn
=============================================================================
