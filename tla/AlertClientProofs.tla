------------------------- MODULE AlertClientProofs -------------------------
(***************************************************************************)
(* Theorems about one client thread of the alert server, for every number  *)
(* of tokens, every size of data, every time-out, and however the peer     *)
(* sends.                                                                  *)
(*                                                                         *)
(* First what the operators of AlertData do: the loop of client_alert_data *)
(* (a recursive function, which the lemmas reason about by induction over  *)
(* the tokens), the lexemes of jsmn_parse, and the meaning of data that    *)
(* goes on.  Then that the parser follows the grammar, and what s_read_all *)
(* counts, which are invariants of the thread.                             *)
(***************************************************************************)
EXTENDS AlertClient, TLAPS, FiniteSetTheorems, SequenceTheorems, WellFoundedInduction

-----------------------------------------------------------------------------
(* Numbers.                                                                *)

\* What holds of 0 and passes on to the next number holds of all numbers.
LEMMA Induction ==
    ASSUME NEW V, 0 \in V, \A n \in Nat : n \in V => n + 1 \in V
    PROVE  Nat \subseteq V
<1> DEFINE X == Nat \ V
<1>1. SUFFICES ASSUME X # {} PROVE FALSE
  OBVIOUS
<1>2. PICK m \in X : \A y \in X : ~ (<<y, m>> \in OpToRel(<, Nat))
  BY <1>1, NatLessThanWellFounded, WFMin
<1>3. m \in Nat /\ m \notin V
  OBVIOUS
<1>4. m # 0
  BY <1>3
<1>5. m - 1 \in Nat /\ m - 1 < m /\ (m - 1) + 1 = m
  BY <1>3, <1>4
<1>6. m - 1 \in X
  BY <1>3, <1>5
<1>7. <<m - 1, m>> \in OpToRel(<, Nat)
  BY <1>3, <1>5 DEF OpToRel
<1>8. QED
  BY <1>2, <1>6, <1>7

\* The last of some tokens.
LEMMA LastIs ==
    ASSUME NEW I, NEW m \in I, m \in Nat \ {0}, \A i \in I : i \in Int /\ i <= m
    PROVE  LastOf(I) = m
<1>1. I # {}
  OBVIOUS
<1>2. \A x \in I : (\A y \in I : x >= y) => x = m
  OBVIOUS
<1>3. m \in I /\ \A y \in I : m >= y
  OBVIOUS
<1>4. Max(I) = m
  BY <1>2, <1>3, Zenon DEF Max
<1>5. QED
  BY <1>1, <1>4 DEF LastOf

-----------------------------------------------------------------------------
(* client_alert_data.                                                      *)

\* The tokens a parser can have, and the answers client_alert_data can give.
Types   == {"string", "primitive"} \cup Opening
Token   == [type : Types, text : Lexemes, size : Nat, open : BOOLEAN]
Nothing == [r |-> 0, camera |-> OwnAddress]
Answers == [r : 0..2, camera : HexTexts \cup {OwnAddress}]

\* What is taken from token i, after a from those before.
With(tok, i, a) ==
    IF i = 1 THEN Nothing
    ELSE IF IsField(tok, i) THEN Taken(a, tok[i].text, tok[i + 1].text) ELSE a

\* f is what the loop has after each token.
IsScan(tok, n, f) ==
    /\ DOMAIN f = 1..n
    /\ \A i \in 1..n : f[i] = With(tok, i, f[i - 1])

\* The same is taken from the first k tokens of s and of t.
SameUpTo(s, t, k) == \A i \in 1..k : \A a : With(s, i, a) = With(t, i, a)

\* One pair of texts leads from one answer to another.
LEMMA TakenType ==
    ASSUME NEW a \in Answers, NEW name, NEW value
    PROVE  Taken(a, name, value) \in Answers
<1>1. CASE name = "Address" /\ value \in HexTexts
  BY <1>1 DEF Taken, Answers
<1>2. CASE ~(name = "Address" /\ value \in HexTexts)
  BY <1>2 DEF Taken, Answers
<1>3. QED
  BY <1>1, <1>2

\* A bracket says nothing.
LEMMA TakenBracket ==
    ASSUME NEW a, NEW name, NEW value \in Opening
    PROVE  Taken(a, name, value) = a
BY DEF Taken, Opening, HexTexts

\* And so does one token.
LEMMA WithType ==
    ASSUME NEW tok, NEW i, NEW a \in Answers
    PROVE  With(tok, i, a) \in Answers
<1>1. Nothing \in Answers
  BY DEF Nothing, Answers
<1>2. QED
  BY <1>1, TakenType DEF With

\* Two loops that take the same from each token have the same after each.
LEMMA ScansAgree ==
    ASSUME NEW s, NEW t, NEW m \in Nat, NEW n \in Nat, NEW f, NEW g,
           IsScan(s, m, f), IsScan(t, n, g),
           NEW k \in Nat, k <= m, k <= n, SameUpTo(s, t, k)
    PROVE  \A i \in 1..k : f[i] = g[i]
<1> DEFINE V == {i \in Nat : i \in 1..k => f[i] = g[i]}
<1>1. 0 \in V
  OBVIOUS
<1>2. ASSUME NEW i \in Nat, i \in V PROVE i + 1 \in V
  <2>1. SUFFICES ASSUME i + 1 \in 1..k PROVE f[i + 1] = g[i + 1]
    OBVIOUS
  <2>2. /\ i + 1 \in 1..m /\ i + 1 \in 1..n /\ (i + 1) - 1 = i
    BY <2>1
  <2>3. f[i + 1] = With(s, i + 1, f[i]) /\ g[i + 1] = With(t, i + 1, g[i])
    BY <2>2 DEF IsScan
  <2>4. CASE i = 0
    BY <2>1, <2>3, <2>4 DEF With
  <2>5. CASE i # 0
    <3>1. f[i] = g[i]
      BY <1>2, <2>1, <2>5
    <3>2. QED
      BY <2>1, <2>3, <3>1 DEF SameUpTo
  <2>6. QED
    BY <2>4, <2>5
<1>3. Nat \subseteq V
  <2>1. HIDE DEF V
  <2>2. QED
    BY <1>1, <1>2, Induction
<1>4. QED
  BY <1>3

\* The loop comes to an end.
LEMMA ScanExists ==
    ASSUME NEW tok, NEW n \in Nat
    PROVE  \E f \in [1..n -> Answers] : IsScan(tok, n, f)
<1> DEFINE V == {k \in Nat : \E f \in [1..k -> Answers] : IsScan(tok, k, f)}
<1>1. 0 \in V
  <2>1. <<>> \in [1..0 -> Answers] /\ IsScan(tok, 0, <<>>)
    BY DEF IsScan
  <2>2. QED
    BY <2>1
<1>2. ASSUME NEW k \in Nat, k \in V PROVE k + 1 \in V
  <2>1. PICK f \in [1..k -> Answers] : IsScan(tok, k, f)
    BY <1>2
  <2>2. PICK b \in Answers : b = With(tok, k + 1, IF k = 0 THEN Nothing ELSE f[k])
    <3>1. (IF k = 0 THEN Nothing ELSE f[k]) \in Answers
      <4>1. CASE k = 0
        BY <4>1 DEF Nothing, Answers
      <4>2. CASE k # 0
        BY <4>2
      <4>3. QED
        BY <4>1, <4>2
    <3>2. QED
      BY <3>1, WithType
  <2> DEFINE g == [i \in 1..(k + 1) |-> IF i <= k THEN f[i] ELSE b]
  <2>3. g \in [1..(k + 1) -> Answers]
    OBVIOUS
  <2>4. ASSUME NEW i \in 1..(k + 1) PROVE g[i] = With(tok, i, g[i - 1])
    <3>1. CASE i = 1
      <4>1. CASE k = 0
        BY <2>2, <3>1, <4>1 DEF With
      <4>2. CASE k # 0
        <5>1. f[1] = With(tok, 1, f[1 - 1]) /\ g[1] = f[1]
          BY <2>1, <4>2 DEF IsScan
        <5>2. QED
          BY <3>1, <5>1 DEF With
      <4>3. QED
        BY <4>1, <4>2
    <3>2. CASE i # 1 /\ i <= k
      <4>1. f[i] = With(tok, i, f[i - 1])
        BY <2>1, <3>2 DEF IsScan
      <4>2. g[i] = f[i] /\ g[i - 1] = f[i - 1]
        BY <3>2
      <4>3. QED
        BY <4>1, <4>2
    <3>3. CASE i # 1 /\ i = k + 1
      <4>1. k # 0 /\ g[i] = b /\ g[i - 1] = f[k]
        BY <3>3
      <4>2. QED
        BY <2>2, <3>3, <4>1
    <3>4. QED
      BY <3>1, <3>2, <3>3
  <2>5. IsScan(tok, k + 1, g)
    BY <2>4 DEF IsScan
  <2>6. QED
    BY <2>3, <2>5
<1>3. Nat \subseteq V
  <2>1. HIDE DEF V
  <2>2. QED
    BY <1>1, <1>2, Induction
<1>4. QED
  BY <1>3

\* What the loop has at the end is what Scan says.
LEMMA ScanIs ==
    ASSUME NEW tok \in Seq(Token)
    PROVE  \E f \in [1..Len(tok) -> Answers] :
              IsScan(tok, Len(tok), f) /\ Scan(tok) = f[Len(tok)]
<1> DEFINE n == Len(tok)
           Fix(f) == f = [i \in 1..n |->
                     IF i = 1 THEN [r |-> 0, camera |-> OwnAddress]
                     ELSE IF IsField(tok, i)
                          THEN Taken(f[i - 1], tok[i].text, tok[i + 1].text)
                          ELSE f[i - 1]]
           g == CHOOSE f : Fix(f)
<1>1. n \in Nat
  OBVIOUS
<1>2. PICK f \in [1..n -> Answers] : IsScan(tok, n, f)
  BY <1>1, ScanExists
<1>3. Fix(f)
  BY <1>2 DEF IsScan, With, Nothing
<1>4. Fix(g)
  BY <1>3
<1>5. Scan(tok) = g[n]
  BY DEF Scan
<1>6. IsScan(tok, n, g)
  BY <1>4 DEF IsScan, With, Nothing
<1>7. \A i \in 1..n : f[i] = g[i]
  <2>1. HIDE DEF g, n
  <2>2. PICK m \in Nat : m = n
    BY <1>1
  <2>3. m <= m /\ SameUpTo(tok, tok, m) /\ IsScan(tok, m, f) /\ IsScan(tok, m, g)
    BY <1>2, <1>6, <2>2 DEF SameUpTo
  <2>4. QED
    BY <2>2, <2>3, ScansAgree
<1>8. g = f
  BY <1>2, <1>6, <1>7 DEF IsScan
<1>9. QED
  BY <1>2, <1>5, <1>8

\* Tokens from which the same is taken give the same answer, ...
LEMMA ScanSame ==
    ASSUME NEW s \in Seq(Token), NEW t \in Seq(Token), s # <<>>,
           Len(t) = Len(s) \/ Len(t) = Len(s) + 1,
           SameUpTo(s, t, Len(s))
    PROVE  Scan(t) = Scan(s)
<1>1. Len(s) \in Nat \ {0} /\ Len(t) \in Nat /\ Len(s) <= Len(t) /\ Len(s) <= Len(s)
  OBVIOUS
<1>2. PICK f \in [1..Len(s) -> Answers] : IsScan(s, Len(s), f) /\ Scan(s) = f[Len(s)]
  BY ScanIs
<1>3. PICK g \in [1..Len(t) -> Answers] : IsScan(t, Len(t), g) /\ Scan(t) = g[Len(t)]
  BY ScanIs
<1>4. \A i \in 1..Len(s) : f[i] = g[i]
  <2>1. PICK m \in Nat, n \in Nat : m = Len(s) /\ n = Len(t)
    BY <1>1
  <2>2. m <= m /\ m <= n /\ SameUpTo(s, t, m) /\ IsScan(s, m, f) /\ IsScan(t, n, g)
    BY <1>1, <1>2, <1>3, <2>1
  <2>3. QED
    BY <2>1, <2>2, ScansAgree
<1>5. f[Len(s)] = g[Len(s)]
  BY <1>1, <1>4
<1>6. CASE Len(t) = Len(s)
  BY <1>2, <1>3, <1>5, <1>6
<1>7. CASE Len(t) = Len(s) + 1
  <2>1. /\ Len(t) \in 1..Len(t) /\ Len(t) # 1 /\ ~(Len(t) < Len(t)) /\ Len(t) - 1 = Len(s)
    BY <1>1, <1>7
  <2>2. g[Len(t)] = With(t, Len(t), g[Len(s)])
    BY <1>3, <2>1 DEF IsScan
  <2>3. g[Len(t)] = g[Len(s)]
    BY <2>1, <2>2 DEF With, IsField
  <2>4. QED
    BY <1>2, <1>3, <1>5, <2>3
<1>8. QED
  BY <1>6, <1>7

\* ... and a value that follows its key is taken.
LEMMA ScanTakes ==
    ASSUME NEW s \in Seq(Token), NEW t \in Seq(Token), NEW n \in Nat,
           Len(s) = n, Len(t) = n + 1, n > 1,
           SameUpTo(s, t, n - 1),
           ~IsField(s, n), IsField(t, n)
    PROVE  Scan(t) = Taken(Scan(s), t[n].text, t[n + 1].text)
<1>1. /\ n - 1 \in Nat /\ n - 1 <= Len(s) /\ n - 1 <= Len(t)
      /\ n \in 1..Len(s) /\ n \in 1..Len(t) /\ n + 1 \in 1..Len(t)
      /\ n - 1 \in 1..(n - 1) /\ n # 1 /\ n + 1 # 1 /\ (n + 1) - 1 = n
      /\ Len(s) \in Nat /\ Len(t) \in Nat /\ ~(n + 1 < Len(t))
  OBVIOUS
<1>2. PICK f \in [1..Len(s) -> Answers] : IsScan(s, Len(s), f) /\ Scan(s) = f[Len(s)]
  BY ScanIs
<1>3. PICK g \in [1..Len(t) -> Answers] : IsScan(t, Len(t), g) /\ Scan(t) = g[Len(t)]
  BY ScanIs
<1>4. f[n - 1] = g[n - 1]
  <2>1. \A i \in 1..(n - 1) : f[i] = g[i]
    <3>1. PICK k \in Nat, m \in Nat : k = n - 1 /\ m = n + 1
      BY <1>1
    <3>2. k <= n /\ k <= m /\ SameUpTo(s, t, k) /\ IsScan(s, n, f) /\ IsScan(t, m, g)
      BY <1>1, <1>2, <1>3, <3>1
    <3>3. QED
      BY <3>1, <3>2, ScansAgree
  <2>2. QED
    BY <1>1, <2>1
<1>5. f[n] = f[n - 1]
  BY <1>1, <1>2 DEF IsScan, With
<1>6. g[n] = Taken(g[n - 1], t[n].text, t[n + 1].text)
  BY <1>1, <1>3 DEF IsScan, With
<1>7. g[n + 1] = With(t, n + 1, g[n])
  BY <1>1, <1>3 DEF IsScan
<1>8. g[n + 1] = g[n]
  BY <1>1, <1>7 DEF With, IsField
<1>9. QED
  BY <1>2, <1>3, <1>4, <1>5, <1>6, <1>8

\* One token says nothing.
LEMMA ScanOne ==
    ASSUME NEW t \in Seq(Token), Len(t) = 1
    PROVE  Scan(t) = Nothing
<1>1. PICK g \in [1..Len(t) -> Answers] : IsScan(t, Len(t), g) /\ Scan(t) = g[Len(t)]
  BY ScanIs
<1>2. QED
  BY <1>1 DEF IsScan, With

\* Whatever the tokens are, the answer is one of those the thread knows.
LEMMA ScanType ==
    ASSUME NEW t \in Seq(Token), t # <<>>
    PROVE  Scan(t) \in Answers
<1>1. PICK g \in [1..Len(t) -> Answers] : IsScan(t, Len(t), g) /\ Scan(t) = g[Len(t)]
  BY ScanIs
<1>2. Len(t) \in 1..Len(t)
  OBVIOUS
<1>3. QED
  BY <1>1, <1>2

\* Neither does client_alert_data answer anything else.
LEMMA AnswerType ==
    ASSUME NEW p, p.tok \in Seq(Token)
    PROVE  Answer(p).r \in -1..2 /\ Answer(p).camera \in HexTexts \cup {OwnAddress}
<1>1. CASE p.tok = <<>>
  BY <1>1 DEF Answer
<1>2. CASE p.tok # <<>>
  <2>1. Scan(p.tok) \in Answers
    BY <1>2, ScanType
  <2>2. Answer(p) = Scan(p.tok) \/ Answer(p) = [r |-> -1, camera |-> OwnAddress]
    BY DEF Answer
  <2>3. CASE Answer(p) = Scan(p.tok)
    BY <2>1, <2>3 DEF Answers
  <2>4. CASE Answer(p) = [r |-> -1, camera |-> OwnAddress]
    BY <2>4
  <2>5. QED
    BY <2>2, <2>3, <2>4
<1>3. QED
  BY <1>1, <1>2

-----------------------------------------------------------------------------
(* jsmn_parse.                                                             *)

\* Tokens the parser can have.  One that has a part is not the last one.
ParserOK(p) ==
    /\ p \in [tok : Seq(Token), super : Nat, err : BOOLEAN]
    /\ Len(p.tok) <= MaxTokens /\ p.super <= Len(p.tok)
    /\ \A i \in 1..Len(p.tok) : p.tok[i].size > 0 => i < Len(p.tok)

\* t is s with one more token, which is a part of token k.
Grown(s, t, k, type, text) ==
    /\ t \in Seq(Token) /\ Len(t) = Len(s) + 1
    /\ \A i \in 1..Len(s) :
          /\ t[i].type = s[i].type /\ t[i].text = s[i].text /\ t[i].open = s[i].open
          /\ t[i].size = IF i = k THEN s[i].size + 1 ELSE s[i].size
    /\ t[Len(t)] = [type |-> type, text |-> text, size |-> 0, open |-> type \in Opening]

\* t is s with token k closed.
Shut(s, t, k) ==
    /\ t \in Seq(Token) /\ Len(t) = Len(s)
    /\ \A i \in 1..Len(s) :
          /\ t[i].type = s[i].type /\ t[i].text = s[i].text /\ t[i].size = s[i].size
          /\ t[i].open = IF i = k THEN FALSE ELSE s[i].open

\* What jsmn_alloc_token does when there is a token left.
LEMMA NewTokenIs ==
    ASSUME NEW p, ParserOK(p), Len(p.tok) # MaxTokens,
           NEW type \in Types, NEW text \in Lexemes
    PROVE  LET q == NewToken(p, type, text)
           IN  /\ q \in [tok : Seq(Token), super : Nat, err : BOOLEAN]
               /\ q.super = p.super /\ q.err = p.err
               /\ Grown(p.tok, q.tok, p.super, type, text)
<1> DEFINE n == Len(p.tok)
           new == [type |-> type, text |-> text, size |-> 0, open |-> type \in Opening]
           s == IF p.super = 0 THEN p.tok ELSE [p.tok EXCEPT ![p.super].size = @ + 1]
<1>1. p.tok \in Seq(Token) /\ n \in Nat /\ p.super \in 0..n
  BY DEF ParserOK
<1>2. new \in Token
  BY DEF Token
<1>3. /\ s \in Seq(Token) /\ Len(s) = n
      /\ \A i \in 1..n :
          /\ s[i].type = p.tok[i].type /\ s[i].text = p.tok[i].text
          /\ s[i].open = p.tok[i].open
          /\ s[i].size = IF i = p.super THEN p.tok[i].size + 1 ELSE p.tok[i].size
  <2>1. CASE p.super = 0
    BY <1>1, <2>1
  <2>2. CASE p.super # 0
    <3>1. p.super \in 1..n /\ p.tok[p.super] \in Token
      BY <1>1, <2>2
    <3>2. ASSUME NEW t \in Token
          PROVE  LET u == [t EXCEPT !.size = @ + 1]
                 IN  /\ u \in Token /\ u.type = t.type /\ u.text = t.text
                     /\ u.open = t.open /\ u.size = t.size + 1
      BY DEF Token
    <3>3. s = [p.tok EXCEPT ![p.super] = [p.tok[p.super] EXCEPT !.size = @ + 1]]
      BY <2>2
    <3>4. s \in Seq(Token) /\ Len(s) = n
      BY <1>1, <3>1, <3>2, <3>3
    <3>5. ASSUME NEW i \in 1..n, i # p.super PROVE s[i] = p.tok[i]
      BY <1>1, <3>1, <3>3, <3>5
    <3>6. s[p.super] = [p.tok[p.super] EXCEPT !.size = @ + 1]
      BY <1>1, <3>1, <3>3
    <3>7. ASSUME NEW i \in 1..n
          PROVE  /\ s[i].type = p.tok[i].type /\ s[i].text = p.tok[i].text
                 /\ s[i].open = p.tok[i].open
                 /\ s[i].size = IF i = p.super THEN p.tok[i].size + 1 ELSE p.tok[i].size
      <4> HIDE DEF s
      <4>1. CASE i = p.super
        BY <3>1, <3>2, <3>6, <4>1
      <4>2. CASE i # p.super
        BY <3>5, <4>2
      <4>3. QED
        BY <4>1, <4>2
    <3>8. QED
      BY <3>4, <3>7
  <2>3. QED
    BY <2>1, <2>2
<1>4. NewToken(p, type, text) = [p EXCEPT !.tok = Append(s, new)]
  BY DEF NewToken
<1>5. /\ Append(s, new) \in Seq(Token) /\ Len(Append(s, new)) = n + 1
      /\ \A i \in 1..n : Append(s, new)[i] = s[i]
      /\ Append(s, new)[n + 1] = new
  <2>1. HIDE DEF s, new
  <2>2. QED
    BY <1>1, <1>2, <1>3
<1>6. Grown(p.tok, Append(s, new), p.super, type, text)
  <2>1. HIDE DEF s
  <2>2. QED
    BY <1>1, <1>3, <1>5 DEF Grown
<1>7. QED
  <2>1. HIDE DEF s, new
  <2>2. QED
    BY <1>4, <1>5, <1>6 DEF ParserOK

\* Some tokens have a last one, none have none.
LEMMA LastType ==
    ASSUME NEW n \in Nat, NEW I \in SUBSET (1..n)
    PROVE  IF I = {} THEN LastOf(I) = 0
           ELSE LastOf(I) \in I /\ LastOf(I) \in 1..n /\ \A i \in I : i <= LastOf(I)
<1> DEFINE HasLast(J) == J # {} => \E m \in J : \A j \in J : j <= m
           V == {k \in Nat : \A J \in SUBSET (1..k) : HasLast(J)}
<1>1. 0 \in V
  <2>1. \A J \in SUBSET (1..0) : J = {}
    OBVIOUS
  <2>2. QED
    BY <2>1
<1>2. ASSUME NEW k \in Nat, k \in V PROVE k + 1 \in V
  <2>1. SUFFICES ASSUME NEW J \in SUBSET (1..(k + 1)) PROVE HasLast(J)
    OBVIOUS
  <2>2. CASE k + 1 \in J
    <3>1. \A j \in J : j <= k + 1
      OBVIOUS
    <3>2. QED
      BY <2>2, <3>1
  <2>3. CASE k + 1 \notin J
    <3>1. J \in SUBSET (1..k)
      BY <2>3
    <3>2. QED
      BY <1>2, <3>1
  <2>4. QED
    BY <2>2, <2>3
<1>3. Nat \subseteq V
  <2>1. HIDE DEF V
  <2>2. QED
    BY <1>1, <1>2, Induction
<1>4. HasLast(I)
  BY <1>3
<1>5. CASE I = {}
  BY <1>5 DEF LastOf
<1>6. CASE I # {}
  <2>1. PICK m \in I : \A j \in I : j <= m
    BY <1>4, <1>6
  <2>2. m \in Nat \ {0} /\ \A i \in I : i \in Int /\ i <= m
    BY <2>1
  <2>3. LastOf(I) = m
    BY <2>2, LastIs
  <2>4. QED
    BY <1>6, <2>1, <2>3
<1>7. QED
  BY <1>5, <1>6

\* What jsmn_parse does at the end of an object or array.
LEMMA ClosesIs ==
    ASSUME NEW p, ParserOK(p), NEW x
    PROVE  LET i == LastOf(OpenTokens(p))
               q == Closes(p, x)
           IN  \/ q = Broken(p)
               \/ /\ i \in 1..Len(p.tok)
                  /\ q \in [tok : Seq(Token), super : Nat, err : BOOLEAN]
                  /\ Shut(p.tok, q.tok, i) /\ q.err = p.err
                  /\ q.super = LastOf(OpenTokens(p) \ {i}) /\ q.super <= Len(p.tok)
<1> DEFINE n == Len(p.tok)
           i == LastOf(OpenTokens(p))
           j == LastOf(OpenTokens(p) \ {i})
           t == [p.tok EXCEPT ![i].open = FALSE]
<1>1. p.tok \in Seq(Token) /\ n \in Nat /\ OpenTokens(p) \in SUBSET (1..n)
  BY DEF ParserOK, OpenTokens
<1>2. i \in 0..n
  BY <1>1, LastType
<1>3. j \in 0..n
  <2>1. OpenTokens(p) \ {i} \in SUBSET (1..n)
    BY <1>1
  <2>2. QED
    BY <1>1, <2>1, LastType
<1>4. SUFFICES ASSUME Closes(p, x) # Broken(p)
               PROVE  /\ i \in 1..n
                      /\ Closes(p, x) \in [tok : Seq(Token), super : Nat, err : BOOLEAN]
                      /\ Shut(p.tok, Closes(p, x).tok, i) /\ Closes(p, x).err = p.err
                      /\ Closes(p, x).super = j /\ j <= n
  OBVIOUS
<1>5. i \in 1..n /\ Closes(p, x) = [p EXCEPT !.tok[i].open = FALSE, !.super = j]
  <2>1. HIDE DEF i
  <2>2. Closes(p, x) = Broken(p) \/ (i # 0 /\ Closes(p, x) = [p EXCEPT !.tok[i].open = FALSE, !.super = j])
    BY DEF Closes, i
  <2>3. QED
    BY <1>1, <1>2, <1>4, <2>2
<1>6. Closes(p, x) = [p EXCEPT !.tok = t, !.super = j]
  <2>1. HIDE DEF i, j
  <2>2. [p EXCEPT !.tok[i].open = FALSE, !.super = j] = [p EXCEPT !.tok = t, !.super = j]
    BY DEF ParserOK
  <2>3. QED
    BY <1>5, <2>2
<1>7. t \in Seq(Token) /\ Shut(p.tok, t, i)
  <2>1. HIDE DEF i
  <2>2. p.tok[i] \in Token /\ i \in 1..n
    BY <1>1, <1>5
  <2>3. ASSUME NEW a \in Token
        PROVE  LET u == [a EXCEPT !.open = FALSE]
               IN  /\ u \in Token /\ u.type = a.type /\ u.text = a.text
                   /\ u.size = a.size /\ u.open = FALSE
    BY DEF Token
  <2>4. t = [p.tok EXCEPT ![i] = [p.tok[i] EXCEPT !.open = FALSE]]
    OBVIOUS
  <2>5. t \in Seq(Token) /\ Len(t) = n
    BY <1>1, <2>2, <2>3, <2>4
  <2>6. ASSUME NEW k \in 1..n, k # i PROVE t[k] = p.tok[k]
    BY <1>1, <2>2, <2>4, <2>6
  <2>7. t[i] = [p.tok[i] EXCEPT !.open = FALSE]
    BY <1>1, <2>2, <2>4
  <2>8. ASSUME NEW k \in 1..n
        PROVE  /\ t[k].type = p.tok[k].type /\ t[k].text = p.tok[k].text
               /\ t[k].size = p.tok[k].size
               /\ t[k].open = IF k = i THEN FALSE ELSE p.tok[k].open
    <3> HIDE DEF t
    <3>1. CASE k = i
      BY <2>2, <2>3, <2>7, <3>1
    <3>2. CASE k # i
      BY <2>6, <3>2
    <3>3. QED
      BY <3>1, <3>2
  <2>9. QED
    BY <2>5, <2>8 DEF Shut
<1>8. QED
  <2>1. HIDE DEF i, j, t
  <2>2. p \in [tok : Seq(Token), super : Nat, err : BOOLEAN] /\ j \in Nat /\ t \in Seq(Token)
    BY <1>1, <1>3, <1>7 DEF ParserOK
  <2>3. [p EXCEPT !.tok = t, !.super = j] \in [tok : Seq(Token), super : Nat, err : BOOLEAN]
    BY <2>2
  <2>4. /\ [p EXCEPT !.tok = t, !.super = j].tok = t /\ [p EXCEPT !.tok = t, !.super = j].super = j
        /\ [p EXCEPT !.tok = t, !.super = j].err = p.err
    BY <2>2
  <2>5. j <= n
    BY <1>1, <1>3
  <2>6. QED
    BY <1>5, <1>6, <1>7, <2>3, <2>4, <2>5

\* Each lexeme has its own effect.
LEMMA ParsedIs ==
    ASSUME NEW p, NEW x \in Lexemes
    PROVE  /\ x \in Strings => Parsed(p, x) = NewToken(p, "string", x)
           /\ x \in Primitives => Parsed(p, x) = NewToken(p, "primitive", x)
           /\ x \in Opening => Parsed(p, x) = Opens(p, x)
           /\ x \in Closing => Parsed(p, x) = Closes(p, x)
           /\ x = "colon" => Parsed(p, x) = Colon(p)
           /\ x = "comma" => Parsed(p, x) = Comma(p)
           /\ x = Bad => Parsed(p, x) = Broken(p)
<1>1. CASE x \in Strings
  BY <1>1 DEF Parsed, StringToken, Strings, Primitives, Opening, Closing, Bad
<1>2. CASE x \in Primitives
  BY <1>2 DEF Parsed, PrimitiveToken, Strings, Primitives, Opening, Closing, Bad
<1>3. CASE x \in Opening
  BY <1>3 DEF Parsed, Strings, Primitives, Opening, Closing, Bad
<1>4. CASE x \in Closing
  BY <1>4 DEF Parsed, Strings, Primitives, Opening, Closing, Bad
<1>5. CASE x = "colon"
  BY <1>5 DEF Parsed, Strings, Primitives, Opening, Closing, Bad
<1>6. CASE x = "comma"
  BY <1>6 DEF Parsed, Strings, Primitives, Opening, Closing, Bad
<1>7. CASE x = Bad
  BY <1>7 DEF Parsed, Strings, Primitives, Opening, Closing, Bad
<1>8. QED
  BY <1>1, <1>2, <1>3, <1>4, <1>5, <1>6, <1>7 DEF Lexemes, Atoms

\* A key, a value or a bracket takes a token of this type.
Starts(x) == IF x \in Opening THEN x ELSE IF x \in Strings THEN "string" ELSE "primitive"

\* It is a part of the superior token, and a bracket is the next superior; without
\* a token left the parser gives up.
LEMMA PartIs ==
    ASSUME NEW p, ParserOK(p), NEW x \in Atoms \cup Opening
    PROVE  LET q == Parsed(p, x)
           IN  IF Len(p.tok) = MaxTokens THEN q = Broken(p)
               ELSE /\ q \in [tok : Seq(Token), super : Nat, err : BOOLEAN]
                    /\ ~p.err => ~q.err
                    /\ Grown(p.tok, q.tok, p.super, Starts(x), x)
                    /\ ~p.err => q.super = IF x \in Opening THEN Len(q.tok) ELSE p.super
                    /\ q.super <= Len(q.tok)
<1>1. x \in Lexemes /\ Starts(x) \in Types
  BY DEF Lexemes, Starts, Types
<1>2. CASE x \in Atoms
  <2>1. x \notin Opening
    BY <1>2 DEF Atoms, Strings, Primitives, Opening
  <2>2. Parsed(p, x) = NewToken(p, Starts(x), x)
    BY <1>1, <1>2, <2>1, ParsedIs DEF Atoms, Starts
  <2>3. CASE Len(p.tok) = MaxTokens
    BY <2>2, <2>3 DEF NewToken
  <2>4. CASE Len(p.tok) # MaxTokens
    <3>1. /\ NewToken(p, Starts(x), x) \in [tok : Seq(Token), super : Nat, err : BOOLEAN]
          /\ NewToken(p, Starts(x), x).super = p.super
          /\ NewToken(p, Starts(x), x).err = p.err
          /\ Grown(p.tok, NewToken(p, Starts(x), x).tok, p.super, Starts(x), x)
      BY <1>1, <2>4, NewTokenIs
    <3>2. p.super <= Len(NewToken(p, Starts(x), x).tok)
      BY <3>1 DEF Grown, ParserOK
    <3>3. QED
      BY <2>1, <2>2, <2>4, <3>1, <3>2
  <2>5. QED
    BY <2>3, <2>4
<1>3. CASE x \in Opening
  <2> DEFINE q == NewToken(p, x, x)
  <2>1. Parsed(p, x) = IF q.err THEN q ELSE [q EXCEPT !.super = Len(q.tok)]
    BY <1>1, <1>3, ParsedIs DEF Opens
  <2>2. Starts(x) = x
    BY <1>3 DEF Starts
  <2>3. CASE Len(p.tok) = MaxTokens
    <3>1. q = Broken(p)
      BY <2>3 DEF NewToken
    <3>2. q.err
      BY <3>1 DEF Broken, ParserOK
    <3>3. QED
      BY <2>1, <2>3, <3>1, <3>2
  <2>4. CASE Len(p.tok) # MaxTokens
    <3>1. /\ q \in [tok : Seq(Token), super : Nat, err : BOOLEAN]
          /\ q.super = p.super /\ q.err = p.err
          /\ Grown(p.tok, q.tok, p.super, x, x)
      BY <1>1, <2>2, <2>4, NewTokenIs
    <3>2. Len(q.tok) \in Nat /\ p.super <= Len(q.tok)
      BY <3>1 DEF Grown, ParserOK
    <3> DEFINE w == [q EXCEPT !.super = Len(q.tok)]
    <3>3. /\ w \in [tok : Seq(Token), super : Nat, err : BOOLEAN]
          /\ w.tok = q.tok /\ w.err = q.err /\ w.super = Len(q.tok)
      <4> HIDE DEF q
      <4> QED
        BY <3>1, <3>2
    <3>4. CASE q.err
      BY <1>3, <2>1, <2>2, <2>4, <3>1, <3>2, <3>4
    <3>5. CASE ~q.err
      <4>1. Parsed(p, x) = w
        BY <2>1, <3>5
      <4> HIDE DEF w, q
      <4> QED
        BY <1>3, <2>2, <2>4, <3>1, <3>2, <3>3, <4>1
    <3>6. QED
      BY <3>4, <3>5
  <2>5. QED
    BY <2>3, <2>4
<1>4. QED
  BY <1>2, <1>3

\* The parser's tokens stay sound, whatever the data is.
LEMMA ParsedOK ==
    ASSUME NEW p, ParserOK(p), NEW x \in Lexemes
    PROVE  ParserOK(Parsed(p, x))
<1>0. /\ p \in [tok : Seq(Token), super : Nat, err : BOOLEAN] /\ Len(p.tok) \in Nat
      /\ MaxTokens \in Nat \ {0}
  BY AlertDataAssumption DEF ParserOK
<1>1. ParserOK(Broken(p))
  BY <1>0 DEF ParserOK, Broken
<1>2. CASE x \in Atoms \cup Opening
  <2>1. CASE Len(p.tok) = MaxTokens
    BY <1>1, <1>2, <2>1, PartIs
  <2>2. CASE Len(p.tok) # MaxTokens
    <3> DEFINE q == Parsed(p, x)
    <3>1. /\ q \in [tok : Seq(Token), super : Nat, err : BOOLEAN]
          /\ Grown(p.tok, q.tok, p.super, Starts(x), x) /\ q.super <= Len(q.tok)
      BY <1>2, <2>2, PartIs
    <3> HIDE DEF q
    <3>2. Len(q.tok) <= MaxTokens
      BY <1>0, <2>2, <3>1 DEF ParserOK, Grown
    <3>3. \A i \in 1..Len(q.tok) : q.tok[i].size > 0 => i < Len(q.tok)
      BY <1>0, <3>1 DEF Grown
    <3>4. ParserOK(q)
      BY <3>1, <3>2, <3>3 DEF ParserOK
    <3>5. QED
      BY <3>4 DEF q
  <2>3. QED
    BY <2>1, <2>2
<1>3. CASE x \in Closing
  <2> DEFINE q == Closes(p, x)
             i == LastOf(OpenTokens(p))
  <2>1. q = Broken(p) \/ (/\ q \in [tok : Seq(Token), super : Nat, err : BOOLEAN]
                          /\ Shut(p.tok, q.tok, i) /\ q.super <= Len(p.tok))
    BY ClosesIs
  <2>2. Parsed(p, x) = q
    BY <1>3, ParsedIs
  <2>3. CASE q = Broken(p)
    BY <1>1, <2>2, <2>3
  <2>4. CASE /\ q \in [tok : Seq(Token), super : Nat, err : BOOLEAN]
             /\ Shut(p.tok, q.tok, i) /\ q.super <= Len(p.tok)
    <3> HIDE DEF q, i
    <3>1. ParserOK(q)
      BY <1>0, <2>4 DEF ParserOK, Shut
    <3>2. QED
      BY <2>2, <3>1
  <2>5. QED
    BY <2>1, <2>3, <2>4
<1>4. CASE x = "colon"
  <2>1. Parsed(p, x) = [p EXCEPT !.super = Len(p.tok)]
    BY <1>4, ParsedIs DEF Colon
  <2>2. QED
    BY <1>0, <2>1 DEF ParserOK
<1>5. CASE x = "comma"
  <2>1. Parsed(p, x) = p \/ Parsed(p, x) = [p EXCEPT !.super = LastOf(OpenTokens(p))]
    BY <1>5, ParsedIs DEF Comma
  <2>2. LastOf(OpenTokens(p)) \in 0..Len(p.tok)
    <3>1. OpenTokens(p) \in SUBSET (1..Len(p.tok))
      BY <1>0 DEF OpenTokens
    <3>2. QED
      BY <1>0, <3>1, LastType
  <2>3. QED
    BY <1>0, <2>1, <2>2 DEF ParserOK
<1>6. CASE x = Bad
  BY <1>1, <1>6, ParsedIs
<1>7. QED
  BY <1>2, <1>3, <1>4, <1>5, <1>6 DEF Lexemes

-----------------------------------------------------------------------------
(* What the data means, as it goes on.                                     *)

\* The data goes on by one lexeme.
LEMMA Appended ==
    ASSUME NEW d \in Seq(Lexemes), NEW x \in Lexemes
    PROVE  /\ Append(d, x) \in Seq(Lexemes) /\ Len(Append(d, x)) = Len(d) + 1
           /\ \A i \in 1..Len(d) : Append(d, x)[i] = d[i] /\ d[i] \in Lexemes
           /\ Append(d, x)[Len(d) + 1] = x /\ Append(d, x) # <<>> /\ Len(d) \in Nat
OBVIOUS

\* A value or key adds a part.
LEMMA PartsGrow ==
    ASSUME NEW d \in Seq(Lexemes), NEW x \in Lexemes
    PROVE  /\ Parts(d) \in Nat
           /\ Parts(Append(d, x)) = IF x \in Atoms \cup Opening THEN Parts(d) + 1 ELSE Parts(d)
<1> DEFINE P(e) == {k \in 1..Len(e) : e[k] \in Atoms \cup Opening}
           n == Len(d)
           e == Append(d, x)
<1>1. n \in Nat /\ IsFiniteSet(1..n)
  BY FS_Interval
<1>2. IsFiniteSet(P(d)) /\ n + 1 \notin P(d)
  <2>1. P(d) \in SUBSET (1..n)
    OBVIOUS
  <2>2. n + 1 \notin 1..n
    BY <1>1
  <2>3. QED
    BY <1>1, <2>1, <2>2, FS_Subset
<1>3. /\ Len(e) = n + 1 /\ e[n + 1] = x /\ \A k \in 1..n : e[k] = d[k]
  BY Appended
<1>4. P(e) = IF x \in Atoms \cup Opening THEN P(d) \cup {n + 1} ELSE P(d)
  <2>1. HIDE DEF e
  <2>2. \A k : k \in 1..(n + 1) <=> k \in 1..n \/ k = n + 1
    BY <1>1
  <2>3. QED
    BY <1>1, <1>3, <2>2
<1>5. Parts(d) = Cardinality(P(d)) /\ Parts(e) = Cardinality(P(e))
  BY DEF Parts
<1>6. Cardinality(P(d)) \in Nat /\ Cardinality(P(d) \cup {n + 1}) = Cardinality(P(d)) + 1
  <2>1. HIDE DEF P
  <2>2. QED
    BY <1>2, FS_AddElement, FS_CardinalityType
<1>7. QED
  <2>1. HIDE DEF P, e, n
  <2>2. CASE x \in Atoms \cup Opening
    BY <1>4, <1>5, <1>6, <2>2 DEF e
  <2>3. CASE x \notin Atoms \cup Opening
    BY <1>4, <1>5, <1>6, <2>3 DEF e
  <2>4. QED
    BY <2>2, <2>3

\* There is a value for the key that was read last.
Completes(d, x) ==
    /\ Len(d) > 1 /\ d[Len(d) - 1] \in Strings /\ d[Len(d)] = "colon" /\ x \in Atoms

\* And then there is one more member.
LEMMA MembersGrow ==
    ASSUME NEW d \in Seq(Lexemes), NEW x \in Lexemes
    PROVE  /\ Members(d) \in SUBSET (1..(Len(d) - 2))
           /\ Members(Append(d, x)) =
                 IF Completes(d, x) THEN Members(d) \cup {Len(d) - 1} ELSE Members(d)
<1> DEFINE n == Len(d)
           e == Append(d, x)
<1>1. n \in Nat /\ Len(e) = n + 1 /\ e[n + 1] = x /\ \A k \in 1..n : e[k] = d[k]
  BY Appended
<1>2. Members(d) \in SUBSET (1..(n - 2))
  BY DEF Members
<1>3. ASSUME NEW k \in 1..(n - 2) PROVE k \in Members(e) <=> k \in Members(d)
  <2>1. /\ k \in 1..n /\ k + 1 \in 1..n /\ k + 2 \in 1..n /\ k \in 1..(Len(e) - 2)
    BY <1>1
  <2>2. e[k] = d[k] /\ e[k + 1] = d[k + 1] /\ e[k + 2] = d[k + 2]
    BY <1>1, <2>1
  <2>3. QED
    BY <2>1, <2>2 DEF Members
<1>4. n - 1 \in Members(e) <=> Completes(d, x)
  <2>1. CASE n > 1
    <3>1. /\ n - 1 \in 1..n /\ (n - 1) + 1 = n /\ n \in 1..n /\ (n - 1) + 2 = n + 1
          /\ n - 1 \in 1..(Len(e) - 2)
      BY <1>1, <2>1
    <3>2. e[n - 1] = d[n - 1] /\ e[(n - 1) + 1] = d[n] /\ e[(n - 1) + 2] = x
      BY <1>1, <3>1
    <3>3. QED
      BY <2>1, <3>1, <3>2 DEF Members, Completes
  <2>2. CASE ~(n > 1)
    <3>1. n - 1 \notin 1..(Len(e) - 2)
      BY <1>1, <2>2
    <3>2. QED
      BY <2>2, <3>1 DEF Members, Completes
  <2>3. QED
    BY <2>1, <2>2
<1>5. \A k \in Members(e) : k \in 1..(n - 2) \/ k = n - 1
  <2>1. \A k \in Members(e) : k \in 1..(Len(e) - 2)
    BY DEF Members
  <2>2. QED
    BY <1>1, <2>1
<1>6. QED
  <2>1. HIDE DEF n, e
  <2>2. CASE Completes(d, x)
    BY <1>2, <1>3, <1>4, <1>5, <2>2 DEF n, e
  <2>3. CASE ~Completes(d, x)
    <3>1. \A k : k \in Members(e) <=> k \in Members(d)
      BY <1>2, <1>3, <1>4, <1>5, <2>3
    <3>2. Members(e) = Members(d)
      BY <3>1
    <3>3. QED
      BY <1>2, <2>3, <3>2 DEF n, e
  <2>4. QED
    BY <2>2, <2>3

\* The parts of Meaning.
Says(d, name, value) == \E k \in Members(d) : d[k] = name /\ d[k + 2] = value
Addresses(d) == {k \in Members(d) : d[k] = "Address" /\ d[k + 2] \in HexTexts}

\* What Meaning says, by what the members say and which of them are addresses.
LEMMA MeaningIs ==
    ASSUME NEW d
    PROVE  Meaning(d) =
             [r |-> IF Says(d, "Event", "MotionDetect") THEN 2
                    ELSE IF Says(d, "Type", "Alarm") THEN 1 ELSE 0,
              camera |-> IF Addresses(d) = {} THEN OwnAddress
                         ELSE d[LastOf(Addresses(d)) + 2]]
BY DEF Meaning, Says, Addresses, LastOf

\* Addresses are in the data, and their values too.
LEMMA AddressesType ==
    ASSUME NEW d \in Seq(Lexemes)
    PROVE  Addresses(d) \in SUBSET (1..Len(d)) /\ Addresses(d) \in SUBSET (1..(Len(d) - 2))
<1>1. Len(d) \in Nat /\ Members(d) \in SUBSET (1..(Len(d) - 2))
  BY DEF Members
<1>2. QED
  BY <1>1 DEF Addresses

\* Elsewhere the meaning stays, ...
LEMMA MeaningSame ==
    ASSUME NEW d \in Seq(Lexemes), NEW x \in Lexemes, ~Completes(d, x)
    PROVE  Meaning(Append(d, x)) = Meaning(d)
<1> DEFINE n == Len(d)
           e == Append(d, x)
<1>1. n \in Nat /\ \A k \in 1..n : e[k] = d[k]
  BY Appended
<1>2. Members(e) = Members(d) /\ Members(d) \in SUBSET (1..(n - 2))
  BY MembersGrow
<1>3. \A k \in Members(d) : e[k] = d[k] /\ e[k + 2] = d[k + 2]
  <2>1. HIDE DEF e
  <2>2. \A k \in Members(d) : k \in 1..n /\ k + 2 \in 1..n
    BY <1>1, <1>2
  <2>3. QED
    BY <1>1, <2>2
<1>4. \A name, value : Says(e, name, value) <=> Says(d, name, value)
  <2>1. HIDE DEF e
  <2>2. QED
    BY <1>2, <1>3 DEF Says
<1>5. Addresses(e) = Addresses(d)
  <2>1. HIDE DEF e
  <2>2. QED
    BY <1>2, <1>3 DEF Addresses
<1>6. CASE Addresses(d) = {}
  <2>1. HIDE DEF e
  <2>2. Meaning(e) = Meaning(d)
    BY <1>4, <1>5, <1>6, MeaningIs
  <2>3. QED
    BY <2>2 DEF e
<1>7. CASE Addresses(d) # {}
  <2>1. LastOf(Addresses(d)) \in Addresses(d)
    BY <1>1, <1>7, LastType, AddressesType
  <2>2. LastOf(Addresses(d)) \in Members(d)
    BY <2>1 DEF Addresses
  <2>3. e[LastOf(Addresses(d)) + 2] = d[LastOf(Addresses(d)) + 2]
    BY <1>3, <2>2
  <2>4. HIDE DEF e
  <2>5. Meaning(e) = Meaning(d)
    BY <1>4, <1>5, <2>3, MeaningIs
  <2>6. QED
    BY <2>5 DEF e
<1>8. QED
  BY <1>6, <1>7

\* ... and a key's value is taken.
LEMMA MeaningTakes ==
    ASSUME NEW d \in Seq(Lexemes), NEW x \in Lexemes, Completes(d, x)
    PROVE  Meaning(Append(d, x)) = Taken(Meaning(d), d[Len(d) - 1], x)
<1> DEFINE n == Len(d)
           e == Append(d, x)
           m == n - 1
           name == d[m]
<1>1. /\ n \in Nat /\ n > 1 /\ e \in Seq(Lexemes) /\ Len(e) = n + 1
      /\ \A k \in 1..n : e[k] = d[k]
      /\ e[n + 1] = x
  BY Appended DEF Completes
<1>2. Members(e) = Members(d) \cup {m} /\ Members(d) \in SUBSET (1..(n - 2))
  BY MembersGrow
<1>3. \A k \in Members(d) : e[k] = d[k] /\ e[k + 2] = d[k + 2]
  <2>1. HIDE DEF e
  <2>2. \A k \in Members(d) : k \in 1..n /\ k + 2 \in 1..n
    BY <1>1, <1>2
  <2>3. QED
    BY <1>1, <2>2
<1>4. m \in 1..n /\ m + 2 = n + 1 /\ e[m] = name /\ e[m + 2] = x
  <2>1. HIDE DEF e
  <2>2. QED
    BY <1>1
<1>5. \A u, v : Says(e, u, v) <=> Says(d, u, v) \/ (name = u /\ x = v)
  <2>1. HIDE DEF e, m, name
  <2>2. QED
    BY <1>2, <1>3, <1>4 DEF Says
<1>6. Addresses(e) = IF name = "Address" /\ x \in HexTexts
                     THEN Addresses(d) \cup {m} ELSE Addresses(d)
  <2>1. HIDE DEF e, m, name
  <2>2. QED
    BY <1>2, <1>3, <1>4 DEF Addresses
<1>7. CASE name = "Address" /\ x \in HexTexts
  <2>1. LastOf(Addresses(e)) = m
    <3>1. m \in Addresses(e) /\ m \in Nat \ {0}
      <4>1. m \in Nat \ {0}
        <5>1. n \in Nat /\ n > 1
          BY <1>1
        <5>2. HIDE DEF n
        <5>3. QED
          BY <5>1
      <4>2. HIDE DEF e, m, name
      <4>3. QED
        BY <4>1, <1>6, <1>7
    <3>2. \A k \in Addresses(e) : k \in Int /\ k <= m
      BY <1>1, <1>6, <1>7, AddressesType
    <3>3. QED
      <4>1. HIDE DEF e, m
      <4>2. QED
        BY <3>1, <3>2, LastIs
  <2>2. Addresses(e) # {}
    BY <1>6, <1>7
  <2>3. HIDE DEF e, m, name
  <2>4. /\ Says(e, "Event", "MotionDetect") <=> Says(d, "Event", "MotionDetect")
        /\ Says(e, "Type", "Alarm") <=> Says(d, "Type", "Alarm")
    BY <1>5, <1>7
  <2>5. Meaning(e) = [Meaning(d) EXCEPT !.camera = x]
    BY <1>4, <2>1, <2>2, <2>4, MeaningIs
  <2>6. Taken(Meaning(d), name, x) = [Meaning(d) EXCEPT !.camera = x]
    BY <1>7 DEF Taken
  <2>7. QED
    BY <2>5, <2>6 DEF e, name, m
<1>8. CASE ~(name = "Address" /\ x \in HexTexts)
  <2>1. Addresses(e) = Addresses(d)
    BY <1>6, <1>8
  <2>2. Addresses(d) # {} => e[LastOf(Addresses(d)) + 2] = d[LastOf(Addresses(d)) + 2]
    <3>1. SUFFICES ASSUME Addresses(d) # {}
                   PROVE  e[LastOf(Addresses(d)) + 2] = d[LastOf(Addresses(d)) + 2]
      OBVIOUS
    <3>2. LastOf(Addresses(d)) \in Addresses(d)
      BY <1>1, <3>1, LastType, AddressesType
    <3>3. LastOf(Addresses(d)) \in Members(d)
      BY <3>2 DEF Addresses
    <3>4. QED
      BY <1>3, <3>3
  <2>3. HIDE DEF e, m, name
  <2>4. Meaning(e).camera = Meaning(d).camera
    BY <2>1, <2>2, MeaningIs
  <2>5. Meaning(e) = [r |-> IF Says(e, "Event", "MotionDetect") THEN 2
                            ELSE IF Says(e, "Type", "Alarm") THEN 1 ELSE 0,
                      camera |-> Meaning(d).camera]
    BY <2>4, MeaningIs
  <2>6. Meaning(d).r = IF Says(d, "Event", "MotionDetect") THEN 2
                       ELSE IF Says(d, "Type", "Alarm") THEN 1 ELSE 0
    BY MeaningIs
  <2>7. \A r : [Meaning(d) EXCEPT !.r = r] = [r |-> r, camera |-> Meaning(d).camera]
    BY MeaningIs
  <2>8. Meaning(d) = [r |-> Meaning(d).r, camera |-> Meaning(d).camera]
    BY MeaningIs
  <2>9. CASE name = "Event" /\ x = "MotionDetect"
    <3>1. Says(e, "Event", "MotionDetect")
      BY <1>5, <2>9
    <3>2. Taken(Meaning(d), name, x) = [Meaning(d) EXCEPT !.r = 2]
      BY <2>9 DEF Taken
    <3>3. QED
      BY <2>5, <2>7, <3>1, <3>2 DEF e, name, m
  <2>10. CASE name = "Type" /\ x = "Alarm"
    <3>1. /\ Says(e, "Event", "MotionDetect") <=> Says(d, "Event", "MotionDetect")
          /\ Says(e, "Type", "Alarm")
      BY <1>5, <2>10
    <3>2. Taken(Meaning(d), name, x)
          = IF Meaning(d).r = 0 THEN [Meaning(d) EXCEPT !.r = 1] ELSE Meaning(d)
      BY <2>10 DEF Taken
    <3>3. QED
      BY <2>5, <2>6, <2>7, <2>8, <3>1, <3>2 DEF e, name, m
  <2>11. CASE ~(name = "Event" /\ x = "MotionDetect") /\ ~(name = "Type" /\ x = "Alarm")
    <3>1. /\ Says(e, "Event", "MotionDetect") <=> Says(d, "Event", "MotionDetect")
          /\ Says(e, "Type", "Alarm") <=> Says(d, "Type", "Alarm")
      BY <1>5, <2>11
    <3>2. Taken(Meaning(d), name, x) = Meaning(d)
      BY <1>8, <2>11 DEF Taken
    <3>3. QED
      BY <2>5, <2>6, <2>8, <3>1, <3>2 DEF e, name, m
  <2>12. QED
    BY <2>9, <2>10, <2>11
<1>9. QED
  BY <1>7, <1>8

-----------------------------------------------------------------------------
(* Where the parser is, while the data is JSON.                            *)

\* o are the open tokens, from the outermost to the innermost, and stack says
\* what they are.
Nest(tok, stack, o) ==
    /\ o \in Seq(Nat) /\ Len(o) = Len(stack)
    /\ \A j \in 1..Len(o) :
          /\ o[j] \in 1..Len(tok) /\ tok[o[j]].open
          /\ tok[o[j]].type = stack[j] /\ tok[o[j]].text = stack[j]
    /\ \A i, j \in 1..Len(o) : i < j => o[i] < o[j]
    /\ \A i \in 1..Len(tok) : tok[i].open => \E j \in 1..Len(o) : o[j] = i

\* The innermost one.
Top(o) == IF o = <<>> THEN 0 ELSE o[Len(o)]

\* All but the last.
LEMMA FrontIs ==
    ASSUME NEW S, NEW s \in Seq(S), s # <<>>
    PROVE  /\ Front(s) \in Seq(S) /\ Len(Front(s)) = Len(s) - 1 /\ Len(s) \in Nat \ {0}
           /\ \A i \in 1..(Len(s) - 1) : Front(s)[i] = s[i]
<1>1. Len(s) \in Nat \ {0} /\ \A i \in 1..Len(s) : s[i] \in S
  OBVIOUS
<1>2. PICK n \in Nat : n = Len(s) - 1
  BY <1>1
<1>3. \A i \in 1..n : s[i] \in S
  BY <1>1, <1>2
<1>4. /\ SubSeq(s, 1, n) \in Seq(S)
      /\ Len(SubSeq(s, 1, n)) = IF 1 <= n THEN n - 1 + 1 ELSE 0
      /\ \A i \in 1..(n - 1 + 1) : SubSeq(s, 1, n)[i] = s[1 + i - 1]
  BY <1>2, <1>3, SubSeqProperties
<1>5. Front(s) = SubSeq(s, 1, n)
  BY <1>2, Zenon DEF Front
<1>6. QED
  <2>1. Front(s) \in Seq(S)
    BY <1>4, <1>5
  <2>2. Len(Front(s)) = n
    <3>1. (IF 1 <= n THEN n - 1 + 1 ELSE 0) = n
      BY <1>2
    <3>2. QED
      BY <1>4, <1>5, <3>1, Zenon
  <2>3. ASSUME NEW i \in 1..n PROVE Front(s)[i] = s[i]
    <3>1. i \in 1..(n - 1 + 1) /\ 1 + i - 1 = i
      BY <1>2
    <3>2. SubSeq(s, 1, n)[i] = s[1 + i - 1]
      BY <1>4, <3>1
    <3>3. QED
      BY <1>5, <3>1, <3>2, Zenon
  <2>4. QED
    BY <1>1, <1>2, <2>1, <2>2, <2>3

\* The innermost open token.
LEMMA TopIs ==
    ASSUME NEW tok \in Seq(Token), NEW stack \in Seq(Opening), NEW o, Nest(tok, stack, o)
    PROVE  /\ o = <<>> <=> stack = <<>>
           /\ o # <<>> =>
                /\ Top(o) \in 1..Len(tok) /\ tok[Top(o)].open
                /\ tok[Top(o)].type = Last(stack)
                /\ tok[Top(o)].type \in Opening /\ tok[Top(o)].text \in Opening
<1>1. o \in Seq(Nat) /\ Len(o) = Len(stack) /\ Len(o) \in Nat
  BY DEF Nest
<1>2. o = <<>> <=> stack = <<>>
  BY <1>1
<1>3. ASSUME o # <<>>
      PROVE  /\ Top(o) \in 1..Len(tok) /\ tok[Top(o)].open
             /\ tok[Top(o)].type = Last(stack)
             /\ tok[Top(o)].type \in Opening /\ tok[Top(o)].text \in Opening
  <2>1. PICK n \in Nat : n = Len(o)
    BY <1>1
  <2>2. n \in 1..n /\ n = Len(stack) /\ Top(o) = o[n]
    BY <1>1, <1>3, <2>1 DEF Top
  <2>3. /\ o[n] \in 1..Len(tok) /\ tok[o[n]].open
        /\ tok[o[n]].type = stack[n] /\ tok[o[n]].text = stack[n]
    BY <2>1, <2>2 DEF Nest
  <2>4. Last(stack) = stack[n] /\ stack[n] \in Opening
    BY <2>2 DEF Last
  <2>5. QED
    BY <2>2, <2>3, <2>4
<1>4. QED
  BY <1>2, <1>3

\* It is the last of the open tokens, and after it the one around it is.
LEMMA OpenIs ==
    ASSUME NEW p, p.tok \in Seq(Token), NEW stack \in Seq(Opening), NEW o,
           Nest(p.tok, stack, o), o # <<>>
    PROVE  /\ OpenTokens(p) # {}
           /\ LastOf(OpenTokens(p)) = Top(o)
           /\ LastOf(OpenTokens(p) \ {Top(o)}) = Top(Front(o))
<1>1. o \in Seq(Nat) /\ Len(o) \in Nat \ {0} /\ DOMAIN p.tok = 1..Len(p.tok) /\ Len(p.tok) \in Nat
  BY DEF Nest
<1>2. PICK n \in Nat : n = Len(o) /\ n # 0
  BY <1>1
<1>3. n \in 1..n /\ Top(o) = o[n]
  BY <1>2 DEF Top
<1>4. \A j \in 1..n : o[j] \in Nat \ {0} /\ o[j] \in OpenTokens(p)
  BY <1>1, <1>2 DEF Nest, OpenTokens
<1>5. \A i \in OpenTokens(p) : \E j \in 1..n : o[j] = i
  BY <1>1, <1>2 DEF Nest, OpenTokens
<1>6. \A i, j \in 1..n : i < j => o[i] < o[j]
  BY <1>2 DEF Nest
<1>7. LastOf(OpenTokens(p)) = o[n]
  <2>1. \A i \in OpenTokens(p) : i \in Int /\ i <= o[n]
    <3>1. SUFFICES ASSUME NEW i \in OpenTokens(p) PROVE i \in Int /\ i <= o[n]
      OBVIOUS
    <3>2. PICK j \in 1..n : o[j] = i
      BY <1>5
    <3>3. j = n \/ j < n
      BY <1>2
    <3>4. QED
      BY <1>3, <1>4, <1>6, <3>2, <3>3
  <2>2. QED
    BY <1>3, <1>4, <2>1, LastIs
<1>8. LastOf(OpenTokens(p) \ {o[n]}) = Top(Front(o))
  <2>1. /\ Front(o) \in Seq(Nat) /\ Len(Front(o)) = n - 1
        /\ \A i \in 1..(n - 1) : Front(o)[i] = o[i]
    BY <1>1, <1>2, FrontIs
  <2>2. CASE n = 1
    <3>1. OpenTokens(p) \ {o[n]} = {}
      BY <1>5, <2>2
    <3>2. Front(o) = <<>>
      BY <2>1, <2>2
    <3>3. QED
      BY <3>1, <3>2 DEF LastOf, Top
  <2>3. CASE n # 1
    <3>0. PICK m \in Nat : m = n - 1
      BY <1>2
    <3>1. m = n - 1 /\ m \in 1..n /\ m < n /\ m \in 1..(n - 1) /\ m # 0
      BY <1>2, <2>3, <3>0
    <3>2. Top(Front(o)) = o[m]
      BY <2>1, <3>1 DEF Top
    <3>3. o[m] # o[n]
      BY <1>3, <1>4, <1>6, <3>1
    <3>4. \A i \in OpenTokens(p) \ {o[n]} : i \in Int /\ i <= o[m]
      <4>1. SUFFICES ASSUME NEW i \in OpenTokens(p) \ {o[n]} PROVE i \in Int /\ i <= o[m]
        OBVIOUS
      <4>2. PICK j \in 1..n : o[j] = i
        BY <1>5
      <4>3. j = m \/ j < m
        BY <1>2, <3>1, <4>1, <4>2
      <4>4. QED
        BY <1>4, <1>6, <3>1, <4>2, <4>3
    <3>5. o[m] \in OpenTokens(p) \ {o[n]} /\ o[m] \in Nat \ {0}
      BY <1>4, <3>1, <3>3
    <3>6. LastOf(OpenTokens(p) \ {o[n]}) = o[m]
      BY <3>4, <3>5, LastIs
    <3>7. QED
      BY <3>2, <3>6
  <2>4. QED
    BY <2>2, <2>3
<1>9. QED
  BY <1>3, <1>4, <1>7, <1>8

\* A new token is open only if it is a bracket, and is then the innermost.
LEMMA NestGrown ==
    ASSUME NEW s \in Seq(Token), NEW t, NEW k, NEW type, NEW text, Grown(s, t, k, type, text),
           NEW stack \in Seq(Opening), NEW o, Nest(s, stack, o)
    PROVE  /\ type \notin Opening => Nest(t, stack, o)
           /\ type \in Opening /\ text = type =>
                /\ Nest(t, Append(stack, type), Append(o, Len(t)))
                /\ Top(Append(o, Len(t))) = Len(t) /\ Append(o, Len(t)) # <<>>
<1>1. PICK n \in Nat, m \in Nat : n = Len(s) /\ m = Len(o)
  BY DEF Nest
<1>2. /\ Len(t) = n + 1 /\ t[n + 1].open = (type \in Opening)
      /\ t[n + 1].type = type /\ t[n + 1].text = text
      /\ \A i \in 1..n : t[i].type = s[i].type /\ t[i].text = s[i].text /\ t[i].open = s[i].open
  BY <1>1 DEF Grown
<1>3. /\ o \in Seq(Nat) /\ m = Len(stack)
      /\ \A j \in 1..m : /\ o[j] \in 1..n /\ s[o[j]].open
                         /\ s[o[j]].type = stack[j] /\ s[o[j]].text = stack[j]
      /\ \A i, j \in 1..m : i < j => o[i] < o[j]
      /\ \A i \in 1..n : s[i].open => \E j \in 1..m : o[j] = i
  BY <1>1 DEF Nest
<1>4. \A i : i \in 1..(n + 1) <=> i \in 1..n \/ i = n + 1
  BY <1>1
<1>5. \A j \in 1..m : /\ o[j] \in 1..Len(t) /\ t[o[j]].open
                      /\ t[o[j]].type = stack[j] /\ t[o[j]].text = stack[j]
  BY <1>2, <1>3, <1>4
<1>6. ASSUME type \notin Opening PROVE Nest(t, stack, o)
  <2>1. ASSUME NEW i \in 1..(n + 1), t[i].open PROVE \E j \in 1..m : o[j] = i
    BY <1>2, <1>3, <1>4, <1>6, <2>1
  <2>2. QED
    BY <1>1, <1>2, <1>3, <1>5, <2>1 DEF Nest
<1>7. ASSUME type \in Opening, text = type
      PROVE  /\ Nest(t, Append(stack, type), Append(o, Len(t)))
             /\ Top(Append(o, Len(t))) = Len(t) /\ Append(o, Len(t)) # <<>>
  <2> DEFINE w == Append(o, n + 1)
             st == Append(stack, type)
  <2>1. /\ w \in Seq(Nat) /\ Len(w) = m + 1 /\ w[m + 1] = n + 1 /\ w # <<>>
        /\ \A j \in 1..m : w[j] = o[j]
    <3>1. n + 1 \in Nat /\ Len(o) = m /\ o \in Seq(Nat)
      BY <1>1, <1>3
    <3>2. QED
      BY <3>1, AppendProperties
  <2>2. Len(st) = m + 1 /\ st[m + 1] = type /\ \A j \in 1..m : st[j] = stack[j]
    BY <1>3, <1>7
  <2>3. \A j : j \in 1..(m + 1) <=> j \in 1..m \/ j = m + 1
    BY <1>1
  <2> HIDE DEF w, st
  <2>4. ASSUME NEW j \in 1..(m + 1)
        PROVE  /\ w[j] \in 1..(n + 1) /\ t[w[j]].open
               /\ t[w[j]].type = st[j] /\ t[w[j]].text = st[j]
    <3>1. CASE j \in 1..m
      BY <1>2, <1>5, <2>1, <2>2, <3>1
    <3>2. CASE j = m + 1
      <4>1. w[j] = n + 1 /\ st[j] = type /\ n + 1 \in 1..(n + 1)
        BY <1>1, <2>1, <2>2, <3>2
      <4>2. t[n + 1].open /\ t[n + 1].type = type /\ t[n + 1].text = type
        BY <1>2, <1>7
      <4>3. QED
        BY <4>1, <4>2, Zenon
    <3>3. QED
      BY <2>3, <3>1, <3>2
  <2>5. ASSUME NEW i \in 1..(m + 1), NEW j \in 1..(m + 1), i < j PROVE w[i] < w[j]
    <3>1. i \in 1..m
      BY <1>1, <2>5
    <3>2. CASE j \in 1..m
      BY <1>3, <2>1, <2>5, <3>1, <3>2
    <3>3. CASE j = m + 1
      <4>1. w[i] \in 1..n /\ w[j] = n + 1
        BY <1>3, <2>1, <3>1, <3>3
      <4>2. QED
        BY <1>1, <4>1
    <3>4. QED
      BY <2>3, <3>2, <3>3
  <2>6. ASSUME NEW i \in 1..(n + 1), t[i].open PROVE \E j \in 1..(m + 1) : w[j] = i
    <3>1. CASE i \in 1..n
      <4>1. PICK j \in 1..m : o[j] = i
        BY <1>2, <1>3, <2>6, <3>1
      <4>2. QED
        BY <2>1, <2>3, <4>1
    <3>2. CASE i = n + 1
      <4>1. m + 1 \in 1..(m + 1)
        BY <1>1
      <4>2. QED
        BY <2>1, <3>2, <4>1
    <3>3. QED
      BY <1>4, <3>1, <3>2
  <2>7. Nest(t, st, w)
    BY <1>2, <2>1, <2>2, <2>4, <2>5, <2>6 DEF Nest
  <2>8. QED
    BY <1>2, <2>1, <2>7 DEF w, st, Top
<1>8. QED
  BY <1>6, <1>7

\* After the innermost token is closed the one around it is the innermost.
LEMMA NestShut ==
    ASSUME NEW s \in Seq(Token), NEW t,
           NEW stack \in Seq(Opening), NEW o, Nest(s, stack, o), o # <<>>,
           Shut(s, t, Top(o))
    PROVE  Nest(t, Front(stack), Front(o)) /\ Front(stack) \in Seq(Opening)
<1>1. PICK n \in Nat, m \in Nat : n = Len(s) /\ m = Len(o) /\ m # 0
  BY DEF Nest
<1>2. /\ o \in Seq(Nat) /\ m = Len(stack) /\ stack # <<>>
      /\ \A j \in 1..m : /\ o[j] \in 1..n /\ s[o[j]].open
                         /\ s[o[j]].type = stack[j] /\ s[o[j]].text = stack[j]
      /\ \A i, j \in 1..m : i < j => o[i] < o[j]
      /\ \A i \in 1..n : s[i].open => \E j \in 1..m : o[j] = i
  BY <1>1 DEF Nest
<1>3. Top(o) = o[m] /\ m \in 1..m
  BY <1>1 DEF Top
<1>4. /\ Len(t) = n
      /\ \A i \in 1..n : /\ t[i].type = s[i].type /\ t[i].text = s[i].text
                         /\ t[i].open = IF i = o[m] THEN FALSE ELSE s[i].open
  BY <1>1, <1>3 DEF Shut
<1>5. /\ Front(o) \in Seq(Nat) /\ Len(Front(o)) = m - 1
      /\ \A i \in 1..(m - 1) : Front(o)[i] = o[i]
  <2>1. o \in Seq(Nat) /\ o # <<>> /\ Len(o) = m
    BY <1>1, <1>2
  <2>2. /\ Front(o) \in Seq(Nat) /\ Len(Front(o)) = Len(o) - 1
        /\ \A i \in 1..(Len(o) - 1) : Front(o)[i] = o[i]
    BY <2>1, FrontIs
  <2>3. QED
    BY <2>1, <2>2
<1>6. /\ Front(stack) \in Seq(Opening) /\ Len(Front(stack)) = m - 1
      /\ \A i \in 1..(m - 1) : Front(stack)[i] = stack[i]
  <2>1. stack # <<>> /\ Len(stack) = m
    BY <1>1, <1>2
  <2>2. /\ Front(stack) \in Seq(Opening) /\ Len(Front(stack)) = Len(stack) - 1
        /\ \A i \in 1..(Len(stack) - 1) : Front(stack)[i] = stack[i]
    BY <2>1, FrontIs
  <2>3. QED
    BY <2>1, <2>2
<1>7. \A j : j \in 1..m <=> j \in 1..(m - 1) \/ j = m
  BY <1>1
<1>8. \A j \in 1..(m - 1) : j < m
  BY <1>1
<1>9. \A j \in 1..(m - 1) : o[j] # o[m]
  <2>1. SUFFICES ASSUME NEW j \in 1..(m - 1) PROVE o[j] # o[m]
    OBVIOUS
  <2>2. o[j] < o[m] /\ o[j] \in Nat /\ o[m] \in Nat
    BY <1>2, <1>3, <1>7, <1>8
  <2>3. QED
    BY <2>2
<1>10. ASSUME NEW j \in 1..(m - 1)
       PROVE  /\ Front(o)[j] \in 1..n /\ t[Front(o)[j]].open
              /\ t[Front(o)[j]].type = Front(stack)[j]
              /\ t[Front(o)[j]].text = Front(stack)[j]
  <2>1. Front(o)[j] = o[j] /\ Front(stack)[j] = stack[j] /\ o[j] \in 1..n /\ o[j] # o[m]
    BY <1>2, <1>5, <1>6, <1>7, <1>9
  <2>2. s[o[j]].open /\ s[o[j]].type = stack[j] /\ s[o[j]].text = stack[j]
    BY <1>2, <1>7
  <2>3. QED
    BY <1>4, <2>1, <2>2
<1>11. ASSUME NEW i \in 1..(m - 1), NEW j \in 1..(m - 1), i < j PROVE Front(o)[i] < Front(o)[j]
  BY <1>2, <1>5, <1>7, <1>11
<1>12. ASSUME NEW i \in 1..n, t[i].open PROVE \E j \in 1..(m - 1) : Front(o)[j] = i
  <2>1. i # o[m] /\ s[i].open
    BY <1>4, <1>12
  <2>2. PICK j \in 1..m : o[j] = i
    BY <1>2, <2>1
  <2>3. QED
    BY <1>5, <1>7, <2>1, <2>2
<1>13. QED
  BY <1>4, <1>5, <1>6, <1>10, <1>11, <1>12 DEF Nest

\* Where the grammar can be.
Wants == {"value", "item", "member", "key", "colon", "more", "end", "invalid"}
Place == [stack : Seq(Opening), want : Wants]

\* The last token is a key that has no value yet.
IsKey(tok, m, name) ==
    /\ m > 1 /\ name \in Strings
    /\ tok[m].type = "string" /\ tok[m].text = name /\ tok[m].size = 0
    /\ ~(tok[m - 1].type = "string" /\ tok[m - 1].size = 1)

\* The parser is just inside of the innermost bracket, ...
Inside(p, d, o) == o # <<>> /\ p.super = Top(o) /\ d # <<>>

\* ... about to read a member or an element, ...
Between(p, d, o) == Inside(p, d, o) /\ d[Len(d)] # "colon"

\* ... or at the value of a member.
AfterKey(p, d, o) ==
    /\ o # <<>> /\ p.super = Len(p.tok)
    /\ Len(d) > 1 /\ d[Len(d)] = "colon" /\ IsKey(p.tok, Len(p.tok), d[Len(d) - 1])

\* Where it is when the grammar wants something.
Stands(p, want, d, o) ==
    /\ want = "value" => \/ d = <<>> /\ o = <<>> /\ p.super = 0
                         \/ AfterKey(p, d, o)
                         \/ Between(p, d, o)
    /\ want \in {"item", "member", "key"} => Between(p, d, o)
    /\ want = "colon" => Inside(p, d, o) /\ IsKey(p.tok, Len(p.tok), d[Len(d)])
    /\ want = "more" => /\ o # <<>> /\ p.super > 0
                        /\ p.super # Top(o) => p.tok[p.super].type = "string"
    /\ want = "end" => o = <<>> /\ d # <<>>

\* What the tokens say is what the data says.
Told(tok, d) ==
    /\ Len(tok) = Parts(d) /\ (d = <<>> <=> tok = <<>>)
    /\ d # <<>> => Scan(tok) = Meaning(d) /\ (d[1] = "object" => tok[1].type = "object")
    /\ Len(tok) > 1 /\ tok[1].type = "object" => tok[1].size > 0

\* The parser has read d, and o are the tokens that are open.
Reads(p, j, d, o) == Told(p.tok, d) /\ Nest(p.tok, j.stack, o) /\ Stands(p, j.want, d, o)

\* How the grammar goes on.
LEMMA JsonIs ==
    ASSUME NEW j \in Place, NEW x \in Lexemes
    PROVE  LET k == JsonAfter(j, x)
           IN  \/ /\ j.want \in {"value", "item"} /\ x \in Opening
                  /\ \E w \in {"member", "item"} :
                        k = [stack |-> Append(j.stack, x), want |-> w]
               \/ j.want \in {"value", "item"} /\ x \in Atoms /\ k = Ended(j.stack)
               \/ /\ j.want \in {"key", "member"} /\ x \in Strings
                  /\ k = [stack |-> j.stack, want |-> "colon"]
               \/ /\ j.want = "colon" /\ x = "colon"
                  /\ k = [stack |-> j.stack, want |-> "value"]
               \/ /\ j.want = "more" /\ x = "comma"
                  /\ \E w \in {"key", "value"} : k = [stack |-> j.stack, want |-> w]
               \/ /\ j.want \in {"more", "member", "item"} /\ x \in Closing
                  /\ j.stack # <<>>
                  /\ Last(j.stack) = IF x = "end_object" THEN "object" ELSE "array"
                  /\ k = Ended(Front(j.stack))
               \/ k = Invalid
<1> DEFINE top == IF j.stack = <<>> THEN "none" ELSE Last(j.stack)
           k == JsonAfter(j, x)
<1>1. j \in [stack : Seq(Opening), want : Wants]
  BY DEF Place
<1>3. CASE j.want \in {"value", "item"} /\ x \in Opening
  <2>1. k = [stack |-> Append(j.stack, x), want |-> IF x = "object" THEN "member" ELSE "item"]
    BY <1>3 DEF JsonAfter, Opening, Atoms, Strings, Primitives
  <2>2. QED
    BY <1>3, <2>1
<1>4. CASE j.want \in {"value", "item"} /\ x \in Atoms
  <2>1. x \notin Opening
    BY <1>4 DEF Atoms, Strings, Primitives, Opening
  <2>2. k = Ended(j.stack)
    BY <1>4, <2>1 DEF JsonAfter, Atoms, Strings, Primitives
  <2>3. QED
    BY <1>4, <2>2
<1>5. CASE j.want \in {"key", "member"} /\ x \in Strings
  <2>1. k = [j EXCEPT !.want = "colon"]
    BY <1>5 DEF JsonAfter, Opening, Strings
  <2>2. QED
    BY <1>1, <1>5, <2>1
<1>6. CASE j.want = "colon" /\ x = "colon"
  <2>1. k = [j EXCEPT !.want = "value"]
    BY <1>6 DEF JsonAfter
  <2>2. QED
    BY <1>1, <1>6, <2>1
<1>7. CASE j.want = "more" /\ x = "comma"
  <2>1. k = [j EXCEPT !.want = IF top = "object" THEN "key" ELSE "value"]
    BY <1>7 DEF JsonAfter
  <2>2. QED
    BY <1>1, <1>7, <2>1
<1>8. CASE \/ j.want \in {"more", "member"} /\ top = "object" /\ x = "end_object"
           \/ j.want \in {"more", "item"} /\ top = "array" /\ x = "end_array"
  <2>1. /\ x \in Closing /\ x \notin Opening /\ x \notin Atoms /\ x \notin Strings
        /\ x # "colon" /\ x # "comma"
    BY <1>8 DEF Closing, Opening, Atoms, Strings, Primitives
  <2>2. j.stack # <<>> /\ Last(j.stack) = IF x = "end_object" THEN "object" ELSE "array"
    BY <1>8
  <2>3. k = Ended(Front(j.stack))
    BY <1>8, <2>1 DEF JsonAfter
  <2>4. QED
    BY <1>8, <2>1, <2>2, <2>3
<1>9. QED
  <2>1. ASSUME ~(j.want \in {"value", "item"} /\ x \in Opening),
               ~(j.want \in {"value", "item"} /\ x \in Atoms),
               ~(j.want \in {"key", "member"} /\ x \in Strings),
               ~(j.want = "colon" /\ x = "colon"),
               ~(j.want = "more" /\ x = "comma"),
               ~(\/ j.want \in {"more", "member"} /\ top = "object" /\ x = "end_object"
                 \/ j.want \in {"more", "item"} /\ top = "array" /\ x = "end_array")
        PROVE  k = Invalid
    BY <2>1 DEF JsonAfter
  <2>2. QED
    BY <1>3, <1>4, <1>5, <1>6, <1>7, <1>8, <2>1

\* The grammar's place is one.
LEMMA JsonType ==
    ASSUME NEW j \in Place, NEW x \in Lexemes
    PROVE  JsonAfter(j, x) \in Place
<1> DEFINE k == JsonAfter(j, x)
<1>1. j.stack \in Seq(Opening) /\ j.want \in Wants
  BY DEF Place
<1>2. ASSUME NEW s \in Seq(Opening) PROVE Ended(s) \in Place
  BY DEF Ended, Place, Wants
<1>3. Invalid \in Place
  BY DEF Invalid, Place, Wants
<1>4. ASSUME x \in Opening PROVE Append(j.stack, x) \in Seq(Opening)
  BY <1>1, <1>4
<1>5. ASSUME j.stack # <<>> PROVE Front(j.stack) \in Seq(Opening)
  BY <1>1, <1>5, FrontIs
<1>6. ASSUME NEW s \in Seq(Opening), NEW w \in Wants PROVE [stack |-> s, want |-> w] \in Place
  BY DEF Place
<1>7. {"member", "item", "key", "value", "colon"} \subseteq Wants
  BY DEF Wants
<1>8. QED
  <2>1. HIDE DEF k
  <2>2. \/ \E s \in Seq(Opening), w \in Wants : k = [stack |-> s, want |-> w]
        \/ \E s \in Seq(Opening) : k = Ended(s)
        \/ k = Invalid
    BY <1>1, <1>4, <1>5, <1>7, JsonIs DEF k
  <2>3. k \in Place
    BY <1>2, <1>3, <1>6, <2>2
  <2>4. QED
    BY <2>3 DEF k

\* A token that is closed says what it said.
LEMMA ShutSame ==
    ASSUME NEW s \in Seq(Token), NEW t, NEW k, Shut(s, t, k)
    PROVE  SameUpTo(s, t, Len(s))
<1>1. PICK n \in Nat : n = Len(s)
  OBVIOUS
<1>2. /\ Len(t) = n
      /\ \A i \in 1..n : t[i].type = s[i].type /\ t[i].text = s[i].text /\ t[i].size = s[i].size
  BY <1>1 DEF Shut
<1>3. ASSUME NEW i \in 1..n, NEW a PROVE With(s, i, a) = With(t, i, a)
  <2>1. CASE i = n
    BY <1>1, <1>2, <2>1 DEF With, IsField
  <2>2. CASE i # n
    <3>1. i + 1 \in 1..n
      BY <1>1, <2>2
    <3>2. QED
      BY <1>1, <1>2, <3>1 DEF With, IsField
  <2>3. QED
    BY <2>1, <2>2
<1>4. QED
  BY <1>1, <1>3 DEF SameUpTo

\* A new part of a bracket changes nothing of what was taken.
LEMMA SameGrown ==
    ASSUME NEW p, ParserOK(p), NEW t, NEW type, NEW text,
           Grown(p.tok, t, p.super, type, text),
           p.super \in 1..Len(p.tok), p.tok[p.super].type \in Opening,
           p.tok[p.super].text \in Opening
    PROVE  SameUpTo(p.tok, t, Len(p.tok))
<1> DEFINE s == p.tok
           k == p.super
<1>1. PICK n \in Nat : n = Len(s)
  BY DEF ParserOK
<1>2. /\ Len(t) = n + 1
      /\ \A i \in 1..n : t[i].type = s[i].type /\ t[i].text = s[i].text
      /\ \A i \in 1..n : t[i].size = IF i = k THEN s[i].size + 1 ELSE s[i].size
      /\ \A i \in 1..n : s[i].size \in Nat /\ (s[i].size > 0 => i < n)
      /\ k \in 1..n /\ s[k].type # "string" /\ s[k].text \in Opening
  <2>1. s[k].type # "string"
    BY DEF Opening
  <2>2. \A i \in 1..n : s[i].size \in Nat
    <3>1. s \in Seq(Token)
      BY DEF ParserOK
    <3>2. \A i \in 1..n : s[i] \in Token
      BY <1>1, <3>1
    <3>3. QED
      BY <3>2 DEF Token
  <2>3. \A i \in 1..n : s[i].size > 0 => i < n
    BY <1>1 DEF ParserOK
  <2>4. QED
    BY <1>1, <2>1, <2>2, <2>3 DEF Grown
<1> HIDE DEF s, k
<1>3. ASSUME NEW i \in 1..n, NEW a PROVE With(s, i, a) = With(t, i, a)
  <2>1. CASE s[i].type # "string"
    BY <1>2, <2>1 DEF With, IsField
  <2>2. CASE s[i].type = "string"
    <3>1. i # k /\ t[i].size = s[i].size /\ t[i].type = s[i].type /\ t[i].text = s[i].text
      BY <1>2, <2>2
    <3>2. CASE i = n
      BY <1>1, <1>2, <3>1, <3>2 DEF With, IsField
    <3>3. CASE i # n /\ i + 1 # k
      <4>1. i + 1 \in 1..n /\ i < n /\ i < n + 1
        BY <1>1, <3>3
      <4>2. t[i + 1].size = s[i + 1].size /\ t[i + 1].text = s[i + 1].text
        BY <1>2, <3>3, <4>1
      <4>3. QED
        BY <1>1, <1>2, <3>1, <4>1, <4>2 DEF With, IsField
    <3>4. CASE i # n /\ i + 1 = k
      <4>1. s[i + 1].text \in Opening /\ t[i + 1].text \in Opening
        BY <1>2, <3>4
      <4>2. Taken(a, s[i].text, s[i + 1].text) = a /\ Taken(a, t[i].text, t[i + 1].text) = a
        BY <4>1, TakenBracket
      <4>3. QED
        BY <4>2 DEF With
    <3>5. QED
      BY <3>2, <3>3, <3>4
  <2>3. QED
    BY <2>1, <2>2
<1>4. QED
  BY <1>1, <1>3 DEF SameUpTo, s

\* The value of a key changes only what the key says.
LEMMA KeyGrown ==
    ASSUME NEW p, ParserOK(p), NEW t, NEW type, NEW text, NEW name,
           p.super = Len(p.tok), IsKey(p.tok, Len(p.tok), name),
           Grown(p.tok, t, p.super, type, text)
    PROVE  LET m == Len(p.tok)
           IN  /\ m \in Nat /\ m > 1 /\ Len(t) = m + 1
               /\ SameUpTo(p.tok, t, m - 1) /\ ~IsField(p.tok, m) /\ IsField(t, m)
               /\ t[m].text = name /\ t[m + 1].text = text
<1> DEFINE s == p.tok
<1>1. PICK n \in Nat : n = Len(s)
  BY DEF ParserOK
<1>2. /\ Len(t) = n + 1 /\ n > 1
      /\ \A i \in 1..n : t[i].type = s[i].type /\ t[i].text = s[i].text
      /\ \A i \in 1..n : t[i].size = IF i = n THEN s[i].size + 1 ELSE s[i].size
      /\ s[n].type = "string" /\ s[n].text = name /\ s[n].size = 0
      /\ ~(s[n - 1].type = "string" /\ s[n - 1].size = 1)
      /\ t[n + 1].size = 0 /\ t[n + 1].text = text
  BY <1>1 DEF Grown, IsKey
<1> HIDE DEF s
<1>3. n \in 1..n /\ ~(n < n) /\ n < n + 1
  BY <1>1, <1>2
<1>4. ~IsField(s, n)
  BY <1>1, <1>3 DEF IsField
<1>5. IsField(t, n)
  BY <1>2, <1>3 DEF IsField
<1>6. t[n].text = name
  BY <1>2, <1>3
<1>7. ASSUME NEW i \in 1..(n - 1), NEW a PROVE With(s, i, a) = With(t, i, a)
  <2>1. /\ i \in 1..n /\ i + 1 \in 1..n /\ i # n /\ i < n /\ i < n + 1
    BY <1>1
  <2>2. t[i].type = s[i].type /\ t[i].text = s[i].text /\ t[i].size = s[i].size
    BY <1>2, <2>1
  <2>3. CASE i = n - 1
    <3>1. ~IsField(s, i) /\ ~IsField(t, i)
      BY <1>2, <2>2, <2>3 DEF IsField
    <3>2. QED
      BY <3>1 DEF With
  <2>4. CASE i # n - 1
    <3>1. i + 1 # n
      BY <1>1, <2>1, <2>4
    <3>2. t[i + 1].size = s[i + 1].size /\ t[i + 1].text = s[i + 1].text
      BY <1>2, <2>1, <3>1
    <3>3. QED
      BY <1>1, <1>2, <2>1, <2>2, <3>2 DEF With, IsField
  <2>5. QED
    BY <2>3, <2>4
<1>8. SameUpTo(s, t, n - 1)
  BY <1>7 DEF SameUpTo
<1>9. QED
  BY <1>1, <1>2, <1>4, <1>5, <1>6, <1>8 DEF s

\* Nothing is said at first.
LEMMA MeaningOfNothing == Meaning(<<>>) = Nothing
<1>1. Members(<<>>) = {}
  BY DEF Members
<1>2. Addresses(<<>>) = {}
  BY <1>1 DEF Addresses
<1>3. ~Says(<<>>, "Event", "MotionDetect") /\ ~Says(<<>>, "Type", "Alarm")
  BY <1>1 DEF Says
<1>4. QED
  BY <1>2, <1>3, MeaningIs DEF Nothing

\* The first token stays what it is, and soon has a part if it is an object.
LEMMA FirstStays ==
    ASSUME NEW s \in Seq(Token), NEW d \in Seq(Lexemes), Told(s, d), d # <<>>,
           NEW t, NEW k, NEW type, NEW text, Grown(s, t, k, type, text),
           Len(s) = 1 => k = 1,
           NEW x \in Lexemes
    PROVE  /\ Append(d, x)[1] = "object" => t[1].type = "object"
           /\ Len(t) > 1 /\ t[1].type = "object" => t[1].size > 0
<1>1. /\ s # <<>> /\ (d[1] = "object" => s[1].type = "object")
      /\ Len(s) > 1 /\ s[1].type = "object" => s[1].size > 0
  BY DEF Told
<1>2. 1 \in 1..Len(s) /\ s[1].size \in Nat
  <2>1. 1 \in 1..Len(s) /\ s[1] \in Token
    BY <1>1
  <2>2. QED
    BY <2>1 DEF Token
<1>3. t[1].type = s[1].type /\ t[1].size = IF 1 = k THEN s[1].size + 1 ELSE s[1].size
  BY <1>2 DEF Grown
<1>4. Append(d, x)[1] = d[1]
  <2>1. 1 \in 1..Len(d)
    OBVIOUS
  <2>2. QED
    BY <2>1, Appended
<1>5. Len(s) = 1 \/ Len(s) > 1
  <2>1. PICK n \in Nat : n = Len(s)
    OBVIOUS
  <2>2. n # 0
    BY <1>1, <2>1
  <2>3. n = 1 \/ n > 1
    BY <2>2
  <2>4. QED
    BY <2>1, <2>3, Zenon
<1>6. QED
  BY <1>1, <1>2, <1>3, <1>4, <1>5

\* A part is told when it is read.
LEMMA ToldPart ==
    ASSUME NEW p, ParserOK(p), NEW stack \in Seq(Opening), NEW d \in Seq(Lexemes), NEW o,
           Told(p.tok, d), Nest(p.tok, stack, o),
           d = <<>> \/ AfterKey(p, d, o) \/ Between(p, d, o),
           NEW x \in Atoms \cup Opening, NEW t, Grown(p.tok, t, p.super, Starts(x), x)
    PROVE  Told(t, Append(d, x))
<1> DEFINE s == p.tok
           e == Append(d, x)
<1>1. s \in Seq(Token) /\ t \in Seq(Token) /\ Len(s) \in Nat /\ Len(t) = Len(s) + 1
  BY DEF ParserOK, Grown
<1>2. x \in Lexemes /\ e \in Seq(Lexemes) /\ e # <<>> /\ t # <<>>
  <2>1. x \in Lexemes
    BY DEF Lexemes
  <2>2. t # <<>>
    BY <1>1
  <2>3. QED
    BY <2>1, <2>2, Appended
<1>3. Len(t) = Parts(e)
  BY <1>1, <1>2, PartsGrow DEF Told
<1>4. ASSUME d = <<>> PROVE Told(t, e)
  <2>1. s = <<>> /\ Len(d) = 0 /\ Len(s) = 0
    BY <1>4 DEF Told
  <2>2. Len(t) = 1
    BY <1>1, <2>1
  <2>3. Scan(t) = Nothing
    BY <1>1, <2>2, ScanOne
  <2>4. Meaning(e) = Nothing
    <3>1. ~Completes(d, x)
      BY <2>1 DEF Completes
    <3>2. Meaning(e) = Meaning(d)
      BY <1>2, <3>1, MeaningSame
    <3>3. QED
      BY <1>4, <3>2, MeaningOfNothing
  <2>5. e[1] = x
    BY <1>4
  <2>6. t[1].type = Starts(x)
    <3>1. t[Len(t)].type = Starts(x)
      BY DEF Grown
    <3>2. QED
      BY <2>2, <3>1
  <2>7. x = "object" => Starts(x) = "object"
    BY DEF Starts, Opening
  <2>8. QED
    <3> HIDE DEF s, e
    <3> QED
      BY <1>2, <1>3, <2>2, <2>3, <2>4, <2>5, <2>6, <2>7 DEF Told
<1>5. ASSUME d # <<>>, Len(s) = 1 => p.super = 1, Scan(t) = Meaning(e) PROVE Told(t, e)
  <2>1. /\ e[1] = "object" => t[1].type = "object"
        /\ Len(t) > 1 /\ t[1].type = "object" => t[1].size > 0
    BY <1>1, <1>2, <1>5, FirstStays
  <2>2. QED
    BY <1>2, <1>3, <1>5, <2>1 DEF Told
<1>6. ASSUME d # <<>> PROVE Scan(s) = Meaning(d) /\ s # <<>>
  BY <1>6 DEF Told
<1>7. ASSUME AfterKey(p, d, o) PROVE Told(t, e)
  <2> DEFINE m == Len(s)
             name == d[Len(d) - 1]
  <2>1. /\ p.super = m /\ IsKey(s, m, name) /\ d # <<>>
        /\ Len(d) > 1 /\ d[Len(d)] = "colon" /\ name \in Strings
    <3>1. p.super = m /\ IsKey(s, m, name) /\ Len(d) > 1 /\ d[Len(d)] = "colon"
      BY <1>7 DEF AfterKey
    <3>2. QED
      BY <3>1 DEF IsKey
  <2>2. /\ m \in Nat /\ m > 1 /\ Len(t) = m + 1
        /\ SameUpTo(s, t, m - 1) /\ ~IsField(s, m) /\ IsField(t, m)
        /\ t[m].text = name /\ t[m + 1].text = x
    <3> HIDE DEF name
    <3>1. Grown(p.tok, t, p.super, Starts(x), x) /\ ParserOK(p)
      OBVIOUS
    <3>2. QED
      BY <2>1, <3>1, KeyGrown
  <2>3. Scan(t) = Taken(Scan(s), t[m].text, t[m + 1].text)
    <3>1. PICK n \in Nat : n = m
      BY <2>2
    <3>2. /\ Len(s) = n /\ Len(t) = n + 1 /\ n > 1 /\ SameUpTo(s, t, n - 1)
          /\ ~IsField(s, n) /\ IsField(t, n)
      BY <2>2, <3>1
    <3> HIDE DEF s, m
    <3>3. Scan(t) = Taken(Scan(s), t[n].text, t[n + 1].text)
      BY <1>1, <3>2, ScanTakes
    <3>4. QED
      BY <3>1, <3>3
  <2>4. Scan(t) = Taken(Meaning(d), name, x)
    BY <1>6, <2>1, <2>2, <2>3
  <2>5. CASE x \in Atoms
    <3>1. Completes(d, x)
      BY <2>1, <2>5 DEF Completes
    <3>2. Meaning(e) = Taken(Meaning(d), name, x)
      BY <1>2, <3>1, MeaningTakes
    <3>3. QED
      BY <1>5, <2>1, <2>2, <2>4, <3>2
  <2>6. CASE x \in Opening
    <3>1. ~Completes(d, x)
      BY <2>6 DEF Completes, Atoms, Strings, Primitives, Opening
    <3>2. Meaning(e) = Meaning(d)
      BY <1>2, <3>1, MeaningSame
    <3>3. Taken(Meaning(d), name, x) = Meaning(d)
      BY <2>6, TakenBracket
    <3>4. QED
      BY <1>5, <2>1, <2>2, <2>4, <3>2, <3>3
  <2>7. QED
    BY <2>5, <2>6
<1>8. ASSUME Between(p, d, o) PROVE Told(t, e)
  <2>1. d # <<>> /\ o # <<>> /\ p.super = Top(o) /\ d[Len(d)] # "colon"
    BY <1>8 DEF Between, Inside
  <2>2. p.super \in 1..Len(s) /\ s[p.super].type \in Opening /\ s[p.super].text \in Opening
    BY <1>1, <2>1, TopIs
  <2>3. SameUpTo(s, t, Len(s))
    BY <2>2, SameGrown
  <2>4. Scan(t) = Scan(s)
    BY <1>1, <1>6, <2>1, <2>3, ScanSame
  <2>5. ~Completes(d, x)
    BY <2>1 DEF Completes
  <2>6. Meaning(e) = Meaning(d)
    BY <1>2, <2>5, MeaningSame
  <2>7. Len(s) = 1 => p.super = 1
    BY <2>2
  <2>8. QED
    BY <1>5, <1>6, <2>1, <2>4, <2>6, <2>7
<1>9. QED
  BY <1>4, <1>7, <1>8

\* What is true of the parser and of the data, wherever the grammar is.
Follows(p, j, d, o) ==
    /\ ParserOK(p) /\ ~p.err /\ j \in Place /\ d \in Seq(Lexemes)
    /\ Reads(p, j, d, o)

\* A value or key that there is a token for is told.
LEMMA PartTold ==
    ASSUME NEW p, NEW j, NEW d, NEW o, Follows(p, j, d, o),
           j.want \in {"value", "item", "key", "member"},
           NEW x \in Atoms \cup Opening, Len(p.tok) # MaxTokens
    PROVE  LET q == Parsed(p, x)
           IN  /\ ~q.err /\ Told(q.tok, Append(d, x))
               /\ Grown(p.tok, q.tok, p.super, Starts(x), x)
               /\ q.super = IF x \in Opening THEN Len(q.tok) ELSE p.super
<1>1. /\ ParserOK(p) /\ ~p.err /\ d \in Seq(Lexemes) /\ j.stack \in Seq(Opening)
      /\ Told(p.tok, d) /\ Nest(p.tok, j.stack, o) /\ Stands(p, j.want, d, o)
  BY DEF Follows, Reads, Place
<1>2. d = <<>> \/ AfterKey(p, d, o) \/ Between(p, d, o)
  BY <1>1 DEF Stands
<1>3. /\ ~Parsed(p, x).err
      /\ Grown(p.tok, Parsed(p, x).tok, p.super, Starts(x), x)
      /\ Parsed(p, x).super = IF x \in Opening THEN Len(Parsed(p, x).tok) ELSE p.super
  BY <1>1, PartIs
<1>4. Told(Parsed(p, x).tok, Append(d, x))
  BY <1>1, <1>2, <1>3, ToldPart
<1>5. QED
  BY <1>3, <1>4

\* A bracket where a value may be.
LEMMA ReadsOpening ==
    ASSUME NEW p, NEW j, NEW d, NEW o, Follows(p, j, d, o),
           j.want \in {"value", "item"},
           NEW x \in Opening, Len(p.tok) # MaxTokens, NEW w \in {"member", "item"}
    PROVE  LET q == Parsed(p, x)
           IN  ~q.err /\ Reads(q, [stack |-> Append(j.stack, x), want |-> w],
                               Append(d, x), Append(o, Len(q.tok)))
<1> DEFINE q == Parsed(p, x)
           e == Append(d, x)
           v == Append(o, Len(q.tok))
<1>1. /\ ~q.err /\ Told(q.tok, e) /\ Grown(p.tok, q.tok, p.super, x, x)
      /\ q.super = Len(q.tok)
  <2>1. x \in Atoms \cup Opening /\ Starts(x) = x
    BY DEF Starts
  <2>2. QED
    BY <2>1, PartTold
<1>2. p.tok \in Seq(Token) /\ j.stack \in Seq(Opening) /\ Nest(p.tok, j.stack, o) /\ d \in Seq(Lexemes)
  BY DEF Follows, Reads, ParserOK, Place
<1>3. Nest(q.tok, Append(j.stack, x), v) /\ Top(v) = Len(q.tok) /\ v # <<>>
  BY <1>1, <1>2, NestGrown
<1>4. e # <<>> /\ e[Len(e)] # "colon"
  <2>1. x \in Lexemes /\ x # "colon"
    BY DEF Lexemes, Opening
  <2>2. QED
    BY <1>2, <2>1, Appended
<1>5. Stands(q, w, e, v)
  <2> HIDE DEF q, e, v
  <2>1. Between(q, e, v)
    BY <1>1, <1>3, <1>4 DEF Between, Inside
  <2>2. QED
    BY <2>1 DEF Stands
<1>6. QED
  <2> HIDE DEF q, e, v
  <2>1. Reads(q, [stack |-> Append(j.stack, x), want |-> w], e, v)
    BY <1>1, <1>3, <1>5 DEF Reads
  <2>2. QED
    BY <1>1, <2>1 DEF q, e, v

\* A value that is no bracket.
LEMMA ReadsAtom ==
    ASSUME NEW p, NEW j, NEW d, NEW o, Follows(p, j, d, o),
           j.want \in {"value", "item"},
           NEW x \in Atoms, Len(p.tok) # MaxTokens
    PROVE  ~Parsed(p, x).err /\ Reads(Parsed(p, x), Ended(j.stack), Append(d, x), o)
<1> DEFINE q == Parsed(p, x)
           e == Append(d, x)
<1>0. x \in Atoms \cup Opening /\ x \notin Opening /\ Starts(x) \notin Opening
  BY DEF Starts, Atoms, Strings, Primitives, Opening
<1>1. /\ ~q.err /\ Told(q.tok, e) /\ Grown(p.tok, q.tok, p.super, Starts(x), x)
      /\ q.super = p.super
  BY <1>0, PartTold
<1>2. /\ p.tok \in Seq(Token) /\ Len(p.tok) \in Nat
      /\ j.stack \in Seq(Opening) /\ Nest(p.tok, j.stack, o) /\ d \in Seq(Lexemes)
      /\ Stands(p, j.want, d, o)
  BY DEF Follows, Reads, ParserOK, Place
<1>3. Nest(q.tok, j.stack, o)
  BY <1>0, <1>1, <1>2, NestGrown
<1>4. e # <<>>
  <2>1. x \in Lexemes
    BY DEF Lexemes
  <2>2. QED
    BY <1>2, <2>1, Appended
<1>5. o = <<>> <=> j.stack = <<>>
  BY <1>2, TopIs
<1>6. ASSUME o # <<>>
      PROVE  /\ q.super > 0
             /\ q.super # Top(o) => q.tok[q.super].type = "string"
  <2>1. CASE AfterKey(p, d, o)
    <3>1. /\ p.super = Len(p.tok) /\ p.super > 0 /\ p.super \in 1..Len(p.tok)
          /\ p.tok[p.super].type = "string"
      BY <1>2, <2>1 DEF AfterKey, IsKey
    <3>2. q.tok[p.super].type = "string"
      BY <1>1, <3>1 DEF Grown
    <3>3. QED
      BY <1>1, <3>1, <3>2
  <2>2. CASE Between(p, d, o)
    <3>1. p.super = Top(o) /\ Top(o) \in 1..Len(p.tok)
      BY <1>2, <1>6, <2>2, TopIs DEF Between, Inside
    <3>2. QED
      BY <1>1, <1>2, <3>1
  <2>3. QED
    BY <1>2, <1>6, <2>1, <2>2 DEF Stands
<1>7. Told(q.tok, e) /\ Nest(q.tok, Ended(j.stack).stack, o) /\ Stands(q, Ended(j.stack).want, e, o)
  <2> HIDE DEF q, e
  <2>1. Ended(j.stack).stack = j.stack
    BY DEF Ended
  <2>2. CASE j.stack = <<>>
    <3>1. Ended(j.stack).want = "end"
      BY <2>2 DEF Ended
    <3>2. QED
      BY <1>1, <1>3, <1>4, <1>5, <2>1, <2>2, <3>1 DEF Stands
  <2>3. CASE j.stack # <<>>
    <3>1. Ended(j.stack).want = "more"
      BY <2>3 DEF Ended
    <3>2. QED
      BY <1>1, <1>3, <1>5, <1>6, <2>1, <2>3, <3>1 DEF Stands
  <2>4. QED
    BY <2>2, <2>3
<1>8. QED
  BY <1>1, <1>7 DEF Reads

\* A key.
LEMMA ReadsKey ==
    ASSUME NEW p, NEW j, NEW d, NEW o, Follows(p, j, d, o),
           j.want \in {"key", "member"},
           NEW x \in Strings, Len(p.tok) # MaxTokens
    PROVE  /\ ~Parsed(p, x).err
           /\ Reads(Parsed(p, x), [stack |-> j.stack, want |-> "colon"], Append(d, x), o)
<1> DEFINE q == Parsed(p, x)
           e == Append(d, x)
           m == Len(p.tok)
<1>0. /\ x \in Atoms \cup Opening /\ x \notin Opening /\ x \in Lexemes
      /\ Starts(x) = "string" /\ "string" \notin Opening
  BY DEF Starts, Atoms, Strings, Primitives, Opening, Lexemes
<1>1. /\ ~q.err /\ Told(q.tok, e) /\ Grown(p.tok, q.tok, p.super, "string", x)
      /\ q.super = p.super
  BY <1>0, PartTold
<1>2. /\ p.tok \in Seq(Token) /\ m \in Nat
      /\ j.stack \in Seq(Opening) /\ Nest(p.tok, j.stack, o) /\ d \in Seq(Lexemes)
      /\ Stands(p, j.want, d, o)
      /\ \A i \in 1..m : p.tok[i].size > 0 => i < m
  BY DEF Follows, Reads, ParserOK, Place
<1>3. Nest(q.tok, j.stack, o)
  BY <1>0, <1>1, <1>2, NestGrown
<1>4. e # <<>> /\ e[Len(e)] = x
  BY <1>0, <1>2, Appended
<1>5. o # <<>> /\ p.super = Top(o)
  BY <1>2 DEF Stands, Between, Inside
<1>6. Top(o) \in 1..m /\ p.tok[Top(o)].type \in Opening
  BY <1>2, <1>5, TopIs
<1>7. IsKey(q.tok, Len(q.tok), x)
  <2>1. Len(q.tok) = m + 1 /\ m \in 1..m /\ m + 1 > 1 /\ (m + 1) - 1 = m
    BY <1>1, <1>2, <1>6 DEF Grown
  <2>2. /\ q.tok[m + 1].type = "string" /\ q.tok[m + 1].text = x /\ q.tok[m + 1].size = 0
    BY <1>1, <2>1 DEF Grown
  <2>3. ~(q.tok[m].type = "string" /\ q.tok[m].size = 1)
    <3>1. /\ q.tok[m].type = p.tok[m].type
          /\ m # p.super => q.tok[m].size = p.tok[m].size
      BY <1>1, <2>1 DEF Grown
    <3>2. m = p.super => q.tok[m].type # "string"
      BY <1>0, <1>5, <1>6, <3>1
    <3>3. p.tok[m].size # 1
      BY <1>2, <2>1
    <3>4. QED
      BY <3>1, <3>2, <3>3
  <2>4. QED
    <3> HIDE DEF q, m
    <3> QED
      BY <2>1, <2>2, <2>3 DEF IsKey
<1>8. QED
  <2> HIDE DEF q, e
  <2>1. Stands(q, "colon", e, o)
    BY <1>1, <1>4, <1>5, <1>7 DEF Stands, Inside
  <2>2. Reads(q, [stack |-> j.stack, want |-> "colon"], e, o)
    BY <1>1, <1>3, <2>1 DEF Reads
  <2>3. QED
    BY <1>1, <2>2 DEF q, e

\* What is no part says nothing, and tokens that stay what they are, or are
\* closed, say what they said.
LEMMA ToldSame ==
    ASSUME NEW s \in Seq(Token), NEW t \in Seq(Token), NEW d \in Seq(Lexemes), Told(s, d),
           d # <<>>, Len(t) = Len(s),
           \A i \in 1..Len(s) : t[i].type = s[i].type /\ t[i].size = s[i].size,
           SameUpTo(s, t, Len(s)),
           NEW x \in Lexemes, x \notin Atoms \cup Opening
    PROVE  Told(t, Append(d, x))
<1> DEFINE e == Append(d, x)
<1>1. /\ s # <<>> /\ Len(s) = Parts(d) /\ Scan(s) = Meaning(d)
      /\ (d[1] = "object" => s[1].type = "object")
      /\ Len(s) > 1 /\ s[1].type = "object" => s[1].size > 0
  BY DEF Told
<1>2. Parts(e) = Parts(d)
  BY PartsGrow
<1>3. Meaning(e) = Meaning(d)
  <2>1. ~Completes(d, x)
    BY DEF Completes
  <2>2. QED
    BY <2>1, MeaningSame
<1>4. e # <<>> /\ e[1] = d[1]
  <2>1. 1 \in 1..Len(d)
    OBVIOUS
  <2>2. QED
    BY <2>1, Appended
<1>5. Scan(t) = Scan(s)
  BY <1>1, ScanSame
<1>6. t # <<>> /\ 1 \in 1..Len(s)
  BY <1>1
<1>7. t[1].type = s[1].type /\ t[1].size = s[1].size
  BY <1>6
<1>8. QED
  <2> HIDE DEF e
  <2>1. Told(t, e)
    BY <1>1, <1>2, <1>3, <1>4, <1>5, <1>6, <1>7 DEF Told
  <2>2. QED
    BY <2>1 DEF e

\* The colon between a key and its value.
LEMMA ReadsColon ==
    ASSUME NEW p, NEW j, NEW d, NEW o, Follows(p, j, d, o), j.want = "colon"
    PROVE  LET q == Parsed(p, "colon")
           IN  ~q.err /\ Reads(q, [stack |-> j.stack, want |-> "value"], Append(d, "colon"), o)
<1> DEFINE q == Parsed(p, "colon")
           e == Append(d, "colon")
<1>0. /\ "colon" \in Lexemes /\ "colon" \notin Atoms \cup Opening
  BY DEF Lexemes, Atoms, Strings, Primitives, Opening
<1>1. q = [p EXCEPT !.super = Len(p.tok)]
  BY <1>0, ParsedIs DEF Colon
<1>2. /\ p \in [tok : Seq(Token), super : Nat, err : BOOLEAN] /\ ~p.err
      /\ Told(p.tok, d) /\ Nest(p.tok, j.stack, o) /\ d \in Seq(Lexemes)
      /\ Inside(p, d, o) /\ IsKey(p.tok, Len(p.tok), d[Len(d)])
  BY DEF Follows, Reads, ParserOK, Stands
<1>3. q.tok = p.tok /\ ~q.err /\ q.super = Len(p.tok)
  BY <1>1, <1>2
<1>4. d # <<>> /\ o # <<>>
  BY <1>2 DEF Inside
<1>5. Told(p.tok, e)
  <2>1. SameUpTo(p.tok, p.tok, Len(p.tok))
    BY DEF SameUpTo
  <2>2. QED
    BY <1>0, <1>2, <1>4, <2>1, ToldSame
<1>6. /\ Len(e) > 1 /\ e[Len(e)] = "colon" /\ e[Len(e) - 1] = d[Len(d)]
  <2>1. PICK n \in Nat : n = Len(d)
    BY <1>2
  <2>2. n # 0
    BY <1>2, <1>4, <2>1
  <2>3. Len(e) = n + 1 /\ e[n + 1] = "colon" /\ \A i \in 1..n : e[i] = d[i]
    BY <1>0, <1>2, <2>1, Appended
  <2>4. n \in 1..n /\ (n + 1) - 1 = n /\ n + 1 > 1
    BY <2>2
  <2> HIDE DEF e
  <2>5. QED
    BY <2>1, <2>3, <2>4
<1>7. QED
  <2> HIDE DEF q, e
  <2>1. AfterKey(q, e, o)
    BY <1>2, <1>3, <1>4, <1>6 DEF AfterKey
  <2>2. Stands(q, "value", e, o)
    BY <2>1 DEF Stands
  <2>3. Reads(q, [stack |-> j.stack, want |-> "value"], e, o)
    BY <1>2, <1>3, <1>5, <2>2 DEF Reads
  <2>4. QED
    BY <1>3, <2>3 DEF q, e

\* A comma after a value: the bracket around it is the superior token again.
LEMMA ReadsComma ==
    ASSUME NEW p, NEW j, NEW d, NEW o, Follows(p, j, d, o), j.want = "more",
           NEW w \in {"key", "value"}
    PROVE  LET q == Parsed(p, "comma")
           IN  ~q.err /\ Reads(q, [stack |-> j.stack, want |-> w], Append(d, "comma"), o)
<1> DEFINE q == Parsed(p, "comma")
           e == Append(d, "comma")
<1>0. /\ "comma" \in Lexemes /\ "comma" \notin Atoms \cup Opening
  BY DEF Lexemes, Atoms, Strings, Primitives, Opening
<1>1. q = Comma(p)
  BY <1>0, ParsedIs
<1>2. /\ p \in [tok : Seq(Token), super : Nat, err : BOOLEAN] /\ ~p.err
      /\ Told(p.tok, d) /\ Nest(p.tok, j.stack, o) /\ d \in Seq(Lexemes)
      /\ j.stack \in Seq(Opening)
      /\ o # <<>> /\ p.super > 0
      /\ p.super # Top(o) => p.tok[p.super].type = "string"
  BY DEF Follows, Reads, ParserOK, Stands, Place
<1>3. OpenTokens(p) # {} /\ LastOf(OpenTokens(p)) = Top(o)
  BY <1>2, OpenIs
<1>4. Top(o) \in 1..Len(p.tok) /\ p.tok[Top(o)].type \in Opening
  BY <1>2, TopIs
<1>5. q.tok = p.tok /\ ~q.err /\ q.super = Top(o)
  <2>1. CASE p.super = Top(o)
    <3>1. q = p
      BY <1>1, <1>4, <2>1 DEF Comma
    <3>2. QED
      BY <1>2, <2>1, <3>1
  <2>2. CASE p.super # Top(o)
    <3>1. p.super # 0 /\ p.tok[p.super].type \notin Opening
      BY <1>2, <2>2 DEF Opening
    <3>2. q = [p EXCEPT !.super = Top(o)]
      BY <1>1, <1>3, <3>1 DEF Comma
    <3>3. QED
      BY <1>2, <1>4, <3>2
  <2>3. QED
    BY <2>1, <2>2
<1>6. d # <<>>
  <2>1. p.tok # <<>>
    BY <1>2, <1>4
  <2>2. QED
    BY <1>2, <2>1 DEF Told
<1>7. Told(p.tok, e)
  <2>1. SameUpTo(p.tok, p.tok, Len(p.tok))
    BY DEF SameUpTo
  <2>2. QED
    BY <1>0, <1>2, <1>6, <2>1, ToldSame
<1>8. e # <<>> /\ e[Len(e)] # "colon"
  BY <1>0, <1>2, Appended
<1>9. QED
  <2> HIDE DEF q, e
  <2>1. Between(q, e, o)
    BY <1>2, <1>5, <1>8 DEF Between, Inside
  <2>2. Stands(q, w, e, o)
    BY <2>1 DEF Stands
  <2>3. Reads(q, [stack |-> j.stack, want |-> w], e, o)
    BY <1>2, <1>5, <1>7, <2>2 DEF Reads
  <2>4. QED
    BY <1>5, <2>3 DEF q, e

\* The end of an object or array: what it is in goes on.
LEMMA ReadsClosing ==
    ASSUME NEW p, NEW j, NEW d, NEW o, Follows(p, j, d, o),
           NEW x \in Closing, j.stack # <<>>,
           Last(j.stack) = IF x = "end_object" THEN "object" ELSE "array"
    PROVE  /\ ~Parsed(p, x).err
           /\ Reads(Parsed(p, x), Ended(Front(j.stack)), Append(d, x), Front(o))
<1> DEFINE q == Parsed(p, x)
           e == Append(d, x)
           i == Top(o)
<1>0. /\ x \in Lexemes /\ x \notin Atoms \cup Opening
  BY DEF Lexemes, Atoms, Strings, Primitives, Opening, Closing
<1>1. q = Closes(p, x)
  BY <1>0, ParsedIs
<1>2. /\ ParserOK(p) /\ p \in [tok : Seq(Token), super : Nat, err : BOOLEAN] /\ ~p.err
      /\ Told(p.tok, d) /\ Nest(p.tok, j.stack, o) /\ d \in Seq(Lexemes)
      /\ j.stack \in Seq(Opening)
  BY DEF Follows, Reads, ParserOK, Place
<1>3. o # <<>> /\ i \in 1..Len(p.tok) /\ p.tok[i].type = Last(j.stack)
  BY <1>2, TopIs
<1>4. LastOf(OpenTokens(p)) = i /\ LastOf(OpenTokens(p) \ {i}) = Top(Front(o))
  BY <1>2, <1>3, OpenIs
<1>5. q # Broken(p)
  <2>1. q = [p EXCEPT !.tok[i].open = FALSE, !.super = LastOf(OpenTokens(p) \ {i})]
    <3>1. i # 0
      BY <1>3
    <3> HIDE DEF i, q
    <3>2. QED
      BY <1>1, <1>3, <1>4, <3>1 DEF Closes
  <2>2. q.err = p.err
    BY <1>2, <2>1
  <2>3. Broken(p).err = TRUE
    BY <1>2 DEF Broken
  <2>4. QED
    BY <1>2, <2>2, <2>3
<1>6. Shut(p.tok, q.tok, i) /\ ~q.err /\ q.super = Top(Front(o))
  BY <1>1, <1>2, <1>4, <1>5, ClosesIs
<1>7. Nest(q.tok, Front(j.stack), Front(o)) /\ Front(j.stack) \in Seq(Opening)
  BY <1>2, <1>3, <1>6, NestShut
<1>8. p.tok \in Seq(Token) /\ q.tok \in Seq(Token) /\ Len(q.tok) = Len(p.tok)
  BY <1>2, <1>6 DEF Shut
<1>9. d # <<>>
  <2>1. p.tok # <<>>
    BY <1>3, <1>8
  <2>2. QED
    BY <1>2, <2>1 DEF Told
<1>10. Told(q.tok, e)
  <2>1. SameUpTo(p.tok, q.tok, Len(p.tok))
    BY <1>6, <1>8, ShutSame
  <2>2. \A k \in 1..Len(p.tok) : q.tok[k].type = p.tok[k].type /\ q.tok[k].size = p.tok[k].size
    BY <1>6 DEF Shut
  <2> HIDE DEF q, e
  <2>3. Told(q.tok, Append(d, x))
    BY <1>0, <1>2, <1>8, <1>9, <2>1, <2>2, ToldSame
  <2>4. QED
    BY <2>3 DEF e
<1>11. e # <<>>
  BY <1>0, <1>2, Appended
<1>12. Front(o) = <<>> <=> Front(j.stack) = <<>>
  BY <1>7, <1>8, TopIs
<1>13. Front(o) # <<>> => Top(Front(o)) > 0
  BY <1>7, <1>8, TopIs
<1>14. Stands(q, Ended(Front(j.stack)).want, e, Front(o))
  <2> HIDE DEF q, e
  <2>1. CASE Front(j.stack) = <<>>
    <3>1. Ended(Front(j.stack)).want = "end"
      BY <2>1 DEF Ended
    <3>2. QED
      BY <1>11, <1>12, <2>1, <3>1 DEF Stands
  <2>2. CASE Front(j.stack) # <<>>
    <3>1. Ended(Front(j.stack)).want = "more"
      BY <2>2 DEF Ended
    <3>2. QED
      BY <1>6, <1>12, <1>13, <2>2, <3>1 DEF Stands
  <2>3. QED
    BY <2>1, <2>2
<1>15. Ended(Front(j.stack)).stack = Front(j.stack)
  BY DEF Ended
<1>16. QED
  <2> HIDE DEF q, e
  <2>1. Reads(q, Ended(Front(j.stack)), e, Front(o))
    BY <1>7, <1>10, <1>14, <1>15 DEF Reads
  <2>2. QED
    BY <1>6, <2>1 DEF q, e

\* While the data can be JSON the parser follows it, until it has no tokens left.
Understood(p, j, d) ==
    j.want # "invalid" =>
        IF p.err THEN Parts(d) > MaxTokens ELSE \E o : Reads(p, j, d, o)

\* It follows the data through the next lexeme, whichever that is.
LEMMA UnderstoodGoesOn ==
    ASSUME NEW p, ParserOK(p), NEW j \in Place, NEW d \in Seq(Lexemes), Understood(p, j, d),
           NEW x \in Lexemes
    PROVE  Understood(IF p.err THEN p ELSE Parsed(p, x), JsonAfter(j, x), Append(d, x))
<1> DEFINE q == Parsed(p, x)
           k == JsonAfter(j, x)
           e == Append(d, x)
<1>1. SUFFICES ASSUME k.want # "invalid"
               PROVE  Understood(IF p.err THEN p ELSE q, k, e)
  BY DEF Understood
<1>2. k # Invalid /\ j.want # "invalid"
  <2>1. k # Invalid
    BY <1>1 DEF Invalid
  <2>2. QED
    BY <2>1, JsonIs
<1>3. /\ Parts(e) \in Nat /\ Parts(d) \in Nat /\ Parts(e) >= Parts(d) /\ MaxTokens \in Nat
      /\ x \in Atoms \cup Opening => Parts(e) = Parts(d) + 1
  BY PartsGrow, Appended, AlertDataAssumption
<1>4. CASE p.err
  <2>1. Parts(d) > MaxTokens
    BY <1>2, <1>4 DEF Understood
  <2>2. Parts(e) > MaxTokens
    <3> HIDE DEF e
    <3> QED
      BY <1>3, <2>1
  <2> HIDE DEF k, e
  <2>3. QED
    BY <1>4, <2>2 DEF Understood
<1>5. CASE ~p.err
  <2>1. PICK o : Reads(p, j, d, o)
    BY <1>2, <1>5 DEF Understood
  <2>2. Follows(p, j, d, o)
    BY <1>5, <2>1 DEF Follows
  <2>3. SUFFICES \/ q.err /\ Parts(e) > MaxTokens
                 \/ ~q.err /\ \E v : Reads(q, k, e, v)
    BY <1>5 DEF Understood
  <2>4. CASE x \in Atoms \cup Opening /\ Len(p.tok) = MaxTokens
    <3>1. q = Broken(p)
      BY <2>4, PartIs
    <3>2. q.err
      BY <3>1 DEF Broken, ParserOK
    <3>3. Parts(d) = MaxTokens
      BY <2>1, <2>4 DEF Reads, Told
    <3>4. Parts(e) = MaxTokens + 1
      BY <1>3, <2>4, <3>3
    <3>5. Parts(e) > MaxTokens
      <4> HIDE DEF e
      <4> QED
        BY <1>3, <3>4
    <3>6. QED
      BY <3>2, <3>5
  <2>5. CASE ~(x \in Atoms \cup Opening /\ Len(p.tok) = MaxTokens)
    <3> HIDE DEF q, k, e
    <3>1. CASE /\ j.want \in {"value", "item"} /\ x \in Opening
               /\ \E w \in {"member", "item"} : k = [stack |-> Append(j.stack, x), want |-> w]
      <4>1. Len(p.tok) # MaxTokens
        BY <2>5, <3>1
      <4>2. QED
        BY <2>2, <3>1, <4>1, ReadsOpening DEF q, e
    <3>2. CASE j.want \in {"value", "item"} /\ x \in Atoms /\ k = Ended(j.stack)
      <4>1. Len(p.tok) # MaxTokens
        BY <2>5, <3>2
      <4>2. QED
        BY <2>2, <3>2, <4>1, ReadsAtom DEF q, e
    <3>3. CASE /\ j.want \in {"key", "member"} /\ x \in Strings
               /\ k = [stack |-> j.stack, want |-> "colon"]
      <4>1. Len(p.tok) # MaxTokens
        BY <2>5, <3>3 DEF Atoms
      <4>2. QED
        BY <2>2, <3>3, <4>1, ReadsKey DEF q, e
    <3>4. CASE /\ j.want = "colon" /\ x = "colon"
               /\ k = [stack |-> j.stack, want |-> "value"]
      BY <2>2, <3>4, ReadsColon DEF q, e
    <3>5. CASE /\ j.want = "more" /\ x = "comma"
               /\ \E w \in {"key", "value"} : k = [stack |-> j.stack, want |-> w]
      BY <2>2, <3>5, ReadsComma DEF q, e
    <3>6. CASE /\ x \in Closing /\ j.stack # <<>>
               /\ Last(j.stack) = IF x = "end_object" THEN "object" ELSE "array"
               /\ k = Ended(Front(j.stack))
      BY <2>2, <3>6, ReadsClosing DEF q, e
    <3>7. QED
      BY <1>2, <3>1, <3>2, <3>3, <3>4, <3>5, <3>6, JsonIs DEF k
  <2>6. QED
    BY <2>4, <2>5
<1>6. QED
  BY <1>4, <1>5

-----------------------------------------------------------------------------
(* The thread's data.                                                      *)

\* What the thread has open.
Flags == buffer \in BOOLEAN /\ connected \in BOOLEAN /\ closed \in BOOLEAN

\* The tokens are sound and the parser follows the data.
ParseInv ==
    /\ ParserOK(parser) /\ json \in Place /\ data \in Seq(Lexemes)
    /\ Understood(parser, json, data)

\* There is an answer between EndOfData and Act, and it is that of the tokens.
AnswerInv == answer = IF pc = "act" THEN Answer(parser) ELSE Nothing

\* A thread that has parsed nothing.
LEMMA NothingParsed ==
    ParserOK(NewParser) /\ NewJson \in Place /\ <<>> \in Seq(Lexemes)
    /\ Understood(NewParser, NewJson, <<>>)
<1>1. NewParser.tok = <<>> /\ NewParser.super = 0 /\ NewParser.err = FALSE
  BY DEF NewParser
<1>2. ParserOK(NewParser)
  <2>1. NewParser \in [tok : Seq(Token), super : Nat, err : BOOLEAN]
    BY DEF NewParser
  <2>2. QED
    BY <1>1, <2>1, AlertDataAssumption DEF ParserOK
<1>3. NewJson.stack = <<>> /\ NewJson.want = "value" /\ NewJson \in Place
  BY DEF NewJson, Place, Wants
<1>4. Told(<<>>, <<>>)
  <2>1. Parts(<<>>) = 0
    <3>1. {k \in 1..Len(<<>>) : <<>>[k] \in Atoms \cup Opening} = {}
      OBVIOUS
    <3>2. QED
      BY <3>1, FS_EmptySet DEF Parts
  <2>2. QED
    BY <2>1 DEF Told
<1>5. Nest(<<>>, <<>>, <<>>)
  BY DEF Nest
<1>6. Stands(NewParser, "value", <<>>, <<>>)
  BY <1>1 DEF Stands
<1>7. Reads(NewParser, NewJson, <<>>, <<>>)
  BY <1>1, <1>3, <1>4, <1>5, <1>6 DEF Reads
<1>8. QED
  BY <1>1, <1>2, <1>3, <1>7 DEF Understood

\* Init states.
LEMMA DataInit == Init => Flags /\ ParseInv /\ AnswerInv
BY NothingParsed DEF Init, Flags, ParseInv, AnswerInv, Nothing

\* What is allocated and open is a matter of yes and no.
LEMMA FlagsStep == ASSUME Flags, [Next]_vars PROVE Flags'
<1>1. CASE Send \/ PeerCloses \/ Wait \/ Interrupted
  BY <1>1, Zenon DEF Send, PeerCloses, Wait, Interrupted, Flags, peerVars
<1>2. CASE TimesOut \/ SelectFails \/ Ready \/ ReadFails \/ AllocateFails
  BY <1>2, Zenon DEF TimesOut, SelectFails, Ready, ReadFails, AllocateFails, Fail, Flags, peerVars
<1>3. ASSUME NEW n, Took(n) PROVE Flags'
  BY <1>3, Zenon DEF Took, AllRead, Flags
<1>4. CASE ReadSome \/ ReadNothing
  BY <1>3, <1>4, Zenon DEF ReadSome, ReadNothing
<1>5. CASE Allocate \/ (\E x \in Lexemes : Parse(x)) \/ EndOfData \/ Act \/ Bye
  BY <1>5, Zenon DEF Allocate, Parse, EndOfData, Act, Bye, Flags, peerVars
<1>6. CASE Finished \/ UNCHANGED vars
  BY <1>6, Zenon DEF Finished, vars, Flags, peerVars
<1>7. QED
  BY <1>1, <1>2, <1>4, <1>5, <1>6, Zenon DEF Next, Thread

\* Only Parse, EndOfData and Act change what is parsed and answered.
LEMMA ParseStep == ASSUME ParseInv, AnswerInv, [Next]_vars PROVE ParseInv' /\ AnswerInv'
<1>1. ASSUME UNCHANGED parseVars, pc # "act", pc' # "act"
      PROVE  ParseInv' /\ AnswerInv'
  BY <1>1 DEF ParseInv, AnswerInv, parseVars
<1>2. CASE Send \/ PeerCloses \/ Wait \/ Interrupted
  BY <1>1, <1>2 DEF Send, PeerCloses, Wait, Interrupted, Waiting, Reading
<1>3. CASE TimesOut \/ SelectFails \/ Ready \/ ReadFails \/ AllocateFails
  BY <1>1, <1>3 DEF TimesOut, SelectFails, Ready, ReadFails, AllocateFails, Fail, Waiting
<1>4. ASSUME NEW n, pc \in {"header_read", "data_read"}, Took(n)
      PROVE  ParseInv' /\ AnswerInv'
  <2>1. UNCHANGED parseVars /\ pc' \in {"malloc", "parse", "header", "data"}
    BY <1>4, Zenon DEF Took, AllRead
  <2>2. QED
    BY <1>1, <1>4, <2>1
<1>5. CASE ReadSome \/ ReadNothing
  BY <1>4, <1>5 DEF ReadSome, ReadNothing
<1>6. CASE Allocate \/ Bye
  BY <1>1, <1>6 DEF Allocate, Bye
<1>7. ASSUME NEW x \in Lexemes, Parse(x) PROVE ParseInv' /\ AnswerInv'
  <2>1. /\ parser' = (IF parser.err THEN parser ELSE Parsed(parser, x))
        /\ data' = Append(data, x) /\ json' = JsonAfter(json, x)
        /\ pc = "parse" /\ UNCHANGED <<pc, answer>>
    BY <1>7 DEF Parse
  <2>2. ParserOK(parser')
    BY <2>1, ParsedOK DEF ParseInv
  <2>3. json' \in Place
    BY <2>1, JsonType DEF ParseInv
  <2>4. data' \in Seq(Lexemes)
    BY <2>1 DEF ParseInv
  <2>5. Understood(parser', json', data')
    BY <2>1, UnderstoodGoesOn DEF ParseInv
  <2>6. AnswerInv'
    BY <2>1 DEF AnswerInv
  <2>7. QED
    BY <2>2, <2>3, <2>4, <2>5, <2>6 DEF ParseInv
<1>8. CASE EndOfData
  BY <1>8 DEF EndOfData, ParseInv, AnswerInv
<1>9. CASE Act
  <2>1. /\ pc' = "bye" /\ parser' = NewParser /\ answer' = Nothing
        /\ data' = <<>> /\ json' = NewJson
    BY <1>9 DEF Act, Nothing
  <2>2. QED
    BY <2>1, NothingParsed DEF ParseInv, AnswerInv
<1>10. CASE Finished \/ UNCHANGED vars
  <2>1. UNCHANGED <<parseVars, pc>>
    BY <1>10 DEF Finished, vars
  <2>2. QED
    BY <2>1 DEF parseVars, ParseInv, AnswerInv
<1>11. QED
  BY <1>2, <1>3, <1>5, <1>6, <1>7, <1>8, <1>9, <1>10 DEF Next, Thread

\* What the data is, what it was parsed to and what was answered.
THEOREM DataInvariant == Spec => [](Flags /\ ParseInv /\ AnswerInv)
<1>1. Flags /\ [Next]_vars => Flags'
  BY FlagsStep
<1>2. ParseInv /\ AnswerInv /\ [Next]_vars => ParseInv' /\ AnswerInv'
  BY ParseStep
<1>3. QED
  BY <1>1, <1>2, DataInit, PTL DEF Spec

\* The look-ahead of client_alert_data stays within the tokens jsmn_parse filled in.
THEOREM LookAheadParsed == Spec => []LookAheadIsParsed
<1>1. ParseInv => LookAheadIsParsed
  BY DEF ParseInv, ParserOK, LookAheadIsParsed
<1>2. QED
  BY <1>1, DataInvariant, PTL

\* An alert is answered by what it means, however its members are ordered and
\* nested: while the grammar goes on the parser has told what the data says, and
\* at the end nothing is open.  An empty object is refused, and one whose parts do
\* not fit the tokens.
THEOREM AnswersMean == Spec => []AnsweredByMeaning
<1>1. ASSUME ParseInv, AnswerInv PROVE AnsweredByMeaning
  <2>1. SUFFICES ASSUME pc = "act", json.want = "end", data[1] = "object"
                 PROVE  answer = IF Parts(data) \in 2..MaxTokens THEN Meaning(data)
                                 ELSE [r |-> -1, camera |-> OwnAddress]
    BY DEF AnsweredByMeaning
  <2>2. /\ ParserOK(parser) /\ parser.tok \in Seq(Token) /\ Len(parser.tok) \in Nat
        /\ Understood(parser, json, data) /\ answer = Answer(parser)
        /\ json.stack \in Seq(Opening)
    BY <1>1, <2>1 DEF ParseInv, AnswerInv, ParserOK, Place
  <2>3. CASE parser.err
    <3>1. Parts(data) > MaxTokens
      BY <2>1, <2>2, <2>3 DEF Understood
    <3>2. answer = [r |-> -1, camera |-> OwnAddress]
      BY <2>2, <2>3 DEF Answer
    <3>3. ~(Parts(data) \in 2..MaxTokens)
      BY <3>1, AlertDataAssumption
    <3>4. QED
      BY <3>2, <3>3
  <2>4. CASE ~parser.err
    <3>1. PICK o : Reads(parser, json, data, o)
      BY <2>1, <2>2, <2>4 DEF Understood
    <3>2. o = <<>> /\ data # <<>>
      BY <2>1, <3>1 DEF Reads, Stands
    <3>3. /\ Len(parser.tok) = Parts(data) /\ Scan(parser.tok) = Meaning(data)
          /\ parser.tok # <<>>
          /\ parser.tok[1].type = "object"
          /\ Len(parser.tok) > 1 => parser.tok[1].size > 0
      BY <2>1, <3>1, <3>2 DEF Reads, Told
    <3>4. OpenTokens(parser) = {}
      <4>1. \A i \in 1..Len(parser.tok) : ~parser.tok[i].open
        BY <3>1, <3>2 DEF Reads, Nest
      <4>2. DOMAIN parser.tok = 1..Len(parser.tok)
        BY <2>2
      <4>3. QED
        BY <4>1, <4>2 DEF OpenTokens
    <3>5. Parts(data) \in Nat \ {0} /\ Parts(data) <= MaxTokens
      BY <2>2, <3>3, AlertDataAssumption DEF ParserOK
    <3>6. CASE Parts(data) > 1
      <4>1. parser.tok[1].size # 0
        BY <2>2, <3>3, <3>6
      <4>2. answer = Meaning(data)
        BY <2>2, <2>4, <3>3, <3>4, <4>1 DEF Answer
      <4>3. Parts(data) \in 2..MaxTokens
        BY <3>5, <3>6, AlertDataAssumption
      <4>4. QED
        BY <4>2, <4>3
    <3>7. CASE Parts(data) = 1
      \* A token that has a part has a token after it.
      <4>1. parser.tok[1].size = 0
        <5>1. ~(parser.tok[1].size > 0)
          BY <2>2, <3>3, <3>7 DEF ParserOK
        <5>2. parser.tok[1] \in Token
          BY <2>2, <3>3
        <5>3. QED
          BY <5>1, <5>2 DEF Token
      <4>2. answer = [r |-> -1, camera |-> OwnAddress]
        BY <2>2, <4>1 DEF Answer
      <4>3. QED
        BY <3>7, <4>2, AlertDataAssumption
    <3>8. QED
      BY <3>5, <3>6, <3>7
  <2>5. QED
    BY <2>3, <2>4
<1>2. QED
  BY <1>1, DataInvariant, PTL

-----------------------------------------------------------------------------
(* What s_read_all counts.                                                 *)

\* The counters of s_read_all and of the history are numbers.
Counters ==
    /\ pc \in Reading \cup {"malloc", "parse", "act", "bye", "done"}
    /\ size \in DataSizes \cup {HeaderSize} /\ cnt \in 0..size
    /\ left \in 0..TimeOut /\ retry \in 0..Retries
    /\ avail \in 0..Burst
    /\ total \in Nat /\ waited \in Nat

\* How much of the header and of the data was taken from the socket, where the
\* thread is.  There is more to read as long as it reads, save for empty data.
Framing ==
    /\ pc \in {"header", "header_read"} => size = HeaderSize /\ total = cnt
    /\ pc = "malloc" => total = HeaderSize
    /\ pc \in {"data", "data_read"} => total = HeaderSize + cnt
    /\ pc \in {"parse", "act"} => total = HeaderSize + size
    /\ pc \in Reading => cnt < size \/ cnt = 0

\* A time-out is spent for each byte and for the one it waits for; nothing
\* before a read begins.
Budget == TimeOut * (cnt + 1)

Waits ==
    /\ waited + left <= Budget
    /\ pc \in {"malloc", "parse", "act"} => waited = 0
    /\ waited = 0 \/ cnt < size \/ cnt = 0

CounterInv == Counters /\ Framing /\ Waits

\* Init states.
LEMMA CountersInit == Init => CounterInv
<1> SUFFICES ASSUME Init PROVE CounterInv
  OBVIOUS
<1>1. Counters /\ Framing
  BY AlertClientAssumption DEF Init, Counters, Framing, Reading
<1>2. Budget = TimeOut
  BY AlertClientAssumption DEF Init, Budget
<1>3. QED
  BY <1>1, <1>2, AlertClientAssumption DEF Init, CounterInv, Waits

\* One more byte is worth one more time-out.
LEMMA OneMore ==
    ASSUME NEW t \in Nat, NEW a \in Nat, NEW b \in Nat, a <= b
    PROVE  t * a <= t * b
OBVIOUS

\* What is not more than what is within a bound is within it.
LEMMA Within ==
    ASSUME NEW a \in Int, NEW b \in Int, NEW c \in Int, NEW d \in Int, NEW e \in Int,
           a + b <= c + d, c + d <= e
    PROVE  a + b <= e
OBVIOUS

\* Where the thread goes without a byte read or a buffer allocated.
Moved == \/ pc' = pc \/ pc' \in {"bye", "done"}
         \/ (pc = "header" /\ pc' = "header_read")
         \/ (pc = "data" /\ pc' = "data_read")
         \/ (pc = "parse" /\ pc' = "act")

\* Each action keeps the counters; Took is the one that moves all of them.
LEMMA CounterStep ==
    ASSUME Counters, Framing, Waits, [Next]_vars
    PROVE  CounterInv'
<1>0. /\ HeaderSize \in Nat \ {0} /\ DataSizes \subseteq Nat /\ TimeOut \in Nat \ {0}
      /\ Retries \in Nat /\ Burst \in Nat \ {0}
      /\ size \in Nat /\ cnt \in Nat /\ cnt <= size /\ left \in Nat
  BY AlertClientAssumption DEF Counters
<1>1. ASSUME UNCHANGED <<cnt, size, total>>, Counters',
             waited' + left' <= waited + left,
             waited' = waited \/ (pc \in Reading /\ pc' = pc),
             Moved
      PROVE  CounterInv'
  <2>1. Budget' = Budget /\ Budget \in Nat
    BY <1>0, <1>1 DEF Budget
  <2>2. Framing'
    BY <1>1 DEF Framing, Reading, Moved
  <2>3. waited \in Nat /\ waited' \in Nat /\ left' \in Nat
    BY <1>1 DEF Counters
  <2>4. Waits'
    <3>1. waited' + left' <= Budget'
      <4>1. waited + left <= Budget
        BY DEF Waits
      <4>2. waited' + left' <= waited + left
        BY <1>1
      <4>3. left \in Int /\ waited \in Int /\ left' \in Int /\ waited' \in Int /\ Budget \in Int
        BY <1>0, <2>1, <2>3
      <4>4. waited' + left' <= Budget
        BY <4>1, <4>2, <4>3, Within, Zenon
      <4>5. QED
        BY <2>1, <4>4, Zenon
    <3>2. pc' \in {"malloc", "parse", "act"} => waited' = 0
      BY <1>1 DEF Waits, Reading, Moved
    <3>3. waited' = 0 \/ cnt < size \/ cnt = 0
      BY <1>1 DEF Waits, Framing
    <3>4. QED
      BY <1>1, <3>1, <3>2, <3>3 DEF Waits
  <2>5. QED
    BY <1>1, <2>2, <2>4 DEF CounterInv
<1>2. CASE Send \/ PeerCloses
  <2>1. Counters'
    BY <1>0, <1>2 DEF Send, PeerCloses, Counters, readVars
  <2>2. UNCHANGED <<pc, cnt, size, total, waited, left>>
    BY <1>2 DEF Send, PeerCloses, readVars
  <2>3. waited \in Nat
    BY DEF Counters
  <2>4. QED
    BY <1>0, <1>1, <2>1, <2>2, <2>3 DEF Moved
<1>3. CASE Wait \/ Interrupted
  <2>1. Counters'
    BY <1>0, <1>3 DEF Wait, Interrupted, Waiting, Counters, peerVars
  <2>2. /\ UNCHANGED <<pc, cnt, size, total>> /\ pc \in Reading
        /\ (waited' = waited + 1 /\ left' = left - 1) \/ UNCHANGED <<waited, left>>
    BY <1>3 DEF Wait, Interrupted, Waiting, Reading
  <2>3. waited \in Nat
    BY DEF Counters
  <2>4. QED
    BY <1>0, <1>1, <2>1, <2>2, <2>3 DEF Moved
<1>4. CASE TimesOut \/ SelectFails \/ Ready \/ ReadFails \/ AllocateFails \/ EndOfData \/ Act \/ Bye
  <2>1. Counters'
    BY <1>0, <1>4 DEF TimesOut, SelectFails, Ready, ReadFails, AllocateFails, EndOfData, Act, Bye,
       Fail, Counters, Reading, readVars, peerVars
  <2>2. UNCHANGED <<cnt, size, total, waited, left>> /\ Moved
    BY <1>4 DEF TimesOut, SelectFails, Ready, ReadFails, AllocateFails, EndOfData, Act, Bye,
       Fail, readVars, Moved
  <2>3. waited \in Nat
    BY DEF Counters
  <2>4. QED
    BY <1>0, <1>1, <2>1, <2>2, <2>3
<1>5. CASE (\E x \in Lexemes : Parse(x)) \/ Finished \/ UNCHANGED vars
  <2>1. UNCHANGED <<pc, readVars, buffer, connected, peerVars, total, waited>>
    BY <1>5 DEF Parse, Finished, vars
  <2>2. Counters'
    BY <2>1 DEF Counters, readVars, peerVars
  <2>3. waited \in Nat
    BY DEF Counters
  <2>4. QED
    BY <1>0, <1>1, <2>1, <2>2, <2>3 DEF readVars, Moved
<1>6. ASSUME NEW n \in Nat, n <= size - cnt, n <= avail, n > 0 \/ size = 0,
             pc \in {"header_read", "data_read"}, Took(n)
      PROVE  CounterInv'
  <2>1. /\ cnt' = cnt + n /\ total' = total + n /\ size' = size /\ cnt' \in 0..size'
    BY <1>0, <1>6 DEF Took
  <2>2. CASE cnt' >= size
    <3>1. cnt' = size
      BY <1>0, <2>1, <2>2
    <3>2. AllRead /\ avail' \in 0..Burst
      <4>1. AllRead /\ avail' = IF pc = "data_read" THEN 0 ELSE avail - n
        BY <1>6, <2>2 DEF Took
      <4>2. avail \in 0..Burst
        BY DEF Counters
      <4>3. QED
        BY <1>0, <1>6, <4>1, <4>2
    <3>3. /\ pc' = (IF pc = "header_read" THEN "malloc" ELSE "parse")
          /\ left' = 0 /\ retry' = 0 /\ waited' = 0
      BY <3>2 DEF AllRead
    <3>4. Counters'
      BY <1>0, <1>6, <2>1, <3>2, <3>3 DEF Counters
    <3>5. Framing'
      BY <1>0, <1>6, <2>1, <3>1, <3>3 DEF Counters, Framing, Reading
    <3>6. Budget' >= 0
      BY <1>0, <2>1 DEF Budget
    <3>7. Waits'
      BY <3>3, <3>6 DEF Waits
    <3>8. QED
      BY <3>4, <3>5, <3>7 DEF CounterInv
  <2>3. CASE ~(cnt' >= size)
    <3>1. /\ pc' = (IF pc = "header_read" THEN "header" ELSE "data")
          /\ left' = TimeOut /\ retry' = Retries /\ avail' = avail - n
          /\ waited' = waited
      BY <1>6, <2>3 DEF Took
    <3>2. n > 0 /\ cnt' < size'
      BY <1>0, <1>6, <2>1, <2>3
    <3>3. Counters'
      BY <1>0, <1>6, <2>1, <3>1 DEF Counters, Reading
    <3>4. Framing'
      BY <1>0, <1>6, <2>1, <3>1, <3>2 DEF Counters, Framing, Reading
    <3>5. Budget + TimeOut <= Budget'
      <4>1. TimeOut * ((cnt + 1) + 1) = TimeOut * (cnt + 1) + TimeOut
        BY <1>0
      <4>2. /\ (cnt + 1) + 1 \in Nat /\ cnt' + 1 \in Nat /\ TimeOut \in Nat
            /\ (cnt + 1) + 1 <= cnt' + 1
        BY <1>0, <2>1, <3>2
      <4>3. TimeOut * ((cnt + 1) + 1) <= TimeOut * (cnt' + 1)
        BY <4>2, OneMore, Zenon
      <4>4. TimeOut * (cnt + 1) + TimeOut <= TimeOut * (cnt' + 1)
        BY <4>1, <4>3
      <4>5. QED
        BY <4>4, Zenon DEF Budget
    <3>6. Budget \in Nat /\ Budget' \in Nat /\ waited \in Nat
      BY <1>0, <2>1 DEF Budget, Counters
    <3>7. Waits'
      BY <1>0, <3>1, <3>2, <3>5, <3>6 DEF Waits
    <3>8. QED
      BY <3>3, <3>4, <3>7 DEF CounterInv
  <2>4. QED
    BY <2>2, <2>3
<1>7. CASE ReadSome \/ ReadNothing
  <2>1. avail \in Nat
    BY <1>0 DEF Counters
  <2>2. CASE ReadSome
    BY <1>6, <2>1, <2>2 DEF ReadSome
  <2>3. CASE ReadNothing
    BY <1>0, <1>6, <2>1, <2>3 DEF ReadNothing
  <2>4. QED
    BY <1>7, <2>2, <2>3
<1>8. CASE Allocate
  <2>1. /\ pc = "malloc" /\ pc' = "data" /\ size' \in DataSizes /\ cnt' = 0 /\ left' = TimeOut
        /\ retry' = Retries /\ UNCHANGED <<avail, total, waited>>
    BY <1>8 DEF Allocate, peerVars
  <2>2. Counters'
    BY <1>0, <2>1 DEF Counters, Reading
  <2>3. Framing' /\ waited = 0
    BY <1>0, <2>1 DEF Framing, Waits
  <2>4. Budget' = TimeOut
    BY <1>0, <2>1 DEF Budget
  <2>5. Waits'
    BY <1>0, <2>1, <2>3, <2>4 DEF Waits
  <2>6. QED
    BY <2>2, <2>3, <2>5 DEF CounterInv
<1>9. QED
  BY <1>2, <1>3, <1>4, <1>5, <1>7, <1>8 DEF Next, Thread

\* What s_read_all has counted, at any time.
LEMMA CounterInvariant == Spec => []CounterInv
<1>1. CounterInv /\ [Next]_vars => CounterInv'
  BY CounterStep DEF CounterInv
<1>2. QED
  BY <1>1, CountersInit, PTL DEF Spec

\* Each part of the alert begins where the one before it ends.
THEOREM MessageFramed == Spec => []MessageIsFramed
<1>1. CounterInv => MessageIsFramed
  BY DEF CounterInv, Framing, MessageIsFramed
<1>2. QED
  BY <1>1, CounterInvariant, PTL

\* A wait ends.
THEOREM WaitBounded == Spec => []WaitIsBounded
<1>1. ASSUME CounterInv PROVE WaitIsBounded
  <2>1. /\ size \in Nat /\ cnt \in 0..size /\ waited \in Nat /\ left \in Nat
        /\ TimeOut \in Nat /\ waited + left <= TimeOut * (cnt + 1)
        /\ waited = 0 \/ cnt < size \/ cnt = 0
    <3>1. waited + left <= Budget /\ (waited = 0 \/ cnt < size \/ cnt = 0)
      BY <1>1 DEF CounterInv, Waits
    <3>2. size \in Nat /\ cnt \in 0..size /\ waited \in Nat /\ left \in Nat /\ TimeOut \in Nat
      BY <1>1, AlertClientAssumption DEF CounterInv, Counters
    <3>3. QED
      BY <3>1, <3>2 DEF Budget
  <2>2. PICK m \in Nat : m = IF size = 0 THEN 1 ELSE size
    BY <2>1
  <2>3. CASE waited = 0
    <3>1. TimeOut * 0 <= TimeOut * m
      BY <2>1, <2>2, OneMore
    <3>2. QED
      BY <2>1, <2>2, <2>3, <3>1 DEF WaitIsBounded
  <2>4. CASE waited # 0
    <3>1. TimeOut * (cnt + 1) <= TimeOut * m
      BY <2>1, <2>2, <2>4, OneMore
    <3>2. waited <= TimeOut * (cnt + 1) /\ TimeOut * (cnt + 1) \in Nat
      BY <2>1
    <3>3. QED
      BY <2>1, <2>2, <3>1, <3>2 DEF WaitIsBounded
  <2>5. QED
    BY <2>3, <2>4
<1>2. QED
  BY <1>1, CounterInvariant, PTL

\* The values of the variables are what s_read_all, jsmn_parse and
\* client_alert_data make of them.
THEOREM TypeCorrect == Spec => []TypeOK
<1>1. ASSUME CounterInv, Flags, ParseInv, AnswerInv PROVE TypeOK
  <2>1. /\ pc \in Reading \cup {"malloc", "parse", "act", "bye", "done"}
        /\ size \in DataSizes \cup {HeaderSize} /\ cnt \in 0..size
        /\ left \in 0..TimeOut /\ retry \in 0..Retries
        /\ avail \in 0..Burst
    BY <1>1, Zenon DEF CounterInv, Counters
  <2>2. buffer \in BOOLEAN /\ connected \in BOOLEAN /\ closed \in BOOLEAN
    BY <1>1, Zenon DEF Flags
  <2>3. parser.tok \in Seq(Token)
    BY <1>1 DEF ParseInv, ParserOK
  <2>4. Len(parser.tok) <= MaxTokens /\ parser.super \in 0..Len(parser.tok)
    <3>1. Len(parser.tok) <= MaxTokens /\ parser.super \in Nat /\ parser.super <= Len(parser.tok)
      BY <1>1 DEF ParseInv, ParserOK
    <3>2. QED
      BY <2>3, <3>1
  <2>5. answer.r \in -1..2 /\ answer.camera \in HexTexts \cup {OwnAddress}
    <3>1. answer = Answer(parser) \/ answer = Nothing
      BY <1>1 DEF AnswerInv
    <3>2. Nothing.r \in -1..2 /\ Nothing.camera \in HexTexts \cup {OwnAddress}
      BY DEF Nothing
    <3>3. QED
      BY <2>3, <3>1, <3>2, AnswerType
  <2>6. QED
    BY <2>1, <2>2, <2>4, <2>5, Zenon DEF TypeOK
<1>2. QED
  BY <1>1, CounterInvariant, DataInvariant, PTL
=============================================================================
