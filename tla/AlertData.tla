----------------------------- MODULE AlertData -----------------------------
(***************************************************************************)
(* What the alert server reads out of the data of an alert: the tokens     *)
(* jsmn_parse (jsmn.h, not strict and without parent links, as clients.c   *)
(* includes it) makes of it, and what client_alert_data takes from the     *)
(* tokens.                                                                 *)
(*                                                                         *)
(* The data is a sequence of lexemes: brackets, which are called by what   *)
(* they begin or end, a colon, a comma, a quoted string or an unquoted     *)
(* primitive, which stand for their text, or Bad, an unfinished or         *)
(* misspelt string or primitive.  Tokens are numbered from 1; 0 is no      *)
(* token.                                                                  *)
(*                                                                         *)
(* A definition named Slip_X is X with a plausible mistake in it; nothing  *)
(* uses it.  Replacing X by it shows that a property notices the mistake.  *)
(***************************************************************************)
EXTENDS Integers, SequencesExt

CONSTANTS
    MaxTokens,  \* JSON_ALERT_MAX_TOKENS
    OwnAddress  \* the address the alert came from

ASSUME AlertDataAssumption == MaxTokens \in Nat \ {0}

Strings    == {"Address", "Type", "Event", "Alarm", "MotionDetect"}
Primitives == {"C0A80028"}
Atoms      == Strings \cup Primitives
Opening    == {"object", "array"}          \* { and [
Closing    == {"end_object", "end_array"}  \* } and ]
Bad        == "bad"
Lexemes    == Atoms \cup Opening \cup Closing \cup {"colon", "comma", Bad}

\* The texts strtol(text, NULL, 16) makes a non-zero number of: it stops at the
\* first character that is no hexadecimal digit.
HexTexts == {"Address", "Event", "Alarm", "C0A80028"}

-----------------------------------------------------------------------------
(* jsmn_parse, one lexeme at a time.                                       *)

\* jsmn_init: no token, no superior token.
NewParser == [tok |-> <<>>, super |-> 0, err |-> FALSE]

Broken(p) == [p EXCEPT !.err = TRUE]

\* The tokens whose end is not known yet; only brackets are open for a while.
OpenTokens(p) == {i \in DOMAIN p.tok : p.tok[i].open}
LastOf(I) == IF I = {} THEN 0 ELSE Max(I)

\* jsmn_alloc_token, and the superior token has one more child.
NewToken(p, type, text) ==
    IF Len(p.tok) = MaxTokens THEN Broken(p)
    ELSE [p EXCEPT !.tok =
             Append(IF p.super = 0 THEN p.tok
                    ELSE [p.tok EXCEPT ![p.super].size = @ + 1],
                    [type |-> type, text |-> text, size |-> 0,
                     open |-> type \in Opening])]

StringToken(p, x)    == NewToken(p, "string", x)
PrimitiveToken(p, x) == NewToken(p, "primitive", x)

Opens(p, x) ==
    LET q == NewToken(p, x, x)
    IN  IF q.err THEN q ELSE [q EXCEPT !.super = Len(q.tok)]

\* Closes the last open token, whose kind must match; the one it is in becomes
\* the superior token.
Closes(p, x) ==
    LET i == LastOf(OpenTokens(p))
        opening == IF x = "end_object" THEN "object" ELSE "array"
    IN  IF i = 0 \/ p.tok[i].type # opening THEN Broken(p)
        ELSE [p EXCEPT !.tok[i].open = FALSE,
                       !.super = LastOf(OpenTokens(p) \ {i})]

\* The key has a part before its value was read.
Slip_Colon(p) ==
    [p EXCEPT !.super = Len(p.tok),
              !.tok = IF p.tok = <<>> THEN @ ELSE [@ EXCEPT ![Len(@)].size = 1]]

\* The token before the colon becomes the superior of the one after it.
Colon(p) == [p EXCEPT !.super = Len(p.tok)]

\* Only an array is returned to.
Slip_Comma(p) ==
    IF p.super # 0 /\ p.tok[p.super].type \notin Opening
       /\ \E i \in OpenTokens(p) : p.tok[i].type = "array"
    THEN [p EXCEPT !.super = LastOf(OpenTokens(p))]
    ELSE p

\* After a key's value the object or array around it is the superior again.
Comma(p) ==
    IF p.super # 0 /\ p.tok[p.super].type \notin Opening /\ OpenTokens(p) # {}
    THEN [p EXCEPT !.super = LastOf(OpenTokens(p))]
    ELSE p

Parsed(p, x) ==
    CASE x \in Strings    -> StringToken(p, x)
      [] x \in Primitives -> PrimitiveToken(p, x)
      [] x \in Opening    -> Opens(p, x)
      [] x \in Closing    -> Closes(p, x)
      [] x = "colon"      -> Colon(p)
      [] x = "comma"      -> Comma(p)
      [] x = Bad          -> Broken(p)

-----------------------------------------------------------------------------
(* client_alert_data.                                                      *)

\* A key and a value that has no parts.  (That a token of size 1 has a token
\* after it is LookAheadIsParsed.)
IsField(tok, i) ==
    tok[i].type = "string" /\ tok[i].size = 1 /\ i < Len(tok) /\ tok[i + 1].size = 0

\* An alarm after a motion takes the motion's place.
Slip_Taken(a, name, value) ==
    CASE name = "Address" /\ value \in HexTexts   -> [a EXCEPT !.camera = value]
      [] name = "Type" /\ value = "Alarm"         -> [a EXCEPT !.r = 1]
      [] name = "Event" /\ value = "MotionDetect" -> [a EXCEPT !.r = 2]
      [] OTHER -> a

Taken(a, name, value) ==
    CASE name = "Address" /\ value \in HexTexts     -> [a EXCEPT !.camera = value]
      [] name = "Type" /\ value = "Alarm" /\ a.r = 0 -> [a EXCEPT !.r = 1]
      [] name = "Event" /\ value = "MotionDetect"   -> [a EXCEPT !.r = 2]
      [] OTHER -> a

\* The loop over the tokens after the first.
Scan(tok) ==
    LET after[i \in 1..Len(tok)] ==
            IF i = 1 THEN [r |-> 0, camera |-> OwnAddress]
            ELSE IF IsField(tok, i)
                 THEN Taken(after[i - 1], tok[i].text, tok[i + 1].text)
                 ELSE after[i - 1]
    IN  after[Len(tok)]

\* What it returns, and the camera it leaves in the client.
Answer(p) ==
    IF \/ p.err \/ p.tok = <<>> \/ OpenTokens(p) # {}
       \/ p.tok[1].type # "object" \/ p.tok[1].size = 0
    THEN [r |-> -1, camera |-> OwnAddress]
    ELSE Scan(p.tok)

-----------------------------------------------------------------------------
(* What JSON says, for comparison: the grammar, as a stack of brackets and *)
(* what may come next, and the members of a document.                      *)

NewJson == [stack |-> <<>>, want |-> "value"]

Ended(stack) == [stack |-> stack, want |-> IF stack = <<>> THEN "end" ELSE "more"]
Invalid == [stack |-> <<>>, want |-> "invalid"]

JsonAfter(j, x) ==
    LET top == IF j.stack = <<>> THEN "none" ELSE Last(j.stack)
    IN  CASE j.want \in {"value", "item"} /\ x \in Opening ->
                 [stack |-> Append(j.stack, x),
                  want |-> IF x = "object" THEN "member" ELSE "item"]
          [] j.want \in {"value", "item"} /\ x \in Atoms -> Ended(j.stack)
          [] j.want \in {"key", "member"} /\ x \in Strings -> [j EXCEPT !.want = "colon"]
          [] j.want = "colon" /\ x = "colon" -> [j EXCEPT !.want = "value"]
          [] j.want = "more" /\ x = "comma" ->
                 [j EXCEPT !.want = IF top = "object" THEN "key" ELSE "value"]
          [] \/ j.want \in {"more", "member"} /\ top = "object" /\ x = "end_object"
             \/ j.want \in {"more", "item"} /\ top = "array" /\ x = "end_array" ->
                 Ended(Front(j.stack))
          [] OTHER -> Invalid

\* The keys with an atomic value, at any depth.
Members(data) ==
    {k \in 1..Len(data) - 2 :
        data[k] \in Strings /\ data[k + 1] = "colon" /\ data[k + 2] \in Atoms}

\* "1: Type=Alarm, 2: Event=MotionDetect": what an alert means, in whatever
\* order its members come, and the camera it is about: the last address.
Meaning(data) ==
    LET says(name, value) == \E k \in Members(data) : data[k] = name /\ data[k + 2] = value
        addresses == {k \in Members(data) : data[k] = "Address" /\ data[k + 2] \in HexTexts}
    IN  [r |-> IF says("Event", "MotionDetect") THEN 2
               ELSE IF says("Type", "Alarm") THEN 1 ELSE 0,
         camera |-> IF addresses = {} THEN OwnAddress ELSE data[Max(addresses) + 2]]

\* Its values and keys, each of which takes a token.
Parts(data) == Cardinality({k \in 1..Len(data) : data[k] \in Atoms \cup Opening})
=============================================================================
