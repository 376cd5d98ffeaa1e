---------------------------- MODULE AlertClient ----------------------------
(***************************************************************************)
(* One client thread of the alert server, clients.c: it reads a header and *)
(* as much data as the header says with s_read_all (sock.c), parses the    *)
(* data, and acts on what it says.  What it does to the lists and the      *)
(* database, and the other threads, are in Recorder and AlertServer.       *)
(*                                                                         *)
(* The peer may send in pieces of any size, stop, or close the connection; *)
(* a wait may be interrupted.  Time is counted while the thread waits.     *)
(*                                                                         *)
(* A definition named Slip_X is X with a plausible mistake in it; nothing  *)
(* uses it.  Replacing X by it shows that a property notices the mistake.  *)
(***************************************************************************)
EXTENDS AlertData

CONSTANTS
    HeaderSize, \* NET_ALERT_HEADER_SIZE, in the pieces a read may return
    DataSizes,  \* values of alert_header.data_size
    TimeOut,    \* pk_read_tout
    Retries,    \* S_RETRY
    Burst,      \* bound: bytes that wait to be read at a time
    AnyLength,  \* bound: longer data is a beginning of JSON ...
    MaxDepth,   \* bound: ... of brackets in brackets, up to this depth, ...
    Keys        \* bound: ... whose keys are these and whose values are not, and
                \* which ends where the parser gives up

ASSUME AlertClientAssumption ==
    /\ HeaderSize \in Nat \ {0} /\ DataSizes \subseteq Nat
    /\ TimeOut \in Nat \ {0} /\ Retries \in Nat
    /\ Burst \in Nat \ {0} /\ AnyLength \in Nat /\ MaxDepth \in Nat
    /\ Keys \subseteq Strings

VARIABLES
    pc,         \* where the thread is
    size,       \* data_size of the s_read_all it is in, or of the alert
    cnt,        \* its read_cnt
    left,       \* what is left of the time-out of its s_select
    retry,      \* and of the retries
    buffer,     \* pk_data is allocated
    connected,  \* sd is open
    parser,     \* the state of jsmn_parse
    answer,     \* r and camera_ip
    \* the peer
    avail,      \* bytes sent and not read
    closed,     \* it has closed the connection
    \* history
    total,      \* bytes taken from the socket
    waited,     \* time waited in this s_read_all
    data,       \* the lexemes parsed
    json        \* where they are in the grammar

readVars  == <<size, cnt, left, retry>>
peerVars  == <<avail, closed>>
parseVars == <<parser, answer, data, json>>
vars == <<pc, readVars, buffer, connected, parseVars, peerVars, total, waited>>

Reading == {"header", "header_read", "data", "data_read"}

TypeOK ==
    /\ pc \in Reading \cup {"malloc", "parse", "act", "bye", "done"}
    /\ size \in DataSizes \cup {HeaderSize} /\ cnt \in 0..size
    /\ left \in 0..TimeOut /\ retry \in 0..Retries
    /\ buffer \in BOOLEAN /\ connected \in BOOLEAN /\ closed \in BOOLEAN
    /\ answer.r \in -1..2 /\ answer.camera \in HexTexts \cup {OwnAddress}
    /\ avail \in 0..Burst
    /\ Len(parser.tok) <= MaxTokens /\ parser.super \in 0..Len(parser.tok)

Init ==
    /\ pc = "header"
    /\ size = HeaderSize /\ cnt = 0 /\ left = TimeOut /\ retry = Retries
    /\ buffer = FALSE /\ connected = TRUE
    /\ parser = NewParser /\ answer = [r |-> 0, camera |-> OwnAddress]
    /\ avail = 0 /\ closed = FALSE
    /\ total = 0 /\ waited = 0
    /\ data = <<>> /\ json = NewJson

-----------------------------------------------------------------------------
(* The peer, while it matters.                                             *)

Send ==
    /\ pc \in Reading /\ ~closed /\ avail < Burst
    /\ avail' = avail + 1
    /\ UNCHANGED <<pc, readVars, buffer, connected, parseVars, closed, total, waited>>

PeerCloses ==
    /\ pc \in Reading /\ ~closed
    /\ closed' = TRUE
    /\ UNCHANGED <<pc, readVars, buffer, connected, parseVars, avail, total, waited>>

-----------------------------------------------------------------------------
(* s_read_all: s_select waits until there is something to read, for at     *)
(* most the time-out; s_read reads what there is; until all was read.      *)

Waiting == pc \in {"header", "data"} /\ avail = 0 /\ ~closed

\* A second passes.  (select leaves in the time-out what remains of it.)
Wait ==
    /\ Waiting /\ left > 0
    /\ left' = left - 1 /\ waited' = waited + 1
    /\ UNCHANGED <<pc, size, cnt, retry, buffer, connected, parseVars, peerVars, total>>

\* The whole time-out again.
Slip_Interrupted ==
    /\ Waiting /\ retry > 0
    /\ retry' = retry - 1 /\ left' = TimeOut
    /\ UNCHANGED <<pc, size, cnt, buffer, connected, parseVars, peerVars, total, waited>>

\* EINTR: select again with what is left.
Interrupted ==
    /\ Waiting /\ retry > 0
    /\ retry' = retry - 1
    /\ UNCHANGED <<pc, size, cnt, left, buffer, connected, parseVars, peerVars, total, waited>>

Fail ==
    /\ pc' = "bye"
    /\ UNCHANGED <<readVars, buffer, connected, parseVars, peerVars, total, waited>>

\* The time is over, ...
TimesOut == Waiting /\ left = 0 /\ Fail

\* ... or select was interrupted once more than it is retried, or failed.
SelectFails == Waiting /\ retry = 0 /\ Fail

Ready ==
    /\ pc \in {"header", "data"} /\ ~Waiting
    /\ pc' = IF pc = "header" THEN "header_read" ELSE "data_read"
    /\ UNCHANGED <<readVars, buffer, connected, parseVars, peerVars, total, waited>>

\* All was read: s_read_all returns 0.  After the data, what else the peer has
\* sent is not read, and forgotten here.
AllRead ==
    /\ pc' = IF pc = "header_read" THEN "malloc" ELSE "parse"
    /\ left' = 0 /\ retry' = 0 /\ waited' = 0
    /\ closed' = (closed \/ pc = "data_read")

\* n bytes were read: go on until all are.
Took(n) ==
    /\ cnt' = cnt + n /\ total' = total + n
    /\ IF cnt' >= size
       THEN AllRead /\ avail' = IF pc = "data_read" THEN 0 ELSE avail - n
       ELSE /\ pc' = IF pc = "header_read" THEN "header" ELSE "data"
            /\ left' = TimeOut /\ retry' = Retries
            /\ avail' = avail - n
            /\ UNCHANGED <<closed, waited>>
    /\ UNCHANGED <<size, buffer, connected, parseVars>>

\* It asks for all of data_size each time.
Slip_ReadSome ==
    /\ pc \in {"header_read", "data_read"}
    /\ \E n \in 1..avail : n <= size /\ Took(n)

\* read returns some of what is there and was asked for.
ReadSome ==
    /\ pc \in {"header_read", "data_read"}
    /\ \E n \in 1..avail : n <= size - cnt /\ Took(n)

\* read returns 0: nothing was asked for, which is all of it, ...
ReadNothing == pc = "data_read" /\ size = 0 /\ Took(0)

\* It is tried again: the loop goes on while the result is not negative.
Slip_ReadFails ==
    /\ pc \in {"header_read", "data_read"} /\ size > 0
    /\ pc' = IF pc = "header_read" THEN "header" ELSE "data"
    /\ UNCHANGED <<readVars, buffer, connected, parseVars, peerVars, total, waited>>

\* ... or the peer has closed.  Or read fails.
ReadFails ==
    /\ pc \in {"header_read", "data_read"} /\ size > 0
    /\ Fail

-----------------------------------------------------------------------------
(* client_thread.                                                          *)

\* The header says how much data there is; a buffer of that size.
Allocate ==
    /\ pc = "malloc" /\ pc' = "data"
    /\ size' \in DataSizes
    /\ cnt' = 0 /\ left' = TimeOut /\ retry' = Retries
    /\ buffer' = TRUE
    /\ UNCHANGED <<connected, parseVars, peerVars, total, waited>>

AllocateFails == pc = "malloc" /\ Fail

Bounded(x) ==
    \/ Len(data) < AnyLength
    \/ /\ json.want # "invalid" /\ JsonAfter(json, x).want # "invalid"
       /\ Len(JsonAfter(json, x).stack) <= MaxDepth
       /\ json.want \in {"key", "member"} => x \in Keys \cup Closing
       /\ json.want \in {"value", "item"} => x \notin Keys
       /\ parser.err => x \in Closing

\* The next lexeme of the data.  After an error jsmn_parse reads no more of it.
Parse(x) ==
    /\ pc = "parse" /\ Len(data) < size /\ Bounded(x)
    /\ parser' = IF parser.err THEN parser ELSE Parsed(parser, x)
    /\ data' = Append(data, x) /\ json' = JsonAfter(json, x)
    /\ UNCHANGED <<pc, readVars, buffer, connected, answer, peerVars, total, waited>>

\* An error, or the end of the data; it may also end early with a NUL.
EndOfData ==
    /\ pc = "parse" /\ pc' = "act"
    /\ answer' = Answer(parser)
    /\ UNCHANGED <<readVars, buffer, connected, parser, data, json, peerVars, total, waited>>

\* process_stream if the answer is 2, and client_dbsync; the answer and what
\* led to it are not used again.
Act ==
    /\ pc = "act" /\ pc' = "bye"
    /\ parser' = NewParser /\ answer' = [r |-> 0, camera |-> OwnAddress]
    /\ data' = <<>> /\ json' = NewJson
    /\ UNCHANGED <<readVars, buffer, connected, peerVars, total, waited>>

\* s_close and free_client.
Bye ==
    /\ pc = "bye" /\ pc' = "done"
    /\ connected' = FALSE /\ buffer' = FALSE
    /\ UNCHANGED <<readVars, parseVars, peerVars, total, waited>>

Thread ==
    \/ TimesOut \/ Ready \/ ReadSome \/ ReadNothing \/ ReadFails
    \/ Allocate \/ AllocateFails
    \/ (\E x \in Lexemes : Parse(x)) \/ EndOfData
    \/ Act \/ Bye

Finished == pc = "done" /\ UNCHANGED vars

Next ==
    \/ Send \/ PeerCloses
    \/ Wait \/ Interrupted \/ SelectFails
    \/ Thread \/ Finished

Spec == Init /\ [][Next]_vars

\* The thread runs and time passes; nothing is asked of the peer, and nothing
\* has to interrupt or fail.
FairSpec == Spec /\ WF_vars(Thread) /\ WF_vars(Wait)

-----------------------------------------------------------------------------
(* What must hold.                                                         *)

\* The data begins where the header ends and has the size it says, however
\* the bytes come: the thread takes just these from the socket (the counting
\* of s_read_all), and parses only when it has all of them.
MessageIsFramed ==
    /\ pc = "malloc" => total = HeaderSize
    /\ pc \in {"data", "data_read"} => total = HeaderSize + cnt
    /\ pc \in {"parse", "act"} => total = HeaderSize + size

\* One s_read_all waits at most a time-out for each byte, or one for none,
\* interrupted or not (s_select goes on with what is left of the time-out).
WaitIsBounded == waited <= TimeOut * (IF size = 0 THEN 1 ELSE size)

\* A peer that sends slowly, stops, or closes cannot keep the thread: it ends,
\* and then the connection is closed and the buffer is freed.
ThreadEnds == <>(pc = "done" /\ ~connected /\ ~buffer)

\* client_alert_data looks at the token after a key: whatever the data is, if
\* jsmn_parse accepts it, a token of size 1 has a token after it (the size is
\* counted when the part of a token is there).
LookAheadIsParsed ==
    pc = "parse" /\ ~parser.err =>
        \A i \in DOMAIN parser.tok : parser.tok[i].size > 0 => i < Len(parser.tok)

\* The alert is answered according to its meaning: for each JSON object, with
\* its members in any order and at any depth, if its parts fit the tokens.  One
\* that has more parts is refused, and so is the empty object, which is one part
\* (client_alert_data wants a first token with members).
AnsweredByMeaning ==
    pc = "act" /\ json.want = "end" /\ data[1] = "object" =>
        answer = IF Parts(data) \in 2..MaxTokens THEN Meaning(data)
                 ELSE [r |-> -1, camera |-> OwnAddress]
=============================================================================
