--------------------------- MODULE StreamerProofs ---------------------------
(***************************************************************************)
(* Safety of the daemon for any number of clients, packets and inputs, any *)
(* channel and pipe capacity, and whether or not outputs fail to open and  *)
(* descriptors are reused: its types; the locks exclude, there is one      *)
(* connection to the input and no client is forgotten; every packet copy   *)
(* is freed once.                                                          *)
(***************************************************************************)
EXTENDS StreamerProperties, TLAPS

-----------------------------------------------------------------------------
(* Types, and what the encoder's position says of its lists: the head of   *)
(* todo is there whenever a step of the client loop takes it.              *)

LoopStates == {"lock", "lockwait", "send", "clean", "cleanwait", "destroy",
               "close", "drain"}

\* There is a client to handle wherever the code assumes one, and the encoder
\* returns only after it began to quit.
Control ==
    /\ epc \in {"input", "read"} => clients # <<>>
    /\ epc \in {"inputlock", "inputwait"} /\ quitting => clients # <<>>
    /\ epc \in LoopStates => todo # <<>>
    /\ epc \in LoopStates /\ ~quitting => packet > 0
    /\ epc \in {"top", "input", "read", "lock", "lockwait", "send", "unref"}
           => ~quitting
    /\ epc = "done" => quitting

\* The parts of a sequence that is not empty.
LEMMA SeqParts ==
    ASSUME NEW S, NEW s \in Seq(S), s # <<>>
    PROVE  /\ Head(s) \in S /\ Tail(s) \in Seq(S)
           /\ Len(Tail(s)) = Len(s) - 1
           /\ Range(s) = {Head(s)} \cup Range(Tail(s))
<1>1. Len(s) \in Nat \ {0} /\ DOMAIN s = 1..Len(s)
  OBVIOUS
<1>2. Head(s) = s[1] /\ Head(s) \in S /\ Tail(s) \in Seq(S)
  OBVIOUS
<1>3. /\ Len(Tail(s)) = Len(s) - 1 /\ DOMAIN Tail(s) = 1..(Len(s) - 1)
      /\ \A i \in 1..(Len(s) - 1) : Tail(s)[i] = s[i + 1]
  OBVIOUS
<1>4. Range(s) \subseteq {Head(s)} \cup Range(Tail(s))
  <2>1. SUFFICES ASSUME NEW i \in 1..Len(s), i # 1
                 PROVE  s[i] \in Range(Tail(s))
    BY <1>1, <1>2 DEF Range
  <2>2. i - 1 \in 1..(Len(s) - 1) /\ s[i] = Tail(s)[i - 1]
    BY <1>1, <1>3, <2>1
  <2>3. QED
    BY <1>3, <2>2 DEF Range
<1>5. Range(Tail(s)) \subseteq Range(s)
  <2>1. \A i \in 1..(Len(s) - 1) : i + 1 \in 1..Len(s)
    BY <1>1
  <2>2. QED
    BY <1>1, <1>3, <2>1 DEF Range
<1>6. Head(s) \in Range(s)
  BY <1>1, <1>2 DEF Range
<1>7. QED
  BY <1>2, <1>3, <1>4, <1>5, <1>6

\* A sequence with one element more.
LEMMA SeqAppend ==
    ASSUME NEW S, NEW s \in Seq(S), NEW x \in S
    PROVE  /\ Append(s, x) \in Seq(S) /\ Append(s, x) # <<>>
           /\ Len(Append(s, x)) = Len(s) + 1
           /\ Range(Append(s, x)) = Range(s) \cup {x}
<1>1. Len(s) \in Nat /\ DOMAIN s = 1..Len(s)
  OBVIOUS
<1>2. /\ Append(s, x) \in Seq(S) /\ Len(Append(s, x)) = Len(s) + 1
      /\ DOMAIN Append(s, x) = 1..(Len(s) + 1)
      /\ \A i \in 1..Len(s) : Append(s, x)[i] = s[i]
      /\ Append(s, x)[Len(s) + 1] = x
  OBVIOUS
<1>3. Range(Append(s, x)) \subseteq Range(s) \cup {x}
  BY <1>1, <1>2 DEF Range
<1>4. Range(s) \subseteq Range(Append(s, x))
  <2>1. \A i \in 1..Len(s) : i \in 1..(Len(s) + 1)
    BY <1>1
  <2>2. QED
    BY <1>1, <1>2, <2>1 DEF Range
<1>5. x \in Range(Append(s, x))
  BY <1>1, <1>2 DEF Range
<1>6. Append(s, x) # <<>>
  BY <1>1, <1>2
<1>7. QED
  BY <1>2, <1>3, <1>4, <1>5, <1>6

-----------------------------------------------------------------------------

\* Appending at most one element, as the steps on pipes and hands do.
LEMMA SeqConcat ==
    ASSUME NEW S, NEW s \in Seq(S), NEW t \in AtMostOne(S)
    PROVE  s \o t \in Seq(S)
<1>1. CASE t = <<>>
  <2>1. s \o t = s
    BY <1>1
  <2>2. QED
    BY <2>1
<1>2. CASE \E x \in S : t = <<x>>
  <2>1. PICK x \in S : t = <<x>>
    BY <1>2
  <2>2. <<x>> \in Seq(S)
    OBVIOUS
  <2>3. QED
    BY <2>1, <2>2
<1>3. QED
  BY <1>1, <1>2 DEF AtMostOne

\* A hand's content is a sequence.
LEMMA SeqOfOne ==
    ASSUME NEW S, NEW t \in AtMostOne(S)
    PROVE  t \in Seq(S)
<1>1. CASE t = <<>>
  BY <1>1
<1>2. CASE \E x \in S : t = <<x>>
  BY <1>2
<1>3. QED
  BY <1>1, <1>2 DEF AtMostOne

\* A sequence of packets is one of items.
LEMMA SeqWider ==
    ASSUME NEW S, NEW T, S \subseteq T, NEW s \in Seq(S)
    PROVE  s \in Seq(T)
OBVIOUS

\* Every step keeps the types, and the encoder at a client when it handles one.
LEMMA TypeStep ==
    ASSUME TypeOK, Control, [Next]_vars
    PROVE  TypeOK' /\ Control'
<1> USE StreamerAssumption DEF TypeOK, Control, LoopStates, EncoderStates,
        WriterStates, HandlerStates, AtMostOne, Items, Packets, Header,
        Trailer, encoderVars, loopVars, inputVars, clientVars, writerVars,
        handlerVars, others
<1>a. epc \in LoopStates => cur \in Clients /\ Tail(todo) \in Seq(Clients)
  BY SeqParts DEF cur
<1>b. \A c \in Clients : buf[c] # <<>> =>
          /\ Head(buf[c]) \in Packets /\ Tail(buf[c]) \in Seq(Packets)
          /\ Len(Tail(buf[c])) <= ChanCap
  <2>1. SUFFICES ASSUME NEW c \in Clients, buf[c] # <<>>
                 PROVE  /\ Head(buf[c]) \in Packets
                        /\ Tail(buf[c]) \in Seq(Packets)
                        /\ Len(Tail(buf[c])) <= ChanCap
    OBVIOUS
  <2>2. buf[c] \in Seq(Packets) /\ Len(buf[c]) \in Nat /\ Len(buf[c]) <= ChanCap
    OBVIOUS
  <2>3. /\ Head(buf[c]) \in Packets /\ Tail(buf[c]) \in Seq(Packets)
        /\ Len(Tail(buf[c])) = Len(buf[c]) - 1
    BY <2>1, <2>2, SeqParts
  <2>4. QED
    BY <2>2, <2>3
<1>1. ASSUME StartRound PROVE TypeOK' /\ Control'
  BY <1>1, <1>a, <1>b DEF StartRound
<1>2. ASSUME OpenInput PROVE TypeOK' /\ Control'
  <2>1. opened + 1 \in 0..MaxInputs
    BY <1>2 DEF OpenInput
  <2>2. opened + 1 \in 0..(opened + 1)
    OBVIOUS
  <2>3. \A i \in live \cup {opened + 1} : i \in 1..(opened + 1)
    OBVIOUS
  <2>4. QED
    BY <1>2, <2>1, <2>2, <2>3 DEF OpenInput
<1>3. ASSUME OpenInputFails PROVE TypeOK' /\ Control'
  BY <1>3, <1>a, <1>b DEF OpenInputFails
<1>4. ASSUME ReadVideo PROVE TypeOK' /\ Control'
  <2>1. packet + 1 \in 0..MaxPackets /\ packet + 1 > 0
    BY <1>4 DEF ReadVideo
  <2>2. <<>> \in Seq(Clients)
    OBVIOUS
  <2>3. clients # <<>> /\ ~quitting'
    BY <1>4 DEF ReadVideo
  <2>4. TypeOK'
    BY <1>4, <2>1, <2>2 DEF ReadVideo
  <2>5. Control'
    BY <1>4, <2>1, <2>3 DEF ReadVideo
  <2>6. QED
    BY <2>4, <2>5
<1>5. ASSUME ReadOther PROVE TypeOK' /\ Control'
  BY <1>5, <1>a, <1>b DEF ReadOther
<1>6. ASSUME ReadFails PROVE TypeOK' /\ Control'
  BY <1>6, <1>a, <1>b DEF ReadFails
<1>7. ASSUME LockClient PROVE TypeOK' /\ Control'
  BY <1>7, <1>a, <1>b DEF LockClient
<1>8. ASSUME OutputIsOpen PROVE TypeOK' /\ Control'
  BY <1>8, <1>a, <1>b DEF OutputIsOpen
<1>9. ASSUME OpenOutput PROVE TypeOK' /\ Control'
  <2>1. cur \in Clients /\ Append(pipe[cur], Header) \in Seq(Items)
    BY <1>9, <1>a, SeqAppend DEF OpenOutput
  <2>2. pipe' \in [Clients -> Seq(Items)]
    BY <1>9, <2>1 DEF OpenOutput
  <2>3. input \in 0..MaxInputs
    OBVIOUS
  <2>4. winput' \in [Clients -> 0..MaxInputs]
    BY <1>9, <2>1, <2>3 DEF OpenOutput
  <2>5. QED
    BY <1>9, <1>a, <2>2, <2>4 DEF OpenOutput
<1>10. ASSUME OpenOutputFails PROVE TypeOK' /\ Control'
  BY <1>10, <1>a, <1>b DEF OpenOutputFails
<1>11. ASSUME SendPacket PROVE TypeOK' /\ Control'
  <2>1. cur \in Clients /\ packet \in Packets
    BY <1>11, <1>a DEF SendPacket
  <2>2. Append(kept, cur) \in Seq(Clients)
    BY <2>1, SeqAppend
  <2>3. /\ Append(buf[cur], packet) \in Seq(Packets)
        /\ Len(Append(buf[cur], packet)) <= ChanCap
    <3>1. buf[cur] \in Seq(Packets) /\ Len(buf[cur]) \in Nat
      BY <2>1
    <3>2. QED
      BY <1>11, <2>1, <3>1, SeqAppend DEF SendPacket, HasRoom
  <2>4. QED
    BY <1>11, <1>a, <2>1, <2>2, <2>3 DEF SendPacket, NextClient
<1>12. ASSUME CloneFails PROVE TypeOK' /\ Control'
  BY <1>12, <1>a, <1>b DEF CloneFails
<1>13. ASSUME TooSlow PROVE TypeOK' /\ Control'
  BY <1>13, <1>a, <1>b DEF TooSlow
<1>14. ASSUME FinishRound PROVE TypeOK' /\ Control'
  BY <1>14, <1>a, <1>b DEF FinishRound
<1>15. ASSUME LockInput PROVE TypeOK' /\ Control'
  BY <1>15, <1>a, <1>b DEF LockInput
<1>16. ASSUME DestroyInput PROVE TypeOK' /\ Control'
  <2>1. live \ {input} \subseteq 1..opened /\ 0 \in 0..opened
    OBVIOUS
  <2>2. QED
    BY <1>16, <2>1 DEF DestroyInput
<1>17. ASSUME LockToClean PROVE TypeOK' /\ Control'
  BY <1>17, <1>a, <1>b DEF LockToClean
<1>18. ASSUME CloseOutPipe PROVE TypeOK' /\ Control'
  BY <1>18, <1>a, <1>b DEF CloseOutPipe
<1>19. ASSUME DestroyOutput PROVE TypeOK' /\ Control'
  <2>0. <<>> \in Seq(Packets)
    OBVIOUS
  <2>1. CASE output[cur] /\ reuse # None
    <3>1. cur \in Clients /\ reuse \in Clients
      BY <1>19, <1>a, <2>1 DEF DestroyOutput
    <3>2. Append(pipe[reuse], Trailer) \in Seq(Items)
      BY <3>1, SeqAppend
    <3>3. QED
      BY <1>19, <2>0, <2>1, <3>1, <3>2 DEF DestroyOutput
  <2>2. CASE ~(output[cur] /\ reuse # None)
    BY <1>19, <1>a, <2>0, <2>2 DEF DestroyOutput
  <2>3. QED
    BY <2>1, <2>2
<1>20. ASSUME CloseChan PROVE TypeOK' /\ Control'
  BY <1>20, <1>a, <1>b DEF CloseChan, NextClient
<1>21. ASSUME DrainPacket PROVE TypeOK' /\ Control'
  BY <1>21, <1>a, <1>b DEF DrainPacket
<1>22. ASSUME DropChan PROVE TypeOK' /\ Control'
  BY <1>22, <1>a, <1>b DEF DropChan, NextClient
<1>23. ASSUME NEW c \in Clients, AcceptClient(c) PROVE TypeOK' /\ Control'
  <2>1. Append(clients, c) \in Seq(Clients) /\ Append(clients, c) # <<>>
    BY SeqAppend
  <2>2. QED
    BY <1>23, <2>1 DEF AcceptClient, Senders
<1>24. ASSUME NEW c \in Clients, Request(c) PROVE TypeOK' /\ Control'
  BY <1>24, <1>b DEF Request
<1>25. ASSUME NEW c \in Clients, RequestFails(c) PROVE TypeOK' /\ Control'
  BY <1>25, <1>b DEF RequestFails
<1>26. ASSUME NEW c \in Clients, Read(c) PROVE TypeOK' /\ Control'
  <2>1. Head(pipe[c]) \in Items /\ Tail(pipe[c]) \in Seq(Items)
    BY <1>26, SeqParts DEF Read
  <2>2. QED
    BY <1>26, <2>1 DEF Read
<1>27. ASSUME NEW c \in Clients, ReadEOF(c) PROVE TypeOK' /\ Control'
  BY <1>27, <1>b DEF ReadEOF
<1>28. ASSUME NEW c \in Clients, ReadFailed(c) PROVE TypeOK' /\ Control'
  <2>1. <<>> \in Seq(Items)
    OBVIOUS
  <2>2. QED
    BY <1>28, <2>1 DEF ReadFailed
<1>29. ASSUME NEW c \in Clients, Forward(c) PROVE TypeOK' /\ Control'
  <2>1. chunk[c] \in AtMostOne(Items) /\ sent[c] \in Seq(Items)
    OBVIOUS
  <2>2. sent[c] \o chunk[c] \in Seq(Items)
    BY <2>1, SeqConcat
  <2>3. QED
    BY <1>29, <2>2 DEF Forward
<1>30. ASSUME NEW c \in Clients, HangUp(c) PROVE TypeOK' /\ Control'
  <2>1. <<>> \in Seq(Items)
    OBVIOUS
  <2>2. QED
    BY <1>30, <2>1 DEF HangUp
<1>31. ASSUME NEW c \in Clients, StartWriter(c) PROVE TypeOK' /\ Control'
  BY <1>31, <1>b DEF StartWriter
<1>32. ASSUME NEW c \in Clients, ReceivePacket(c) PROVE TypeOK' /\ Control'
  BY <1>32, <1>b DEF ReceivePacket
<1>33. ASSUME NEW c \in Clients, ChannelClosed(c) PROVE TypeOK' /\ Control'
  BY <1>33, <1>b DEF ChannelClosed
<1>34. ASSUME NEW c \in Clients, RLockClient(c) PROVE TypeOK' /\ Control'
  BY <1>34, <1>b DEF RLockClient
<1>35. ASSUME NEW c \in Clients, RLockInput(c) PROVE TypeOK' /\ Control'
  BY <1>35, <1>b DEF RLockInput
<1>36. ASSUME NEW c \in Clients, WriteRefused(c) PROVE TypeOK' /\ Control'
  BY <1>36, <1>b DEF WriteRefused, WriteReturns
<1>37. ASSUME NEW c \in Clients, WritePacket(c) PROVE TypeOK' /\ Control'
  <2>1. hand[c] \in AtMostOne(Packets) /\ frag[c] \in Seq(Packets)
    OBVIOUS
  <2>2. frag[c] \o hand[c] \in Seq(Packets)
    BY <2>1, SeqConcat
  <2>3. QED
    BY <1>37, <2>2 DEF WritePacket, WriteReturns
<1>38. ASSUME NEW c \in Clients, EndFragment(c) PROVE TypeOK' /\ Control'
  BY <1>38, <1>b DEF EndFragment
<1>39. ASSUME NEW c \in Clients, WriteFragment(c) PROVE TypeOK' /\ Control'
  <2>1. hand[c] \in Seq(Packets)
    <3>1. hand[c] \in AtMostOne(Packets)
      OBVIOUS
    <3>2. QED
      BY <3>1, SeqOfOne
  <2>2. frag[c] \in Seq(Items)
    <3>1. frag[c] \in Seq(Packets) /\ Packets \subseteq Items
      OBVIOUS
    <3>2. QED
      BY ONLY <3>1, SeqWider
  <2>3. pipe[c] \o frag[c] \in Seq(Items)
    BY <2>2
  <2>4. QED
    BY <1>39, <2>1, <2>3 DEF WriteFragment, WriteReturns
<1>40. ASSUME NEW c \in Clients, WriteBroken(c) PROVE TypeOK' /\ Control'
  BY <1>40, <1>b DEF WriteBroken, WriteReturns
<1>41. ASSUME NEW c \in Clients, MuxerRejects(c) PROVE TypeOK' /\ Control'
  BY <1>41, <1>b DEF MuxerRejects, WriteReturns
<1>42. CASE UNCHANGED vars
  BY <1>42 DEF vars
<1>43. QED
  BY <1>1, <1>2, <1>3, <1>4, <1>5, <1>6, <1>7, <1>8, <1>9, <1>10, <1>11,
     <1>12, <1>13, <1>14, <1>15, <1>16, <1>17, <1>18, <1>19, <1>20, <1>21,
     <1>22, <1>23, <1>24, <1>25, <1>26, <1>27, <1>28, <1>29, <1>30, <1>31,
     <1>32, <1>33, <1>34, <1>35, <1>36, <1>37, <1>38, <1>39, <1>40, <1>41,
     <1>42 DEF Next, Encoder, Handler, Serves, WriterRuns

\* The variables keep their types, no channel holds more than its capacity, and
\* the loops over clients always have a client at hand.
THEOREM TypeCorrect == Spec => [](TypeOK /\ Control)
<1>1. Init => TypeOK /\ Control
  <2>1. <<>> \in Seq(Clients) /\ <<>> \in Seq(Packets) /\ <<>> \in Seq(Items)
    OBVIOUS
  <2>2. ASSUME Init PROVE TypeOK
    <3>1. /\ clients \in Seq(Clients) /\ todo \in Seq(Clients)
          /\ kept \in Seq(Clients)
          /\ buf \in [Clients -> Seq(Packets)]
          /\ frag \in [Clients -> Seq(Packets)]
          /\ pipe \in [Clients -> Seq(Items)]
          /\ sent \in [Clients -> Seq(Items)]
      BY <2>1, <2>2 DEF Init
    <3>2. \A c \in Clients : Len(buf[c]) <= ChanCap
      BY StreamerAssumption, <2>2 DEF Init
    <3>3. /\ opened \in 0..MaxInputs /\ input \in 0..opened
          /\ live \subseteq 1..opened /\ packet \in 0..MaxPackets
          /\ winput \in [Clients -> 0..MaxInputs]
      BY StreamerAssumption, <2>2 DEF Init
    <3>4. /\ hand \in [Clients -> AtMostOne(Packets)]
          /\ chunk \in [Clients -> AtMostOne(Items)]
          /\ alive \in [Clients -> SUBSET Packets]
      BY <2>2 DEF Init, AtMostOne
    <3>5. /\ outPipe \in [Clients -> BOOLEAN] /\ output \in [Clients -> BOOLEAN]
          /\ chan \in [Clients -> {"none", "open", "closed", "dropped"}]
          /\ wpc \in [Clients -> WriterStates]
          /\ hpc \in [Clients -> HandlerStates]
      BY <2>2 DEF Init, WriterStates, HandlerStates
    <3>6. /\ epc \in EncoderStates /\ quitting \in BOOLEAN
          /\ wlock \in Clients \cup {None} /\ reuse \in Clients \cup {None}
      BY <2>2 DEF Init, EncoderStates
    <3>7. QED
      BY <3>1, <3>2, <3>3, <3>4, <3>5, <3>6 DEF TypeOK
  <2>3. ASSUME Init PROVE Control
    BY <2>3 DEF Init, Control, LoopStates
  <2>4. QED
    BY <2>2, <2>3
<1>2. TypeOK /\ Control /\ [Next]_vars => TypeOK' /\ Control'
  BY TypeStep
<1>3. QED
  BY <1>1, <1>2, PTL DEF Spec

-----------------------------------------------------------------------------
(* Locks, the connection, and the encoder's lists.  None of the properties *)
(* is inductive.  Inv adds what the code relies on between its steps: who  *)
(* holds the client mutex for writing, that a client is new to the encoder *)
(* until it is received from ClientChan, and where in the loop the input   *)
(* must be connected.                                                      *)

Typed == TypeOK /\ Control

\* The encoder holds a client mutex only while it cleans that client up, and no
\* packetWriter holds it then.  A fragment is written to an open output.
Locks ==
    /\ wlock # None => /\ epc \in {"clean", "cleanwait", "destroy"}
                       /\ wlock = cur
                       /\ ~HoldsClient(wlock)
    /\ epc = "destroy" => wlock # None
    /\ \A c \in Clients : wpc[c] = "flush" => output[c]

\* Until the encoder receives a client it is in none of its lists and has no
\* packetWriter.
Admission ==
    \A c \in Clients : hpc[c] \in {"idle", "sending"} =>
        /\ c \notin Range(clients) \cup Range(todo) \cup Range(kept)
        /\ wpc[c] = "none" /\ ~output[c]

\* Which Inputs are connected, by where the encoder is.
Connection ==
    /\ live \subseteq {input}
    /\ epc = "input" => input = 0
    /\ epc = "top" /\ clients = <<>> => input = 0
    /\ epc = "top" /\ input # 0 => input \in live
    /\ ~quitting /\ epc \in LoopStates \cup {"read", "unref"} => input \in live
    /\ quitting /\ epc \in LoopStates \cup {"done"} => live = {}

\* The client leaving the loop is closed, and nobody else leaves it.
Listing ==
    /\ epc \in {"destroy", "close", "drain"} => ~outPipe[cur]
    /\ epc = "unref" => todo = <<>>
    /\ epc \in {"inputlock", "inputwait"} /\ ~quitting => clients = <<>>
    /\ NoStrandedHandler

\* The inductive invariant, given the types.
Inv == Locks /\ Admission /\ Connection /\ Listing /\ WritersFollowInput

\* What a step of the client loop may use.
LEMMA LoopFacts ==
    ASSUME Typed
    PROVE  /\ epc \in LoopStates => /\ cur \in Clients
                                    /\ Tail(todo) \in Seq(Clients)
                                    /\ Range(todo) =
                                          {cur} \cup Range(Tail(todo))
           /\ Range(clients) \subseteq Clients /\ Range(todo) \subseteq Clients
           /\ Range(kept) \subseteq Clients
           /\ \A c \in Clients :
                 /\ Range(Append(clients, c)) = Range(clients) \cup {c}
                 /\ Append(clients, c) # <<>>
                 /\ Range(Append(kept, c)) = Range(kept) \cup {c}
           /\ Range(<<>>) = {}
<1>1. /\ clients \in Seq(Clients) /\ todo \in Seq(Clients)
      /\ kept \in Seq(Clients)
  BY DEF Typed, TypeOK
<1>2. ASSUME epc \in LoopStates
      PROVE  /\ cur \in Clients /\ Tail(todo) \in Seq(Clients)
             /\ Range(todo) = {cur} \cup Range(Tail(todo))
  BY <1>1, <1>2, SeqParts DEF Typed, Control, cur
<1>3. \A s \in Seq(Clients) : Range(s) \subseteq Clients
  BY DEF Range
<1>4. Range(<<>>) = {}
  BY DEF Range
<1>5. QED
  BY <1>1, <1>2, <1>3, <1>4, SeqAppend

\* What an HTTP handler's step leaves alone ...
LEMMA HandlerFrame ==
    ASSUME NEW c \in Clients, Handler(c)
    PROVE  UNCHANGED <<epc, clients, todo, kept, quitting, wlock, input, live,
                       output, wpc, winput>>
BY DEF Handler, Serves, Request, RequestFails, Read, ReadEOF, ReadFailed,
   Forward, HangUp, encoderVars, loopVars, inputVars, clientVars, writerVars

\* ... and what a packetWriter's step leaves alone.
LEMMA WriterFrame ==
    ASSUME NEW c \in Clients, WriterRuns(c) \/ MuxerRejects(c)
    PROVE  UNCHANGED <<epc, clients, todo, kept, quitting, wlock, input, live,
                       outPipe, output, winput, hpc>>
BY DEF WriterRuns, StartWriter, ReceivePacket, ChannelClosed, RLockClient, RLockInput,
   WriteRefused, WritePacket, EndFragment, WriteFragment, WriteBroken, MuxerRejects,
   WriteReturns, encoderVars, loopVars, inputVars, clientVars, handlerVars

\* The client mutex stays exclusive.
LEMMA LocksStep ==
    ASSUME Typed, Inv, [Next]_vars
    PROVE  Locks'
<1> USE LoopFacts, StreamerAssumption DEF Typed, TypeOK, Control, Inv, Locks,
        LoopStates, cur, HoldsClient, ClientMutexFree, ClientReadable,
        encoderVars, loopVars, inputVars, clientVars, writerVars, handlerVars,
        others
<1>1. ASSUME StartRound PROVE Locks'
  BY <1>1 DEF StartRound
<1>2. ASSUME OpenInput PROVE Locks'
  BY <1>2 DEF OpenInput
<1>3. ASSUME OpenInputFails PROVE Locks'
  BY <1>3 DEF OpenInputFails
<1>4. ASSUME ReadVideo PROVE Locks'
  BY <1>4 DEF ReadVideo
<1>5. ASSUME ReadOther PROVE Locks'
  BY <1>5 DEF ReadOther
<1>6. ASSUME ReadFails PROVE Locks'
  BY <1>6 DEF ReadFails
<1>7. ASSUME LockClient PROVE Locks'
  BY <1>7 DEF LockClient
<1>8. ASSUME OutputIsOpen PROVE Locks'
  BY <1>8 DEF OutputIsOpen
<1>9. ASSUME OpenOutput PROVE Locks'
  BY <1>9 DEF OpenOutput
<1>10. ASSUME OpenOutputFails PROVE Locks'
  BY <1>10 DEF OpenOutputFails
<1>11. ASSUME SendPacket PROVE Locks'
  BY <1>11 DEF SendPacket, NextClient
<1>12. ASSUME CloneFails PROVE Locks'
  BY <1>12 DEF CloneFails
<1>13. ASSUME TooSlow PROVE Locks'
  BY <1>13 DEF TooSlow
<1>14. ASSUME FinishRound PROVE Locks'
  BY <1>14 DEF FinishRound
<1>15. ASSUME LockInput PROVE Locks'
  BY <1>15 DEF LockInput
<1>16. ASSUME DestroyInput PROVE Locks'
  BY <1>16 DEF DestroyInput
<1>17. ASSUME LockToClean PROVE Locks'
  BY <1>17 DEF LockToClean
<1>18. ASSUME CloseOutPipe PROVE Locks'
  BY <1>18 DEF CloseOutPipe
<1>19. ASSUME DestroyOutput PROVE Locks'
  BY <1>19 DEF DestroyOutput
<1>20. ASSUME CloseChan PROVE Locks'
  BY <1>20 DEF CloseChan, NextClient
<1>21. ASSUME DrainPacket PROVE Locks'
  BY <1>21 DEF DrainPacket
<1>22. ASSUME DropChan PROVE Locks'
  BY <1>22 DEF DropChan, NextClient
<1>23. ASSUME NEW c \in Clients, AcceptClient(c) PROVE Locks'
  BY <1>23 DEF AcceptClient, Senders
<1>24. ASSUME NEW c \in Clients, Handler(c) PROVE Locks'
  <2>1. UNCHANGED <<epc, todo, wlock, wpc, output>>
    BY <1>24, HandlerFrame
  <2>2. QED
    BY <2>1
<1>25. ASSUME NEW c \in Clients, StartWriter(c) PROVE Locks'
  BY <1>25 DEF StartWriter
<1>26. ASSUME NEW c \in Clients, ReceivePacket(c) PROVE Locks'
  BY <1>26 DEF ReceivePacket
<1>27. ASSUME NEW c \in Clients, ChannelClosed(c) PROVE Locks'
  BY <1>27 DEF ChannelClosed
<1>28. ASSUME NEW c \in Clients, RLockClient(c) PROVE Locks'
  BY <1>28 DEF RLockClient
<1>29. ASSUME NEW c \in Clients, RLockInput(c) PROVE Locks'
  BY <1>29 DEF RLockInput
<1>30. ASSUME NEW c \in Clients, WriteRefused(c) PROVE Locks'
  BY <1>30 DEF WriteRefused, WriteReturns
<1>31. ASSUME NEW c \in Clients, WritePacket(c) PROVE Locks'
  BY <1>31 DEF WritePacket, WriteReturns
<1>32. ASSUME NEW c \in Clients, EndFragment(c) PROVE Locks'
  BY <1>32 DEF EndFragment, Usable
<1>33. ASSUME NEW c \in Clients, WriteFragment(c) PROVE Locks'
  BY <1>33 DEF WriteFragment, WriteReturns
<1>34. ASSUME NEW c \in Clients, WriteBroken(c) PROVE Locks'
  BY <1>34 DEF WriteBroken, WriteReturns
<1>35. ASSUME NEW c \in Clients, MuxerRejects(c) PROVE Locks'
  BY <1>35 DEF MuxerRejects, WriteReturns
<1>36. CASE UNCHANGED vars
  BY <1>36 DEF vars
<1>37. QED
  BY <1>1, <1>2, <1>3, <1>4, <1>5, <1>6, <1>7, <1>8, <1>9, <1>10, <1>11,
     <1>12, <1>13, <1>14, <1>15, <1>16, <1>17, <1>18, <1>19, <1>20, <1>21,
     <1>22, <1>23, <1>24, <1>25, <1>26, <1>27, <1>28, <1>29, <1>30, <1>31,
     <1>32, <1>33, <1>34, <1>35, <1>36 DEF Next, Encoder, WriterRuns

\* A client is listed only once received.
LEMMA AdmissionStep ==
    ASSUME Typed, Inv, [Next]_vars
    PROVE  Admission'
<1> USE LoopFacts, StreamerAssumption DEF Typed, TypeOK, Control, Inv,
        Admission, LoopStates, encoderVars, loopVars, inputVars, clientVars,
        writerVars, handlerVars, others
<1>1. ASSUME StartRound PROVE Admission'
  BY <1>1 DEF StartRound
<1>2. ASSUME OpenInput PROVE Admission'
  BY <1>2 DEF OpenInput
<1>3. ASSUME OpenInputFails PROVE Admission'
  BY <1>3 DEF OpenInputFails
<1>4. ASSUME ReadVideo PROVE Admission'
  BY <1>4 DEF ReadVideo
<1>5. ASSUME ReadOther PROVE Admission'
  BY <1>5 DEF ReadOther
<1>6. ASSUME ReadFails PROVE Admission'
  BY <1>6 DEF ReadFails
<1>7. ASSUME LockClient PROVE Admission'
  BY <1>7 DEF LockClient
<1>8. ASSUME OutputIsOpen PROVE Admission'
  BY <1>8 DEF OutputIsOpen
<1>9. ASSUME OpenOutput PROVE Admission'
  BY <1>9 DEF OpenOutput
<1>10. ASSUME OpenOutputFails PROVE Admission'
  BY <1>10 DEF OpenOutputFails
<1>11. ASSUME SendPacket PROVE Admission'
  BY <1>11 DEF SendPacket, NextClient
<1>12. ASSUME CloneFails PROVE Admission'
  BY <1>12 DEF CloneFails
<1>13. ASSUME TooSlow PROVE Admission'
  BY <1>13 DEF TooSlow
<1>14. ASSUME FinishRound PROVE Admission'
  BY <1>14 DEF FinishRound
<1>15. ASSUME LockInput PROVE Admission'
  BY <1>15 DEF LockInput
<1>16. ASSUME DestroyInput PROVE Admission'
  BY <1>16 DEF DestroyInput
<1>17. ASSUME LockToClean PROVE Admission'
  BY <1>17 DEF LockToClean
<1>18. ASSUME CloseOutPipe PROVE Admission'
  BY <1>18 DEF CloseOutPipe
<1>19. ASSUME DestroyOutput PROVE Admission'
  BY <1>19 DEF DestroyOutput
<1>20. ASSUME CloseChan PROVE Admission'
  BY <1>20 DEF CloseChan, NextClient
<1>21. ASSUME DrainPacket PROVE Admission'
  BY <1>21 DEF DrainPacket
<1>22. ASSUME DropChan PROVE Admission'
  BY <1>22 DEF DropChan, NextClient
<1>23. ASSUME NEW c \in Clients, AcceptClient(c) PROVE Admission'
  <2>1. Range(clients') = Range(clients) \cup {c}
    BY <1>23 DEF AcceptClient
  <2>2. /\ hpc' = [hpc EXCEPT ![c] = "reading"]
        /\ UNCHANGED <<todo, kept, wpc, output>>
    BY <1>23 DEF AcceptClient
  <2>3. QED
    BY <2>1, <2>2
<1>24. ASSUME NEW c \in Clients, Request(c) PROVE Admission'
  BY <1>24 DEF Request
<1>25. ASSUME NEW c \in Clients, RequestFails(c) PROVE Admission'
  BY <1>25 DEF RequestFails
<1>26. ASSUME NEW c \in Clients, Read(c) PROVE Admission'
  BY <1>26 DEF Read
<1>27. ASSUME NEW c \in Clients, ReadEOF(c) PROVE Admission'
  BY <1>27 DEF ReadEOF
<1>28. ASSUME NEW c \in Clients, ReadFailed(c) PROVE Admission'
  BY <1>28 DEF ReadFailed
<1>29. ASSUME NEW c \in Clients, Forward(c) PROVE Admission'
  BY <1>29 DEF Forward
<1>30. ASSUME NEW c \in Clients, HangUp(c) PROVE Admission'
  BY <1>30 DEF HangUp
<1>31. ASSUME NEW c \in Clients, StartWriter(c) PROVE Admission'
  BY <1>31 DEF StartWriter
<1>32. ASSUME NEW c \in Clients, ReceivePacket(c) PROVE Admission'
  BY <1>32 DEF ReceivePacket
<1>33. ASSUME NEW c \in Clients, ChannelClosed(c) PROVE Admission'
  BY <1>33 DEF ChannelClosed
<1>34. ASSUME NEW c \in Clients, RLockClient(c) PROVE Admission'
  BY <1>34 DEF RLockClient
<1>35. ASSUME NEW c \in Clients, RLockInput(c) PROVE Admission'
  BY <1>35 DEF RLockInput
<1>36. ASSUME NEW c \in Clients, WriteRefused(c) PROVE Admission'
  BY <1>36 DEF WriteRefused, WriteReturns
<1>37. ASSUME NEW c \in Clients, WritePacket(c) PROVE Admission'
  BY <1>37 DEF WritePacket, WriteReturns
<1>38. ASSUME NEW c \in Clients, EndFragment(c) PROVE Admission'
  BY <1>38 DEF EndFragment
<1>39. ASSUME NEW c \in Clients, WriteFragment(c) PROVE Admission'
  BY <1>39 DEF WriteFragment, WriteReturns
<1>40. ASSUME NEW c \in Clients, WriteBroken(c) PROVE Admission'
  BY <1>40 DEF WriteBroken, WriteReturns
<1>41. ASSUME NEW c \in Clients, MuxerRejects(c) PROVE Admission'
  BY <1>41 DEF MuxerRejects, WriteReturns
<1>42. CASE UNCHANGED vars
  BY <1>42 DEF vars
<1>43. QED
  BY <1>1, <1>2, <1>3, <1>4, <1>5, <1>6, <1>7, <1>8, <1>9, <1>10, <1>11,
     <1>12, <1>13, <1>14, <1>15, <1>16, <1>17, <1>18, <1>19, <1>20, <1>21,
     <1>22, <1>23, <1>24, <1>25, <1>26, <1>27, <1>28, <1>29, <1>30, <1>31,
     <1>32, <1>33, <1>34, <1>35, <1>36, <1>37, <1>38, <1>39, <1>40, <1>41,
     <1>42 DEF Next, Encoder, Handler, Serves, WriterRuns

\* The input stays connected exactly while it is used.
LEMMA ConnectionStep ==
    ASSUME Typed, Inv, [Next]_vars
    PROVE  Connection'
<1> USE LoopFacts, StreamerAssumption DEF Typed, TypeOK, Control, Inv,
        Connection, Listing, LoopStates, EncoderStates, encoderVars, loopVars,
        inputVars, clientVars, writerVars, handlerVars, others
<1>1. ASSUME StartRound PROVE Connection'
  BY <1>1 DEF StartRound
<1>2. ASSUME OpenInput PROVE Connection'
  BY <1>2 DEF OpenInput
<1>3. ASSUME OpenInputFails PROVE Connection'
  BY <1>3 DEF OpenInputFails
<1>4. ASSUME ReadVideo PROVE Connection'
  BY <1>4 DEF ReadVideo
<1>5. ASSUME ReadOther PROVE Connection'
  BY <1>5 DEF ReadOther
<1>6. ASSUME ReadFails PROVE Connection'
  BY <1>6 DEF ReadFails
<1>7. ASSUME LockClient PROVE Connection'
  BY <1>7 DEF LockClient
<1>8. ASSUME OutputIsOpen PROVE Connection'
  BY <1>8 DEF OutputIsOpen
<1>9. ASSUME OpenOutput PROVE Connection'
  BY <1>9 DEF OpenOutput
<1>10. ASSUME OpenOutputFails PROVE Connection'
  BY <1>10 DEF OpenOutputFails
<1>11. ASSUME SendPacket PROVE Connection'
  BY <1>11 DEF SendPacket, NextClient
<1>12. ASSUME CloneFails PROVE Connection'
  BY <1>12 DEF CloneFails
<1>13. ASSUME TooSlow PROVE Connection'
  BY <1>13 DEF TooSlow
<1>14. ASSUME FinishRound PROVE Connection'
  BY <1>14 DEF FinishRound
<1>15. ASSUME LockInput PROVE Connection'
  BY <1>15 DEF LockInput
<1>16. ASSUME DestroyInput PROVE Connection'
  BY <1>16 DEF DestroyInput
<1>17. ASSUME LockToClean PROVE Connection'
  BY <1>17 DEF LockToClean
<1>18. ASSUME CloseOutPipe PROVE Connection'
  BY <1>18 DEF CloseOutPipe
<1>19. ASSUME DestroyOutput PROVE Connection'
  BY <1>19 DEF DestroyOutput
<1>20. ASSUME CloseChan PROVE Connection'
  BY <1>20 DEF CloseChan, NextClient
<1>21. ASSUME DrainPacket PROVE Connection'
  BY <1>21 DEF DrainPacket
<1>22. ASSUME DropChan PROVE Connection'
  BY <1>22 DEF DropChan, NextClient
<1>23. ASSUME NEW c \in Clients, AcceptClient(c) PROVE Connection'
  BY <1>23 DEF AcceptClient, Senders
<1>24. ASSUME NEW c \in Clients, Handler(c) PROVE Connection'
  <2>1. UNCHANGED <<epc, clients, quitting, input, live>>
    BY <1>24, HandlerFrame
  <2>2. QED
    BY <2>1
<1>25. ASSUME NEW c \in Clients, WriterRuns(c) \/ MuxerRejects(c)
       PROVE  Connection'
  <2>1. UNCHANGED <<epc, clients, quitting, input, live>>
    BY <1>25, WriterFrame
  <2>2. QED
    BY <2>1
<1>26. CASE UNCHANGED vars
  BY <1>26 DEF vars
<1>27. QED
  BY <1>1, <1>2, <1>3, <1>4, <1>5, <1>6, <1>7, <1>8, <1>9, <1>10, <1>11,
     <1>12, <1>13, <1>14, <1>15, <1>16, <1>17, <1>18, <1>19, <1>20, <1>21,
     <1>22, <1>23, <1>24, <1>25, <1>26 DEF Next, Encoder

\* No handler is forgotten by any path out of the loop.
LEMMA ListingStep ==
    ASSUME Typed, Inv, [Next]_vars
    PROVE  Listing'
<1> USE LoopFacts, StreamerAssumption DEF Typed, TypeOK, Control, Inv,
        Admission, Listing, NoStrandedHandler, Listed, cur, LoopStates,
        EncoderStates, encoderVars, loopVars, inputVars, clientVars,
        writerVars, handlerVars, others
<1>1. ASSUME StartRound PROVE Listing'
  BY <1>1 DEF StartRound
<1>2. ASSUME OpenInput PROVE Listing'
  BY <1>2 DEF OpenInput
<1>3. ASSUME OpenInputFails PROVE Listing'
  BY <1>3 DEF OpenInputFails
<1>4. ASSUME ReadVideo PROVE Listing'
  BY <1>4 DEF ReadVideo
<1>5. ASSUME ReadOther PROVE Listing'
  BY <1>5 DEF ReadOther
<1>6. ASSUME ReadFails PROVE Listing'
  BY <1>6 DEF ReadFails
<1>7. ASSUME LockClient PROVE Listing'
  BY <1>7 DEF LockClient
<1>8. ASSUME OutputIsOpen PROVE Listing'
  BY <1>8 DEF OutputIsOpen
<1>9. ASSUME OpenOutput PROVE Listing'
  BY <1>9 DEF OpenOutput
<1>10. ASSUME OpenOutputFails PROVE Listing'
  BY <1>10 DEF OpenOutputFails
<1>11. ASSUME SendPacket PROVE Listing'
  BY <1>11, ZenonT(40) DEF SendPacket, NextClient
<1>12. ASSUME CloneFails PROVE Listing'
  BY <1>12 DEF CloneFails
<1>13. ASSUME TooSlow PROVE Listing'
  BY <1>13 DEF TooSlow
<1>14. ASSUME FinishRound PROVE Listing'
  BY <1>14 DEF FinishRound
<1>15. ASSUME LockInput PROVE Listing'
  BY <1>15 DEF LockInput
<1>16. ASSUME DestroyInput PROVE Listing'
  BY <1>16 DEF DestroyInput
<1>17. ASSUME LockToClean PROVE Listing'
  BY <1>17 DEF LockToClean
<1>18. ASSUME CloseOutPipe PROVE Listing'
  BY <1>18 DEF CloseOutPipe
<1>19. ASSUME DestroyOutput PROVE Listing'
  BY <1>19 DEF DestroyOutput
<1>20. ASSUME CloseChan PROVE Listing'
  BY <1>20 DEF CloseChan, NextClient
<1>21. ASSUME DrainPacket PROVE Listing'
  BY <1>21 DEF DrainPacket
<1>22. ASSUME DropChan PROVE Listing'
  BY <1>22 DEF DropChan, NextClient
<1>23. ASSUME NEW c \in Clients, AcceptClient(c) PROVE Listing'
  BY <1>23, SMTT(30) DEF AcceptClient, Senders
<1>24. ASSUME NEW c \in Clients, Request(c) PROVE Listing'
  BY <1>24 DEF Request
<1>25. ASSUME NEW c \in Clients, RequestFails(c) PROVE Listing'
  BY <1>25 DEF RequestFails
<1>26. ASSUME NEW c \in Clients, Read(c) PROVE Listing'
  BY <1>26 DEF Read
<1>27. ASSUME NEW c \in Clients, ReadEOF(c) PROVE Listing'
  BY <1>27 DEF ReadEOF
<1>28. ASSUME NEW c \in Clients, ReadFailed(c) PROVE Listing'
  BY <1>28 DEF ReadFailed
<1>29. ASSUME NEW c \in Clients, Forward(c) PROVE Listing'
  BY <1>29 DEF Forward
<1>30. ASSUME NEW c \in Clients, HangUp(c) PROVE Listing'
  BY <1>30 DEF HangUp
<1>31. ASSUME NEW c \in Clients, WriterRuns(c) \/ MuxerRejects(c) PROVE Listing'
  <2>1. UNCHANGED <<epc, clients, todo, kept, quitting, outPipe, hpc>>
    BY <1>31, WriterFrame
  <2>2. QED
    BY <2>1
<1>32. CASE UNCHANGED vars
  BY <1>32 DEF vars
<1>33. QED
  BY <1>1, <1>2, <1>3, <1>4, <1>5, <1>6, <1>7, <1>8, <1>9, <1>10, <1>11,
     <1>12, <1>13, <1>14, <1>15, <1>16, <1>17, <1>18, <1>19, <1>20, <1>21,
     <1>22, <1>23, <1>24, <1>25, <1>26, <1>27, <1>28, <1>29, <1>30, <1>31,
     <1>32 DEF Next, Encoder, Handler, Serves

\* A listed client's packetWriter stays with the Input in use.
LEMMA FollowStep ==
    ASSUME Typed, Inv, [Next]_vars
    PROVE  WritersFollowInput'
<1> USE LoopFacts, StreamerAssumption DEF Typed, TypeOK, Control, Inv,
        Admission, Connection, Listing, WritersFollowInput, Listed,
        LoopStates, EncoderStates, encoderVars, loopVars, inputVars,
        clientVars, writerVars, handlerVars, others
<1>1. ASSUME StartRound PROVE WritersFollowInput'
  BY <1>1 DEF StartRound
<1>2. ASSUME OpenInput PROVE WritersFollowInput'
  BY <1>2 DEF OpenInput
<1>3. ASSUME OpenInputFails PROVE WritersFollowInput'
  BY <1>3 DEF OpenInputFails
<1>4. ASSUME ReadVideo PROVE WritersFollowInput'
  BY <1>4 DEF ReadVideo
<1>5. ASSUME ReadOther PROVE WritersFollowInput'
  BY <1>5 DEF ReadOther
<1>6. ASSUME ReadFails PROVE WritersFollowInput'
  BY <1>6 DEF ReadFails
<1>7. ASSUME LockClient PROVE WritersFollowInput'
  BY <1>7 DEF LockClient
<1>8. ASSUME OutputIsOpen PROVE WritersFollowInput'
  BY <1>8 DEF OutputIsOpen
<1>9. ASSUME OpenOutput PROVE WritersFollowInput'
  BY <1>9 DEF OpenOutput
<1>10. ASSUME OpenOutputFails PROVE WritersFollowInput'
  BY <1>10 DEF OpenOutputFails
<1>11. ASSUME SendPacket PROVE WritersFollowInput'
  <2>1. Listed' \subseteq Listed
    BY <1>11, ZenonT(40) DEF SendPacket, NextClient
  <2>2. UNCHANGED <<quitting, output, winput, input, live>>
    BY <1>11 DEF SendPacket
  <2>3. QED
    BY <2>1, <2>2
<1>12. ASSUME CloneFails PROVE WritersFollowInput'
  BY <1>12 DEF CloneFails
<1>13. ASSUME TooSlow PROVE WritersFollowInput'
  BY <1>13 DEF TooSlow
<1>14. ASSUME FinishRound PROVE WritersFollowInput'
  BY <1>14 DEF FinishRound
<1>15. ASSUME LockInput PROVE WritersFollowInput'
  BY <1>15 DEF LockInput
<1>16. ASSUME DestroyInput PROVE WritersFollowInput'
  BY <1>16 DEF DestroyInput
<1>17. ASSUME LockToClean PROVE WritersFollowInput'
  BY <1>17 DEF LockToClean
<1>18. ASSUME CloseOutPipe PROVE WritersFollowInput'
  BY <1>18 DEF CloseOutPipe
<1>19. ASSUME DestroyOutput PROVE WritersFollowInput'
  BY <1>19 DEF DestroyOutput
<1>20. ASSUME CloseChan PROVE WritersFollowInput'
  BY <1>20 DEF CloseChan, NextClient
<1>21. ASSUME DrainPacket PROVE WritersFollowInput'
  BY <1>21 DEF DrainPacket
<1>22. ASSUME DropChan PROVE WritersFollowInput'
  BY <1>22 DEF DropChan, NextClient
<1>23. ASSUME NEW c \in Clients, AcceptClient(c) PROVE WritersFollowInput'
  <2>1. /\ epc = "top" /\ epc' = "top" /\ hpc[c] = "sending"
        /\ Range(clients') = Range(clients) \cup {c}
        /\ UNCHANGED <<quitting, output, winput, input, live>>
    BY <1>23 DEF AcceptClient, Senders
  <2>2. ~output[c]
    BY <2>1
  <2>3. QED
    BY <2>1, <2>2
<1>24. ASSUME NEW c \in Clients, Handler(c) PROVE WritersFollowInput'
  <2>1. UNCHANGED <<epc, clients, todo, kept, quitting, input, live, output,
                    winput>>
    BY <1>24, HandlerFrame
  <2>2. QED
    BY <2>1
<1>25. ASSUME NEW c \in Clients, WriterRuns(c) \/ MuxerRejects(c)
       PROVE  WritersFollowInput'
  <2>1. UNCHANGED <<epc, clients, todo, kept, quitting, input, live, output,
                    winput>>
    BY <1>25, WriterFrame
  <2>2. QED
    BY <2>1
<1>26. CASE UNCHANGED vars
  BY <1>26 DEF vars
<1>27. QED
  BY <1>1, <1>2, <1>3, <1>4, <1>5, <1>6, <1>7, <1>8, <1>9, <1>10, <1>11,
     <1>12, <1>13, <1>14, <1>15, <1>16, <1>17, <1>18, <1>19, <1>20, <1>21,
     <1>22, <1>23, <1>24, <1>25, <1>26 DEF Next, Encoder

\* The invariant holds of every reachable state.
THEOREM SafetyInvariant == Spec => []Inv
<1>1. Init => Inv
  BY DEF Init, Inv, Locks, Admission, Connection, Listing, NoStrandedHandler,
     WritersFollowInput, Listed, LoopStates, Range
<1>2. Typed /\ Inv /\ [Next]_vars => Inv'
  BY LocksStep, AdmissionStep, ConnectionStep, ListingStep, FollowStep DEF Inv
<1>3. Spec => []Typed
  BY TypeCorrect, PTL DEF Typed
<1>4. QED
  BY <1>1, <1>2, <1>3, PTL DEF Spec

\* Every handler that waits on its pipe is still in the encoder's hands.
THEOREM HandlersKnown == Spec => []NoStrandedHandler
<1>1. Inv => NoStrandedHandler
  BY DEF Inv, Listing
<1>2. QED
  BY <1>1, SafetyInvariant, PTL

\* No packetWriter of a listed client is left with an Input that was closed.
THEOREM WritersCurrent == Spec => []WritersFollowInput
<1>1. Inv => WritersFollowInput
  BY DEF Inv
<1>2. QED
  BY <1>1, SafetyInvariant, PTL

\* There is never more than one connection to the input, and none without
\* clients or after the encoder has returned.
THEOREM SingleConnection == Spec => []OneConnection
<1>1. Typed /\ Inv => OneConnection
  <2>1. Typed /\ input = 0 /\ live \subseteq {input} => live = {}
    BY DEF Typed, TypeOK
  <2>2. QED
    BY <2>1 DEF Inv, Connection, OneConnection, Typed, Control, LoopStates
<1>2. Spec => []Typed
  BY TypeCorrect, PTL DEF Typed
<1>3. QED
  BY <1>1, <1>2, SafetyInvariant, PTL

\* Nothing vs_write_packet works on goes away under it: the client's lock keeps
\* cleanupClient out, the input's lock keeps destroyInput out.
THEOREM UseIsSafe == Spec => NotDestroyedInUse
<1>1. ASSUME Typed, Inv, [Next]_vars,
             NEW c \in Clients, wpc[c] \in {"write", "flush"}, Usable(c)
      PROVE  output'[c] /\ outPipe'[c] = outPipe[c] /\ winput[c] \in live'
  <2> USE LoopFacts, <1>1 DEF Typed, TypeOK, LoopStates, encoderVars, loopVars,
          inputVars, clientVars, writerVars, handlerVars, others, Usable
  <2>1. CASE OpenInput
    BY <2>1 DEF OpenInput
  <2>2. CASE DestroyInput
    BY <2>2 DEF DestroyInput, InputMutexFree, HoldsInput
  <2>3. CASE OpenOutput
    BY <2>3 DEF OpenOutput
  <2>4. CASE CloseOutPipe
    BY <2>4 DEF CloseOutPipe, ClientMutexFree, HoldsClient
  <2>5. CASE DestroyOutput
    BY <2>5 DEF DestroyOutput, Inv, Locks, HoldsClient
  <2>6. ASSUME NEW d \in Clients, Request(d)
        PROVE  output'[c] /\ outPipe'[c] = outPipe[c] /\ winput[c] \in live'
    BY <2>6 DEF Request, Inv, Admission
  <2>7. CASE \/ StartRound \/ OpenInputFails \/ ReadVideo \/ ReadOther
             \/ ReadFails \/ LockClient \/ OutputIsOpen \/ OpenOutputFails
             \/ SendPacket \/ CloneFails \/ TooSlow \/ FinishRound
             \/ LockInput \/ LockToClean \/ CloseChan \/ DrainPacket \/ DropChan \/ UNCHANGED vars
    <3>1. UNCHANGED <<output, outPipe, live>>
      BY <2>7 DEF StartRound, OpenInputFails, ReadVideo, ReadOther, ReadFails,
         LockClient, OutputIsOpen, OpenOutputFails, SendPacket, CloneFails,
         TooSlow, FinishRound, LockInput, LockToClean, CloseChan, DrainPacket,
         DropChan, vars
    <3>2. QED
      BY <3>1
  <2>8. ASSUME NEW d \in Clients,
               \/ AcceptClient(d) \/ RequestFails(d) \/ Read(d) \/ ReadEOF(d)
               \/ ReadFailed(d) \/ Forward(d) \/ HangUp(d) \/ WriterRuns(d) \/ MuxerRejects(d)
        PROVE  output'[c] /\ outPipe'[c] = outPipe[c] /\ winput[c] \in live'
    <3>1. UNCHANGED <<output, outPipe, live>>
      BY <2>8 DEF AcceptClient, RequestFails, Read, ReadEOF, ReadFailed, Forward, HangUp,
         WriterRuns, StartWriter, ReceivePacket, ChannelClosed, RLockClient, RLockInput,
         WriteRefused, WritePacket, EndFragment, WriteFragment, WriteBroken, MuxerRejects,
         WriteReturns
    <3>2. QED
      BY <3>1
  <2>9. QED
    BY <2>1, <2>2, <2>3, <2>4, <2>5, <2>6, <2>7, <2>8 DEF Next, Encoder,
       Handler, Serves
<1>2. Typed /\ Inv /\ [Next]_vars =>
        [\A c \in Clients : wpc[c] \in {"write", "flush"} /\ Usable(c)
          => /\ output'[c] /\ outPipe'[c] = outPipe[c]
             /\ winput[c] \in live']_vars
  BY <1>1
<1>3. Spec => []Typed
  BY TypeCorrect, PTL DEF Typed
<1>4. QED
  BY <1>2, <1>3, SafetyInvariant, PTL DEF Spec, NotDestroyedInUse

-----------------------------------------------------------------------------
(* Packet copies.  That the copy sent to a client is a new one depends on  *)
(* each client being handled once in a round, hence on the encoder's lists,*)
(* and that a packetWriter has one packet in hand depends on it being      *)
(* started once.                                                           *)

Distinct(s) == \A i, j \in DOMAIN s : s[i] = s[j] => i = j

\* No client is in the encoder's lists twice.
Order ==
    /\ Distinct(clients) /\ Distinct(todo) /\ Distinct(kept)
    /\ epc \in LoopStates /\ ~quitting => Range(todo) \cap Range(kept) = {}

\* An open output has an open channel; a client without one that is not being
\* cleaned up never had a packetWriter.
Setup ==
    /\ \A c \in Clients : output[c] => chan[c] = "open"
    /\ epc = "send" => output[cur]
    /\ epc \in {"close", "drain"} => ~output[cur]
    /\ ~quitting => \A c \in Listed :
         \/ output[c] \/ wpc[c] = "none"
         \/ epc \in {"close", "drain"} /\ c = cur

\* The copies of c are in its channel and its packetWriter's hand.
CopiesOf(c) ==
    /\ alive[c] = Range(buf[c]) \cup Range(hand[c])
    /\ Range(buf[c]) \cap Range(hand[c]) = {}
    /\ Distinct(buf[c])
    /\ chan[c] = "dropped" => buf[c] = <<>>
    /\ hand[c] # <<>> => wpc[c] \in {"rlock", "irlock", "write", "flush"}
    /\ \A p \in alive[c] : p <= packet

\* A client the encoder has yet to handle has no copy of the packet.
Fresh == epc \in LoopStates /\ ~quitting => \A c \in Range(todo) : packet \notin alive[c]

Conserved == Order /\ Setup /\ (\A c \in Clients : CopiesOf(c)) /\ Fresh

-----------------------------------------------------------------------------

LEMMA DistinctParts ==
    ASSUME NEW S, NEW s \in Seq(S), s # <<>>, Distinct(s)
    PROVE  Distinct(Tail(s)) /\ Head(s) \notin Range(Tail(s))
<1>1. /\ Len(s) \in Nat \ {0} /\ DOMAIN s = 1..Len(s) /\ Head(s) = s[1]
      /\ DOMAIN Tail(s) = 1..(Len(s) - 1)
      /\ \A i \in 1..(Len(s) - 1) : Tail(s)[i] = s[i + 1]
  OBVIOUS
<1>2. QED
  BY <1>1 DEF Distinct, Range

LEMMA DistinctAppend ==
    ASSUME NEW S, NEW s \in Seq(S), NEW x \in S, Distinct(s), x \notin Range(s)
    PROVE  Distinct(Append(s, x))
<1>1. /\ Len(s) \in Nat /\ DOMAIN s = 1..Len(s)
      /\ DOMAIN Append(s, x) = 1..(Len(s) + 1)
      /\ \A i \in 1..Len(s) : Append(s, x)[i] = s[i]
      /\ Append(s, x)[Len(s) + 1] = x
  OBVIOUS
<1>2. QED
  BY <1>1 DEF Distinct, Range

\* What a step of the client loop may use.
LEMMA RoundFacts ==
    ASSUME Typed, Order
    PROVE  /\ epc \in LoopStates => /\ Distinct(Tail(todo)) /\ cur \notin Range(Tail(todo))
           /\ epc \in LoopStates /\ ~quitting => Distinct(Append(kept, cur))
           /\ \A c \in Clients : c \notin Range(clients) => Distinct(Append(clients, c))
           /\ Distinct(<<>>)
<1>1. clients \in Seq(Clients) /\ todo \in Seq(Clients) /\ kept \in Seq(Clients)
  BY DEF Typed, TypeOK
<1>2. Distinct(<<>>)
  BY DEF Distinct
<1>3. epc \in LoopStates => Distinct(Tail(todo)) /\ cur \notin Range(Tail(todo))
  BY <1>1, DistinctParts DEF Order, Typed, Control, cur
<1>4. ASSUME epc \in LoopStates, ~quitting PROVE Distinct(Append(kept, cur))
  <2>1. cur \in Clients /\ cur \notin Range(kept)
    BY <1>4, LoopFacts DEF Order
  <2>2. QED
    BY <1>1, <2>1, DistinctAppend DEF Order
<1>5. \A c \in Clients : c \notin Range(clients) => Distinct(Append(clients, c))
  BY <1>1, DistinctAppend DEF Order
<1>6. QED
  BY <1>2, <1>3, <1>4, <1>5

\* A client enters clients, goes from todo to kept, and back to clients.
LEMMA OrderStep ==
    ASSUME Typed, Inv, Order, [Next]_vars
    PROVE  Order'
<1> USE LoopFacts, RoundFacts DEF Order, LoopStates
<1>1. CASE \/ StartRound \/ OpenInput \/ ReadOther \/ ReadFails \/ LockInput
  BY <1>1 DEF StartRound, OpenInput, ReadOther, ReadFails, LockInput, loopVars
<1>2. CASE OpenInputFails
  BY <1>2 DEF OpenInputFails
<1>3. CASE ReadVideo
  BY <1>3 DEF ReadVideo
<1>4. CASE LockClient \/ OutputIsOpen \/ OpenOutput \/ OpenOutputFails \/ CloneFails \/ TooSlow
  BY <1>4 DEF LockClient, OutputIsOpen, OpenOutput, OpenOutputFails, CloneFails, TooSlow, loopVars
<1>5. CASE SendPacket
  BY <1>5 DEF SendPacket, NextClient, Typed, Control
<1>6. CASE FinishRound
  BY <1>6 DEF FinishRound
<1>7. CASE DestroyInput
  BY <1>7 DEF DestroyInput
<1>8. CASE LockToClean \/ CloseOutPipe \/ DestroyOutput \/ DrainPacket
  BY <1>8 DEF LockToClean, CloseOutPipe, DestroyOutput, DrainPacket, encoderVars, loopVars
<1>9. CASE CloseChan \/ DropChan
  BY <1>9 DEF CloseChan, DropChan, NextClient
<1>10. ASSUME NEW c \in Clients, AcceptClient(c) PROVE Order'
  BY <1>10 DEF AcceptClient, Inv, Admission, Senders
<1>11. ASSUME NEW c \in Clients, Handler(c) \/ WriterRuns(c) \/ MuxerRejects(c) PROVE Order'
  BY <1>11, HandlerFrame, WriterFrame
<1>12. CASE UNCHANGED vars
  BY <1>12 DEF vars, encoderVars, loopVars
<1>13. QED
  BY <1>1, <1>2, <1>3, <1>4, <1>5, <1>6, <1>7, <1>8, <1>9, <1>10, <1>11, <1>12 DEF Next, Encoder

\* Outputs, channels and packetWriters are made together, once for a client.
LEMMA SetupStep ==
    ASSUME Typed, Inv, Order, Setup, [Next]_vars
    PROVE  Setup'
<1> USE LoopFacts, RoundFacts DEF Setup, LoopStates, Listed, Typed, TypeOK
<1>1. CASE \/ StartRound \/ OpenInput \/ ReadOther \/ ReadFails \/ LockInput
  BY <1>1 DEF StartRound, OpenInput, ReadOther, ReadFails, LockInput, loopVars, others,
       clientVars, writerVars, Inv, Listing
<1>2. CASE OpenInputFails
  BY <1>2 DEF OpenInputFails, others, clientVars
<1>3. CASE ReadVideo
  BY <1>3 DEF ReadVideo, clientVars, writerVars
<1>4. CASE LockClient \/ OutputIsOpen \/ OpenOutputFails \/ CloneFails \/ TooSlow \/ LockToClean
  BY <1>4 DEF LockClient, OutputIsOpen, OpenOutputFails, CloneFails, TooSlow, LockToClean,
       loopVars, others, clientVars, writerVars, cur
<1>5. CASE OpenOutput
  BY <1>5 DEF OpenOutput, loopVars, cur
<1>6. CASE SendPacket
  BY <1>6 DEF SendPacket, NextClient, writerVars, Control
<1>7. CASE FinishRound
  BY <1>7 DEF FinishRound, others, clientVars, writerVars, Inv, Listing
<1>8. CASE DestroyInput
  BY <1>8 DEF DestroyInput, clientVars, writerVars, Inv, Listing
<1>9. CASE CloseOutPipe \/ DestroyOutput \/ DrainPacket
  <2>1. CASE CloseOutPipe
    BY <2>1 DEF CloseOutPipe, encoderVars, loopVars, writerVars, cur
  <2>2. CASE DestroyOutput
    BY <2>2 DEF DestroyOutput, encoderVars, loopVars, writerVars, cur
  <2>3. CASE DrainPacket
    BY <2>3 DEF DrainPacket, encoderVars, loopVars, writerVars, cur
  <2>4. QED
    BY <1>9, <2>1, <2>2, <2>3
<1>10. CASE CloseChan \/ DropChan
  <2>1. /\ cur \in Clients /\ ~output[cur] /\ UNCHANGED <<quitting, output, wpc, kept>>
        /\ \A c \in Clients : c # cur => chan'[c] = chan[c]
    BY <1>10 DEF CloseChan, DropChan, writerVars
  <2>2. CASE UNCHANGED todo /\ epc' = "drain"
    BY <1>10, <2>1, <2>2 DEF CloseChan, DropChan, cur
  <2>3. CASE NextClient
    <3>1. Listed' \subseteq Listed /\ (~quitting => cur \notin Listed')
      BY <1>10, <2>1, <2>3 DEF CloseChan, DropChan, NextClient, Order
    <3>2. epc' \notin {"send", "close", "drain"}
      BY <2>3 DEF NextClient
    <3>3. \A c \in Clients : output'[c] => chan'[c] = "open"
      BY <2>1
    <3> HIDE DEF Listed, Typed, TypeOK
    <3>4. ~quitting' => \A c \in Listed' : output'[c] \/ wpc'[c] = "none"
      BY <2>1, <3>1
    <3>5. QED
      BY <3>2, <3>3, <3>4
  <2>4. QED
    BY <1>10, <2>2, <2>3 DEF CloseChan, DropChan
<1>11. ASSUME NEW c \in Clients, AcceptClient(c) PROVE Setup'
  BY <1>11, SMTT(30) DEF AcceptClient, Inv, Admission, Senders, clientVars, writerVars
<1>12. ASSUME NEW c \in Clients, Handler(c) PROVE Setup'
  <2>1. UNCHANGED chan
    BY <1>12 DEF Handler, Serves, Request, RequestFails, Read, ReadEOF, ReadFailed,
       Forward, HangUp, clientVars
  <2>2. QED
    BY <1>12, <2>1, HandlerFrame DEF cur
<1>13. ASSUME NEW c \in Clients, WriterRuns(c) \/ MuxerRejects(c) PROVE Setup'
  <2>1. UNCHANGED chan /\ \A d \in Clients : wpc[d] = "none" => wpc'[d] = "none"
    BY <1>13 DEF WriterRuns, StartWriter, ReceivePacket, ChannelClosed, RLockClient,
       RLockInput, WriteRefused, WritePacket, EndFragment, WriteFragment, WriteBroken,
       MuxerRejects, WriteReturns, clientVars
  <2>2. QED
    BY <1>13, <2>1, WriterFrame DEF cur
<1>14. CASE UNCHANGED vars
  BY <1>14 DEF vars, encoderVars, loopVars, others, clientVars, writerVars, cur
<1>15. QED
  BY <1>1, <1>2, <1>3, <1>4, <1>5, <1>6, <1>7, <1>8, <1>9, <1>10, <1>11, <1>12, <1>13,
     <1>14 DEF Next, Encoder

\* What a channel and a hand hold, after the first packet is taken out ...
LEMMA CopiesParts ==
    ASSUME Typed, NEW c \in Clients
    PROVE  /\ buf[c] \in Seq(Packets)
           /\ \A p \in Packets : p \in Int
           /\ alive[c] \subseteq Packets
           /\ buf[c] # <<>> =>
                /\ Range(buf[c]) = {Head(buf[c])} \cup Range(Tail(buf[c]))
                /\ Head(buf[c]) \in Packets
                /\ Distinct(buf[c]) => /\ Distinct(Tail(buf[c]))
                                       /\ Head(buf[c]) \notin Range(Tail(buf[c]))
           /\ Range(<<>>) = {} /\ \A p : Range(<<p>>) = {p}
<1>1. buf[c] \in Seq(Packets) /\ alive[c] \subseteq Packets
  BY DEF Typed, TypeOK
<1>2. Range(<<>>) = {} /\ \A p : Range(<<p>>) = {p}
  BY DEF Range
<1>3. \A p \in Packets : p \in Int
  BY DEF Packets
<1>4. QED
  BY <1>1, <1>2, <1>3, SeqParts, DistinctParts

\* ... and after one is added.
LEMMA CopiesAdded ==
    ASSUME Typed, NEW c \in Clients, NEW p \in Packets, Distinct(buf[c]), p \notin Range(buf[c])
    PROVE  /\ Range(Append(buf[c], p)) = Range(buf[c]) \cup {p}
           /\ Distinct(Append(buf[c], p))
<1>1. buf[c] \in Seq(Packets)
  BY DEF Typed, TypeOK
<1>2. QED
  BY <1>1, SeqAppend, DistinctAppend

\* A copy goes from the encoder to the channel to the hand, and is freed where
\* it is.
LEMMA CopiesStep ==
    ASSUME Typed, Inv, Order, Setup, Fresh, \A c \in Clients : CopiesOf(c), [Next]_vars,
           NEW c \in Clients
    PROVE  CopiesOf(c)'
<1>1. /\ packet \in Int /\ buf \in [Clients -> Seq(Packets)]
      /\ hand \in [Clients -> AtMostOne(Packets)] /\ alive \in [Clients -> SUBSET Packets]
      /\ chan \in [Clients -> {"none", "open", "closed", "dropped"}]
      /\ wpc \in [Clients -> WriterStates]
      /\ CopiesOf(c)
  BY SMTT(30) DEF Typed, TypeOK
<1>2. ASSUME UNCHANGED <<alive, buf, chan, hand, wpc>>, packet' \in Int, packet' >= packet
      PROVE  CopiesOf(c)'
  BY <1>1, <1>2, CopiesParts DEF CopiesOf
<1>3. CASE \/ StartRound \/ OpenInput \/ OpenInputFails \/ ReadOther \/ ReadFails \/ LockInput
           \/ LockClient \/ OutputIsOpen \/ OpenOutputFails \/ CloneFails \/ TooSlow
           \/ LockToClean \/ FinishRound \/ DestroyInput \/ CloseOutPipe \/ DestroyOutput
           \/ UNCHANGED vars
  BY <1>1, <1>2, <1>3 DEF StartRound, OpenInput, OpenInputFails, ReadOther, ReadFails, LockInput,
     LockClient, OutputIsOpen, OpenOutputFails, CloneFails, TooSlow, LockToClean, FinishRound,
     DestroyInput, CloseOutPipe, DestroyOutput, vars, others, clientVars, writerVars, inputVars
<1>4. CASE ReadVideo
  BY <1>1, <1>2, <1>4 DEF ReadVideo, clientVars, writerVars
<1>5. CASE OpenOutput
  <2>1. cur \in Clients /\ wpc[cur] = "none"
    BY <1>5, LoopFacts DEF OpenOutput, Setup, Listed, Typed, Control, LoopStates
  <2>2. QED
    BY <1>1, <1>5, <2>1 DEF OpenOutput, CopiesOf, inputVars
<1>6. CASE SendPacket
  <2>1. epc = "send" /\ ~quitting /\ cur \in Clients /\ cur \in Range(todo)
    BY <1>6, LoopFacts DEF SendPacket, Typed, Control, LoopStates
  <2>2. packet \in Packets
    BY <2>1 DEF Typed, TypeOK, Control, LoopStates, Packets
  <2>3. /\ cur \in Clients /\ chan[cur] = "open" /\ packet \in Packets
        /\ packet \notin alive[cur]
    BY <2>1, <2>2 DEF Setup, Fresh, LoopStates
  <2>4. packet \notin Range(buf[cur]) /\ Distinct(buf[cur])
    BY <2>3 DEF CopiesOf
  <2>5. CASE c = cur
    BY <1>1, <1>6, <2>3, <2>4, <2>5, CopiesAdded, CopiesParts
       DEF SendPacket, CopiesOf, inputVars, writerVars
  <2>6. CASE c # cur
    BY <1>1, <1>6, <2>3, <2>6 DEF SendPacket, CopiesOf, inputVars, writerVars
  <2>7. QED
    BY <2>5, <2>6
<1>7. CASE CloseChan \/ DropChan
  <2>1. cur \in Clients
    BY <1>7, LoopFacts DEF CloseChan, DropChan, LoopStates
  <2>2. QED
    BY <1>1, <1>7, <2>1 DEF CloseChan, DropChan, CopiesOf, inputVars, writerVars
<1>8. CASE DrainPacket
  <2>1. cur \in Clients
    BY <1>8, LoopFacts DEF DrainPacket, LoopStates
  <2>2. CASE c = cur
    BY <1>1, <1>8, <2>1, <2>2, CopiesParts DEF DrainPacket, CopiesOf, inputVars, writerVars
  <2>3. CASE c # cur
    BY <1>1, <1>8, <2>1, <2>3 DEF DrainPacket, CopiesOf, inputVars, writerVars
  <2>4. QED
    BY <2>2, <2>3
<1>9. ASSUME NEW d \in Clients, AcceptClient(d) \/ Handler(d) PROVE CopiesOf(c)'
  <2>1. UNCHANGED <<alive, buf, chan, hand, wpc, packet>>
    BY <1>9 DEF AcceptClient, Handler, Serves, Request, RequestFails, Read, ReadEOF, ReadFailed,
       Forward, HangUp, inputVars, clientVars, writerVars
  <2>2. QED
    BY <1>1, <1>2, <2>1
<1>10. ASSUME NEW d \in Clients, ReceivePacket(d) PROVE CopiesOf(c)'
  <2>1. CASE c = d
    BY <1>1, <1>10, <2>1, CopiesParts DEF ReceivePacket, CopiesOf, inputVars
  <2>2. CASE c # d
    BY <1>1, <1>10, <2>2 DEF ReceivePacket, CopiesOf, inputVars
  <2>3. QED
    BY <2>1, <2>2
<1>11. ASSUME NEW d \in Clients,
              \/ StartWriter(d) \/ ChannelClosed(d) \/ RLockClient(d) \/ RLockInput(d)
              \/ EndFragment(d)
       PROVE  CopiesOf(c)'
  BY <1>1, <1>11 DEF StartWriter, ChannelClosed, RLockClient, RLockInput, EndFragment,
     CopiesOf, inputVars, clientVars
<1>12. ASSUME NEW d \in Clients,
              \/ WriteRefused(d) \/ WritePacket(d) \/ WriteFragment(d) \/ WriteBroken(d)
              \/ MuxerRejects(d)
       PROVE  CopiesOf(c)'
  <2>1. PICK pc \in {"recv", "done"} : WriteReturns(d, pc)
    BY <1>12 DEF WriteRefused, WritePacket, WriteFragment, WriteBroken, MuxerRejects
  <2>2. CASE c = d
    BY <1>1, <2>1, <2>2, CopiesParts DEF WriteReturns, CopiesOf, inputVars
  <2>3. CASE c # d
    BY <1>1, <2>1, <2>3 DEF WriteReturns, CopiesOf, inputVars
  <2>4. QED
    BY <2>2, <2>3
<1>13. QED
  BY <1>3, <1>4, <1>5, <1>6, <1>7, <1>8, <1>9, <1>10, <1>11, <1>12
     DEF Next, Encoder, WriterRuns

LEMMA FreshStep ==
    ASSUME Typed, Order, Fresh, \A c \in Clients : CopiesOf(c), [Next]_vars
    PROVE  Fresh'
<1> USE LoopFacts, RoundFacts DEF Fresh, LoopStates
<1>1. CASE \/ StartRound \/ OpenInput \/ OpenInputFails \/ ReadOther \/ ReadFails \/ LockInput
           \/ FinishRound \/ DestroyInput
  BY <1>1 DEF StartRound, OpenInput, OpenInputFails, ReadOther, ReadFails, LockInput,
     FinishRound, DestroyInput
<1>2. CASE \/ LockClient \/ OutputIsOpen \/ OpenOutput \/ OpenOutputFails \/ CloneFails
           \/ TooSlow \/ LockToClean \/ CloseOutPipe \/ DestroyOutput
  BY <1>2 DEF LockClient, OutputIsOpen, OpenOutput, OpenOutputFails, CloneFails, TooSlow,
     LockToClean, CloseOutPipe, DestroyOutput, loopVars, others, inputVars, clientVars
<1>3. CASE ReadVideo
  <2>1. \A c \in Clients : packet + 1 \notin alive[c]
    BY DEF CopiesOf, Typed, TypeOK, Packets
  <2>2. QED
    BY <1>3, <2>1 DEF ReadVideo, clientVars
<1>4. CASE SendPacket
  BY <1>4 DEF SendPacket, NextClient, inputVars, Typed, TypeOK
<1>5. CASE DrainPacket
  BY <1>5 DEF DrainPacket, encoderVars, loopVars, inputVars, Typed, TypeOK
<1>6. CASE CloseChan \/ DropChan
  BY <1>6 DEF CloseChan, DropChan, NextClient, inputVars
<1>7. ASSUME NEW c \in Clients, AcceptClient(c) PROVE Fresh'
  BY <1>7 DEF AcceptClient
<1>8. ASSUME NEW c \in Clients, Handler(c) \/ WriterRuns(c) \/ MuxerRejects(c) PROVE Fresh'
  <2>1. CASE Handler(c)
    <3>1. UNCHANGED <<packet, alive>>
      BY <2>1 DEF Handler, Serves, Request, RequestFails, Read, ReadEOF, ReadFailed,
         Forward, HangUp, inputVars, clientVars
    <3>2. QED
      BY <2>1, <3>1, HandlerFrame
  <2>2. CASE WriterRuns(c) \/ MuxerRejects(c)
    <3>1. UNCHANGED packet
      BY <2>2 DEF WriterRuns, StartWriter, ReceivePacket, ChannelClosed, RLockClient,
         RLockInput, WriteRefused, WritePacket, EndFragment, WriteFragment, WriteBroken,
         MuxerRejects, WriteReturns, inputVars
    <3>2. \/ UNCHANGED alive
          \/ alive' = [alive EXCEPT ![c] = @ \ Range(hand[c])]
      BY <2>2 DEF WriterRuns, StartWriter, ReceivePacket, ChannelClosed, RLockClient,
         RLockInput, WriteRefused, WritePacket, EndFragment, WriteFragment, WriteBroken,
         MuxerRejects, WriteReturns, clientVars
    <3>3. \A d \in Clients : alive'[d] \subseteq alive[d]
      <4>1. alive \in [Clients -> SUBSET Packets]
        BY DEF Typed, TypeOK
      <4>2. CASE alive' = [alive EXCEPT ![c] = @ \ Range(hand[c])]
        <5>1. \A d \in Clients : alive'[d] = IF d = c THEN alive[d] \ Range(hand[c]) ELSE alive[d]
          BY <4>1, <4>2, Zenon
        <5>2. QED
          BY <5>1, Zenon
      <4>3. QED
        BY <3>2, <4>2
    <3>4. QED
      BY <2>2, <3>1, <3>3, WriterFrame
  <2>3. QED
    BY <1>8, <2>1, <2>2
<1>9. CASE UNCHANGED vars
  BY <1>9 DEF vars, encoderVars, loopVars, others, inputVars, clientVars
<1>10. QED
  BY <1>1, <1>2, <1>3, <1>4, <1>5, <1>6, <1>7, <1>8, <1>9 DEF Next, Encoder

-----------------------------------------------------------------------------

\* The invariant of the packet copies.
THEOREM ConservedInvariant == Spec => []Conserved
<1>1. Init => Conserved
  <2>1. Range(<<>>) = {} /\ Distinct(<<>>)
    BY DEF Range, Distinct
  <2>2. QED
    BY <2>1 DEF Init, Conserved, Order, Setup, CopiesOf, Fresh, Listed, LoopStates
<1>2. Typed /\ Inv /\ Conserved /\ [Next]_vars => Conserved'
  BY OrderStep, SetupStep, CopiesStep, FreshStep DEF Conserved
<1>3. Spec => []Typed
  BY TypeCorrect, PTL DEF Typed
<1>4. QED
  BY <1>1, <1>2, <1>3, SafetyInvariant, PTL DEF Spec

\* No packet copy is freed twice and none is forgotten: encoder, packetWriter
\* and the drain in cleanupClient share the work without overlap.
THEOREM CopiesConserved == Spec => []PacketsConserved
<1>1. Conserved => PacketsConserved
  BY DEF Conserved, CopiesOf, PacketsConserved
<1>2. QED
  BY <1>1, ConservedInvariant, PTL
=============================================================================
