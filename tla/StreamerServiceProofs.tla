----------------------- MODULE StreamerServiceProofs -----------------------
(***************************************************************************)
(* The daemon implements StreamService, for any number of clients, packets *)
(* and inputs and any capacities, as long as no descriptor is reused.      *)
(*                                                                         *)
(* Between a packet's reading and a viewer's receiving it lie the channel, *)
(* the packetWriter's hand, the fragment its muxer keeps, the pipe and the *)
(* handler's chunk.  The proof follows the whole of it (Whole): a step of  *)
(* a packetWriter or a handler moves items from one part to the next and   *)
(* leaves the whole as it is (Onward); the encoder adds the next packet,   *)
(* and that the client was given the one before depends on whose turn it   *)
(* is in the round (UpTo).                                                 *)
(***************************************************************************)
EXTENDS StreamerProofs, SequenceTheorems

\* No new pipe has the descriptor number of the output being destroyed.
NoReuse == reuse = None

\* A header, then consecutive packets up to n.
IsStream(s, n) ==
    \A i \in 1..Len(s) : /\ n > 0
                         /\ i = 1 => s[i] = Header
                         /\ i > 1 => s[i] \in 1..n
                         /\ i > 2 => s[i] = s[i - 1] + 1

\* A beginning of a stream is a stream.
LEMMA StreamPrefix ==
    ASSUME NEW s \in Seq(Items), NEW t \in Seq(Items), NEW n \in Nat, IsStream(s \o t, n)
    PROVE  IsStream(s, n)
<1>1. /\ Len(s) \in Nat /\ Len(t) \in Nat /\ Len(s \o t) = Len(s) + Len(t)
      /\ \A i \in 1..Len(s) : (s \o t)[i] = s[i]
  BY ConcatProperties
<1>2. QED
  BY <1>1 DEF IsStream

\* It remains one while the source goes on.
LEMMA StreamGrows ==
    ASSUME NEW s \in Seq(Items), NEW n \in Nat, NEW m \in Nat, n <= m, IsStream(s, n)
    PROVE  IsStream(s, m)
BY DEF IsStream

\* The packet that comes next may be added to a stream, ...
LEMMA StreamAppend ==
    ASSUME NEW s \in Seq(Items), NEW n \in Nat, IsStream(s, n), s # <<>>, NEW x \in Items,
           x \in 1..n, Len(s) > 1 => x = s[Len(s)] + 1
    PROVE  IsStream(Append(s, x), n)
<1>1. /\ Len(s) \in Nat \ {0} /\ Len(Append(s, x)) = Len(s) + 1
      /\ \A i \in 1..Len(s) : Append(s, x)[i] = s[i]
      /\ Append(s, x)[Len(s) + 1] = x
  OBVIOUS
<1>2. QED
  BY <1>1 DEF IsStream

\* ... and when another may be, it is the one that comes next.
LEMMA StreamNext ==
    ASSUME NEW s \in Seq(Items), NEW x \in Items, NEW t \in Seq(Items), NEW n \in Nat,
           IsStream(s \o (<<x>> \o t), n)
    PROVE  /\ n > 0
           /\ x \in IF s = <<>> THEN {0} ELSE IF Len(s) = 1 THEN 1..n
                    ELSE {s[Len(s)] + 1} \cap 1..n
<1>1. /\ Len(s) \in Nat /\ Len(t) \in Nat /\ <<x>> \in Seq(Items) /\ <<x>> \o t \in Seq(Items)
      /\ Len(<<x>>) = 1 /\ Len(<<x>> \o t) = 1 + Len(t) /\ (<<x>> \o t)[1] = x
      /\ (s = <<>>) = (Len(s) = 0)
  BY ConcatProperties, SMT
<1>2. /\ Len(s \o (<<x>> \o t)) = Len(s) + 1 + Len(t)
      /\ \A i \in 1..Len(s) : (s \o (<<x>> \o t))[i] = s[i]
      /\ (s \o (<<x>> \o t))[Len(s) + 1] = x
  BY <1>1, ConcatProperties
<1>3. /\ Len(s) + 1 \in 1..(Len(s) + 1 + Len(t))
      /\ Len(s) # 0 => Len(s) \in 1..Len(s)
  BY <1>1
<1>4. /\ n > 0
      /\ Len(s) = 0 => x = Header
      /\ Len(s) > 0 => x \in 1..n
      /\ Len(s) > 1 => x = s[Len(s)] + 1
  <2> DEFINE w == s \o (<<x>> \o t)
  <2>1. /\ w[Len(s) + 1] = x
        /\ Len(s) # 0 => w[(Len(s) + 1) - 1] = s[Len(s)]
        /\ Len(s) + 1 \in 1..Len(w)
    BY <1>1, <1>2, <1>3
  <2> HIDE DEF w
  <2>2. IsStream(w, n)
    BY DEF w
  <2>3. QED
    BY <1>1, <2>1, <2>2 DEF IsStream
<1>5. QED
  BY <1>1, <1>4 DEF Header

-----------------------------------------------------------------------------

\* What was sent to the viewer of c or will be, unless the viewer leaves ...
Held(c) == sent[c] \o (chunk[c] \o pipe[c])

\* ... and with what its muxer and its packetWriter have yet to write.
Whole(c) == Held(c) \o ((frag[c] \o hand[c]) \o buf[c])

\* What is in the channel still gets to the viewer.
Fed(c) ==
    /\ output[c] /\ hpc[c] # "done"
    /\ wpc[c] \in {"start", "recv", "rlock", "irlock", "write", "flush"}

\* Before a packetWriter is started there is nothing for its viewer.
Untouched(c) ==
    wpc[c] = "none" =>
        /\ ~output[c]
        /\ sent[c] = <<>> /\ chunk[c] = <<>> /\ pipe[c] = <<>>
        /\ frag[c] = <<>> /\ hand[c] = <<>> /\ buf[c] = <<>>

\* Such a viewer waits, or failed to read, with its pipe open, while the encoder
\* works for it.
Waits(c) ==
    /\ hpc[c] = "sending" => outPipe[c]
    /\ ~quitting /\ c \in Listed /\ wpc[c] = "none"
       /\ ~(epc \in {"destroy", "close", "drain"} /\ c = cur)
          => hpc[c] \in {"reading", "done"} /\ outPipe[c]

\* A handler has a chunk while it writes.
Chunked(c) == /\ hpc[c] = "reading" => chunk[c] = <<>>
              /\ hpc[c] = "writing" => chunk[c] # <<>>

\* A header, then consecutive packets.
Flow(c) ==
    /\ IsStream(Held(c), packet)
    /\ Fed(c) => IsStream(Whole(c), packet)

\* The last packet a client that is served was given: the one the encoder read
\* last, or the one before if it is the client's turn yet to come.
Due(c) == IF epc \in LoopStates /\ c \in Range(todo) THEN packet - 1 ELSE packet

UpTo(c) ==
    ~quitting /\ c \in Listed /\ Fed(c) =>
        \/ Len(Whole(c)) > 1 /\ Whole(c)[Len(Whole(c))] = Due(c)
        \/ Len(Whole(c)) = 1 /\ epc \in LoopStates /\ c = cur

Served ==
    /\ NoReuse
    /\ \A c \in Clients : Untouched(c) /\ Waits(c) /\ Chunked(c) /\ Flow(c) /\ UpTo(c)

-----------------------------------------------------------------------------

\* The parts of a stream are sequences of items.
LEMMA PartTypes ==
    ASSUME Typed, NEW c \in Clients
    PROVE  /\ sent[c] \in Seq(Items) /\ chunk[c] \in Seq(Items) /\ pipe[c] \in Seq(Items)
           /\ frag[c] \in Seq(Items) /\ hand[c] \in Seq(Items)
           /\ buf[c] \in Seq(Items)
           /\ Held(c) \in Seq(Items) /\ Whole(c) \in Seq(Items)
<1>1. /\ sent[c] \in Seq(Items) /\ pipe[c] \in Seq(Items) /\ chunk[c] \in AtMostOne(Items)
      /\ hand[c] \in AtMostOne(Packets) /\ buf[c] \in Seq(Packets)
      /\ frag[c] \in Seq(Packets)
  BY DEF Typed, TypeOK
<1>2. Seq(Packets) \subseteq Seq(Items)
  BY SeqMonotonic DEF Items
<1>3. ASSUME NEW S, NEW s \in AtMostOne(S) PROVE s \in Seq(S)
  BY SeqOfOne
<1>4. /\ chunk[c] \in Seq(Items) /\ hand[c] \in Seq(Items) /\ buf[c] \in Seq(Items)
      /\ frag[c] \in Seq(Items)
  BY <1>1, <1>2, <1>3, Zenon
<1>5. Held(c) \in Seq(Items)
  BY <1>1, <1>4, ConcatProperties DEF Held
<1>6. Whole(c) \in Seq(Items)
  BY <1>4, <1>5, ConcatProperties DEF Whole
<1>7. QED
  BY <1>1, <1>4, <1>5, <1>6

\* Items move from one part to the next.
LEMMA Regroup ==
    ASSUME NEW s \in Seq(Items), NEW t \in Seq(Items), NEW u \in Seq(Items)
    PROVE  s \o (t \o u) = (s \o t) \o u
BY ConcatAssociative

\* To move nothing changes nothing.
LEMMA NoItem ==
    ASSUME NEW s \in Seq(Items)
    PROVE  s \o <<>> = s /\ <<>> \o s = s
BY ConcatEmptySeq

\* To move the first item, and then the others, moves all.
LEMMA FirstItem ==
    ASSUME NEW s \in Seq(Items), s # <<>>
    PROVE  <<Head(s)>> \o Tail(s) = s
<1>1. /\ Len(s) \in Nat \ {0} /\ Head(s) = s[1] /\ Head(s) \in Items /\ Tail(s) \in Seq(Items)
      /\ Len(Tail(s)) = Len(s) - 1
      /\ \A i \in 1..(Len(s) - 1) : Tail(s)[i] = s[i + 1]
  OBVIOUS
<1>2. /\ <<Head(s)>> \in Seq(Items) /\ Len(<<Head(s)>>) = 1 /\ <<Head(s)>>[1] = Head(s)
  BY <1>1
<1>3. /\ <<Head(s)>> \o Tail(s) \in Seq(Items)
      /\ Len(<<Head(s)>> \o Tail(s)) = Len(s)
      /\ \A i \in 1..Len(s) : (<<Head(s)>> \o Tail(s))[i] =
             IF i <= 1 THEN <<Head(s)>>[i] ELSE Tail(s)[i - 1]
  BY <1>1, <1>2, ConcatProperties
<1>4. ASSUME NEW i \in 1..Len(s) PROVE (<<Head(s)>> \o Tail(s))[i] = s[i]
  <2>1. CASE i = 1
    BY <1>1, <1>2, <1>3, <2>1
  <2>2. CASE i # 1
    <3>1. i - 1 \in 1..(Len(s) - 1) /\ ~(i <= 1)
      BY <1>1, <2>2
    <3>2. (<<Head(s)>> \o Tail(s))[i] = Tail(s)[i - 1] /\ Tail(s)[i - 1] = s[(i - 1) + 1]
      BY <1>1, <1>3, <3>1
    <3>3. QED
      BY <3>2
  <2>3. QED
    BY <2>1, <2>2
<1>5. QED
  BY <1>3, <1>4, SeqEqual

\* A fragment is written, and the packet in hand starts the next one.
LEMMA FragmentGroup ==
    ASSUME Typed, NEW c \in Clients
    PROVE  Whole(c) = (Held(c) \o frag[c]) \o (hand[c] \o buf[c])
<1>1. /\ Held(c) \in Seq(Items) /\ frag[c] \in Seq(Items) /\ hand[c] \in Seq(Items)
      /\ buf[c] \in Seq(Items)
  BY PartTypes
<1>2. hand[c] \o buf[c] \in Seq(Items)
  BY <1>1, ConcatProperties
<1>3. frag[c] \o (hand[c] \o buf[c]) = (frag[c] \o hand[c]) \o buf[c]
  BY <1>1, Regroup
<1>4. Held(c) \o (frag[c] \o (hand[c] \o buf[c])) = (Held(c) \o frag[c]) \o (hand[c] \o buf[c])
  BY <1>1, <1>2, Regroup
<1>5. QED
  BY <1>3, <1>4, Zenon DEF Whole

\* Where an HTTP handler's step takes items.
LEMMA HandlerMoves ==
    ASSUME Typed, NEW c \in Clients, NEW d \in Clients, Handler(d), Chunked(c)
    PROVE  /\ \/ Held(c)' = Held(c)
              \/ Held(c)' = sent[c] /\ ~Fed(c)'
           /\ Fed(c)' => Whole(c)' = Whole(c)
           /\ hpc[c] = "done" => hpc'[c] = "done"
<1>0. /\ sent[c] \in Seq(Items) /\ chunk[c] \in Seq(Items) /\ pipe[c] \in Seq(Items)
      /\ frag[c] \in Seq(Items) /\ hand[c] \in Seq(Items) /\ buf[c] \in Seq(Items)
      /\ Held(c) \in Seq(Items) /\ Whole(c) \in Seq(Items)
  BY PartTypes
<1>1. /\ UNCHANGED <<frag, hand, buf, output, wpc>>
      /\ hpc \in [Clients -> HandlerStates]
      /\ pipe \in [Clients -> Seq(Items)] /\ sent \in [Clients -> Seq(Items)]
      /\ chunk \in [Clients -> AtMostOne(Items)]
  BY DEF Typed, TypeOK, Handler, Serves, Request, RequestFails, Read, ReadEOF, ReadFailed, Forward,
     HangUp, clientVars, writerVars
<1>3. CASE c # d \/ Request(d) \/ RequestFails(d) \/ ReadEOF(d)
  <2>1. /\ sent'[c] = sent[c] /\ chunk'[c] = chunk[c] /\ pipe'[c] = pipe[c]
        /\ hpc[c] = "done" => hpc'[c] = "done"
    BY <1>1, <1>3 DEF Handler, Serves, Request, RequestFails, Read, ReadEOF, ReadFailed, Forward,
       HangUp
  <2>2. Held(c)' = Held(c)
    BY <2>1, Zenon DEF Held
  <2>3. Whole(c)' = Whole(c)
    BY <1>1, <2>2, Zenon DEF Whole
  <2>4. QED
    BY <2>1, <2>2, <2>3
<1>4. CASE c = d /\ Read(d)
  <2>1. /\ pipe[c] # <<>> /\ chunk[c] = <<>> /\ sent'[c] = sent[c]
        /\ chunk'[c] = <<Head(pipe[c])>> /\ pipe'[c] = Tail(pipe[c])
        /\ hpc[c] # "done"
    BY <1>1, <1>4 DEF Read, Chunked
  <2>2. chunk'[c] \o pipe'[c] = chunk[c] \o pipe[c]
    <3>1. chunk'[c] \o pipe'[c] = pipe[c]
      BY <1>0, <2>1, FirstItem
    <3>2. chunk[c] \o pipe[c] = pipe[c]
      BY <1>0, <2>1, NoItem
    <3>3. QED
      BY <3>1, <3>2
  <2>3. Held(c)' = Held(c)
    BY <2>1, <2>2, Zenon DEF Held
  <2>4. Whole(c)' = Whole(c)
    BY <1>1, <2>3, Zenon DEF Whole
  <2>5. QED
    BY <2>1, <2>3, <2>4
<1>5. CASE c = d /\ Forward(d)
  <2>1. /\ sent'[c] = sent[c] \o chunk[c] /\ chunk'[c] = <<>> /\ pipe'[c] = pipe[c]
        /\ hpc[c] # "done"
    BY <1>1, <1>5 DEF Forward
  <2>2. chunk'[c] \o pipe'[c] = pipe[c]
    BY <2>1, <1>0, NoItem, FirstItem, Zenon
  <2>3. (sent[c] \o chunk[c]) \o pipe[c] = sent[c] \o (chunk[c] \o pipe[c])
    <3>1. sent[c] \in Seq(Items) /\ chunk[c] \in Seq(Items) /\ pipe[c] \in Seq(Items)
      BY <1>0
    <3>2. QED
      BY <3>1, Regroup
  <2>4. Held(c)' = Held(c)
    BY <2>1, <2>2, <2>3, Zenon DEF Held
  <2>5. Whole(c)' = Whole(c)
    BY <1>1, <2>4, Zenon DEF Whole
  <2>6. QED
    BY <2>1, <2>4, <2>5
<1>6. CASE c = d /\ HangUp(d)
  <2>1. /\ sent'[c] = sent[c] /\ chunk'[c] = <<>> /\ pipe'[c] = <<>> /\ hpc'[c] = "done"
    BY <1>1, <1>6 DEF HangUp
  <2>2. Held(c)' = sent[c]
    BY <2>1, <1>0, NoItem, FirstItem DEF Held
  <2>3. QED
    BY <2>1, <2>2 DEF Fed
<1>7. CASE c = d /\ ReadFailed(d)
  <2>1. /\ sent'[c] = sent[c] /\ chunk'[c] = <<>> /\ pipe'[c] = <<>> /\ hpc'[c] = "done"
    BY <1>1, <1>7 DEF ReadFailed, Chunked
  <2>2. Held(c)' = sent[c]
    BY <2>1, <1>0, NoItem, FirstItem DEF Held
  <2>3. QED
    BY <2>1, <2>2 DEF Fed
<1>8. QED
  BY <1>3, <1>4, <1>5, <1>6, <1>7 DEF Handler, Serves

\* Where a packetWriter's step takes items.
LEMMA WriterMoves ==
    ASSUME Typed, Locks, NEW c \in Clients, CopiesOf(c), NEW d \in Clients,
           WriterRuns(d) \/ MuxerRejects(d)
    PROVE  /\ \/ Held(c)' = Held(c)
              \/ /\ Held(c)' = Held(c) \o frag[c]
                 /\ hpc[c] # "done" /\ output[c] /\ wpc[c] = "flush"
           /\ Fed(c)' => Fed(c) /\ Whole(c)' = Whole(c)
           /\ wpc[c] = "none" <=> wpc'[c] = "none"
<1>0. /\ sent[c] \in Seq(Items) /\ chunk[c] \in Seq(Items) /\ pipe[c] \in Seq(Items)
      /\ frag[c] \in Seq(Items) /\ hand[c] \in Seq(Items) /\ buf[c] \in Seq(Items)
      /\ Held(c) \in Seq(Items) /\ Whole(c) \in Seq(Items)
  BY PartTypes
<1>1. /\ wpc \in [Clients -> WriterStates] /\ hand \in [Clients -> AtMostOne(Packets)]
      /\ pipe \in [Clients -> Seq(Items)] /\ buf \in [Clients -> Seq(Packets)]
      /\ frag \in [Clients -> Seq(Packets)]
      /\ UNCHANGED <<sent, chunk, hpc, output>>
  BY WriterFrame DEF Typed, TypeOK, WriterRuns, StartWriter, ReceivePacket, ChannelClosed,
     RLockClient, RLockInput, WriteRefused, WritePacket, EndFragment, WriteFragment,
     WriteBroken, MuxerRejects, handlerVars
<1>2. CASE c # d
  <2>1. /\ pipe'[c] = pipe[c] /\ hand'[c] = hand[c] /\ buf'[c] = buf[c] /\ wpc'[c] = wpc[c]
        /\ frag'[c] = frag[c]
    BY <1>1, <1>2 DEF WriterRuns, StartWriter, ReceivePacket, ChannelClosed, RLockClient,
       RLockInput, WriteRefused, WritePacket, EndFragment, WriteFragment, WriteBroken,
       MuxerRejects, WriteReturns, handlerVars, clientVars
  <2>2. QED
    BY <1>1, <2>1 DEF Held, Whole, Fed
<1>3. CASE c = d /\ (\/ StartWriter(d) \/ ChannelClosed(d) \/ RLockClient(d)
                     \/ RLockInput(d) \/ EndFragment(d))
  <2>1. /\ UNCHANGED <<pipe, hand, buf, frag>>
        /\ wpc[c] \in {"start", "recv", "rlock", "irlock", "write"} /\ wpc'[c] # "none"
    BY <1>1, <1>3 DEF StartWriter, ChannelClosed, RLockClient, RLockInput, EndFragment,
       handlerVars, clientVars
  <2>2. QED
    BY <1>1, <2>1 DEF Held, Whole, Fed
<1>4. CASE c = d /\ ReceivePacket(d)
  <2>1. /\ buf[c] # <<>> /\ hand[c] = <<>> /\ wpc[c] = "recv" /\ wpc'[c] = "rlock"
        /\ hand'[c] = <<Head(buf[c])>> /\ buf'[c] = Tail(buf[c])
        /\ UNCHANGED <<pipe, frag>>
    BY <1>1, <1>4 DEF ReceivePacket, handlerVars, CopiesOf
  <2>2. hand'[c] \in Seq(Items) /\ buf'[c] \in Seq(Items)
    <3>1. Head(buf[c]) \in Items /\ Tail(buf[c]) \in Seq(Items)
      BY <1>0, <2>1, SeqParts
    <3>2. QED
      BY <2>1, <3>1
  <2>3. hand'[c] \o buf'[c] = buf[c]
    BY <2>1, <1>0, FirstItem
  <2>4. (frag[c] \o hand'[c]) \o buf'[c] = frag[c] \o buf[c]
    <3>1. frag[c] \in Seq(Items)
      BY <1>0
    <3>2. frag[c] \o (hand'[c] \o buf'[c]) = (frag[c] \o hand'[c]) \o buf'[c]
      BY <2>2, <3>1, Regroup
    <3>3. QED
      BY <2>3, <3>2, Zenon
  <2>5. frag[c] \o hand[c] = frag[c]
    BY <1>0, <2>1, NoItem
  <2>6. Held(c)' = Held(c)
    BY <1>1, <2>1, Zenon DEF Held
  <2>7. Whole(c)' = Whole(c)
    BY <2>1, <2>4, <2>5, <2>6, Zenon DEF Whole
  <2>8. QED
    BY <1>1, <2>1, <2>6, <2>7 DEF Fed
<1>5. CASE c = d /\ WritePacket(d)
  <2>1. /\ frag'[c] = frag[c] \o hand[c] /\ hand'[c] = <<>> /\ UNCHANGED <<buf, pipe>>
        /\ wpc[c] = "write" /\ wpc'[c] = "recv"
    BY <1>1, <1>5 DEF WritePacket, WriteReturns, handlerVars
  <2>2. frag[c] \o hand[c] \in Seq(Items)
    BY <1>0, ConcatProperties
  <2>3. frag'[c] \o hand'[c] = frag[c] \o hand[c]
    BY <2>1, <2>2, NoItem
  <2>4. Held(c)' = Held(c)
    BY <1>1, <2>1, Zenon DEF Held
  <2>5. Whole(c)' = Whole(c)
    BY <2>1, <2>3, <2>4, Zenon DEF Whole
  <2>6. QED
    BY <1>1, <2>1, <2>4, <2>5 DEF Fed
<1>6. CASE c = d /\ WriteFragment(d)
  <2>1. /\ pipe'[c] = pipe[c] \o frag[c] /\ frag'[c] = hand[c] /\ hand'[c] = <<>>
        /\ UNCHANGED buf /\ wpc[c] = "flush" /\ wpc'[c] = "recv" /\ output[c] /\ hpc[c] # "done"
    BY <1>1, <1>6 DEF WriteFragment, WriteReturns, Locks
  <2>2. chunk[c] \o pipe[c] \in Seq(Items)
    BY <1>0, ConcatProperties
  <2>3. chunk[c] \o (pipe[c] \o frag[c]) = (chunk[c] \o pipe[c]) \o frag[c]
    <3>1. chunk[c] \in Seq(Items) /\ pipe[c] \in Seq(Items) /\ frag[c] \in Seq(Items)
      BY <1>0
    <3>2. QED
      BY <3>1, Regroup, Zenon
  <2>4. sent[c] \o ((chunk[c] \o pipe[c]) \o frag[c])
        = (sent[c] \o (chunk[c] \o pipe[c])) \o frag[c]
    <3>1. sent[c] \in Seq(Items) /\ frag[c] \in Seq(Items)
      BY <1>0
    <3>2. QED
      BY <2>2, <3>1, Regroup, Zenon
  <2>5. Held(c)' = Held(c) \o frag[c]
    BY <1>1, <2>1, <2>3, <2>4, Zenon DEF Held
  <2>6. (frag'[c] \o hand'[c]) \o buf'[c] = hand[c] \o buf[c]
    <3>1. hand[c] \o <<>> = hand[c]
      BY <1>0, NoItem
    <3>2. QED
      BY <2>1, <3>1, Zenon
  <2>7. (Held(c) \o frag[c]) \o (hand[c] \o buf[c]) = Whole(c)
    BY FragmentGroup
  <2>8. Whole(c)' = Whole(c)
    BY <2>5, <2>6, <2>7, Zenon DEF Whole
  <2>9. QED
    BY <1>1, <2>1, <2>5, <2>8 DEF Fed
<1>7. CASE c = d /\ (WriteRefused(d) \/ WriteBroken(d) \/ MuxerRejects(d))
  <2>1. UNCHANGED pipe /\ wpc[c] \in {"write", "flush"} /\ wpc'[c] = "done"
    BY <1>1, <1>7 DEF WriteRefused, WriteBroken, MuxerRejects, WriteReturns, handlerVars
  <2>2. QED
    BY <1>1, <2>1 DEF Held, Fed
<1>8. QED
  BY <1>2, <1>3, <1>4, <1>5, <1>6, <1>7 DEF WriterRuns

\* The encoder adds items only when it opens an output or sends a packet.
LEMMA EncoderMoves ==
    ASSUME Typed, Setup, NoReuse, NEW c \in Clients,
           Encoder \/ CloneFails \/ (\E d \in Clients : AcceptClient(d)),
           ~(c = cur /\ (OpenOutput \/ SendPacket))
    PROVE  /\ Held(c)' = Held(c)
           /\ Fed(c)' => Fed(c) /\ Whole(c)' = Whole(c)
<1>1. /\ wpc \in [Clients -> WriterStates] /\ pipe \in [Clients -> Seq(Items)]
      /\ buf \in [Clients -> Seq(Packets)] /\ hpc \in [Clients -> HandlerStates]
      /\ output \in [Clients -> BOOLEAN]
      /\ epc \in LoopStates => cur \in Clients
  BY LoopFacts DEF Typed, TypeOK
<1>2. ASSUME sent'[c] = sent[c], chunk'[c] = chunk[c], pipe'[c] = pipe[c], hand'[c] = hand[c]
      PROVE  /\ Held(c)' = Held(c)
             /\ buf'[c] = buf[c] /\ frag'[c] = frag[c] => Whole(c)' = Whole(c)
  <2>1. Held(c)' = Held(c)
    BY <1>2, Zenon DEF Held
  <2>2. QED
    BY <1>2, <2>1, Zenon DEF Whole
<1>3. CASE \/ StartRound \/ OpenInput \/ OpenInputFails \/ ReadVideo \/ ReadOther \/ ReadFails
           \/ LockInput \/ LockClient \/ OutputIsOpen \/ OpenOutputFails \/ CloneFails \/ TooSlow
           \/ FinishRound \/ DestroyInput \/ LockToClean \/ CloseOutPipe \/ CloseChan \/ DropChan
  <2>1. UNCHANGED <<sent, chunk, pipe, hand, buf, frag, output, hpc, wpc>>
    BY <1>3 DEF StartRound, OpenInput, OpenInputFails, ReadVideo, ReadOther, ReadFails, LockInput,
       LockClient, OutputIsOpen, OpenOutputFails, CloneFails, TooSlow, FinishRound, DestroyInput,
       LockToClean, CloseOutPipe, CloseChan, DropChan, others, clientVars, writerVars, handlerVars
  <2>2. QED
    BY <1>2, <2>1 DEF Fed
<1>4. CASE OpenOutput
  <2>1. c # cur
    BY <1>4
  <2>2. UNCHANGED <<sent, chunk, hand, buf, frag, hpc>>
    BY <1>4 DEF OpenOutput
  <2>3. cur \in Clients
    BY <1>1, <1>4 DEF OpenOutput, LoopStates
  <2>4. pipe'[c] = pipe[c] /\ output'[c] = output[c] /\ wpc'[c] = wpc[c]
    BY <1>1, <1>4, <2>1, <2>3 DEF OpenOutput
  <2>5. QED
    BY <1>2, <2>2, <2>4 DEF Fed
<1>5. CASE SendPacket
  <2>1. c # cur /\ UNCHANGED <<sent, chunk, pipe, hand, frag, hpc, wpc, output>>
    BY <1>5 DEF SendPacket, handlerVars, writerVars
  <2>2. buf'[c] = buf[c]
    BY <1>1, <1>5, <2>1 DEF SendPacket
  <2>3. QED
    BY <1>2, <2>1, <2>2 DEF Fed
<1>6. CASE DestroyOutput
  <2>1. UNCHANGED <<sent, chunk, pipe, hand, buf, hpc, wpc>>
    BY <1>6 DEF DestroyOutput, NoReuse, writerVars
  <2>2. output'[c] => output[c] /\ frag'[c] = frag[c]
    <3>1. frag \in [Clients -> Seq(Packets)] /\ cur \in Clients
      BY <1>1, <1>6 DEF DestroyOutput, LoopStates, Typed, TypeOK
    <3>2. QED
      BY <1>1, <1>6, <3>1 DEF DestroyOutput
  <2>3. QED
    BY <1>2, <2>1, <2>2 DEF Fed
<1>7. CASE DrainPacket
  <2>1. UNCHANGED <<sent, chunk, pipe, hand, frag, output, hpc, wpc>>
    BY <1>7 DEF DrainPacket, handlerVars, writerVars
  <2>2. c # cur => buf'[c] = buf[c]
    BY <1>1, <1>7 DEF DrainPacket
  <2>3. c = cur => ~output[c]
    BY <1>7 DEF DrainPacket, Setup
  <2>4. QED
    BY <1>2, <2>1, <2>2, <2>3 DEF Fed
<1>8. ASSUME NEW d \in Clients, AcceptClient(d)
      PROVE  Held(c)' = Held(c) /\ (Fed(c)' => Fed(c) /\ Whole(c)' = Whole(c))
  <2>1. UNCHANGED <<sent, chunk, pipe, hand, buf, frag, output, wpc>>
    BY <1>8 DEF AcceptClient, clientVars, writerVars
  <2>2. hpc'[c] # "done" => hpc[c] # "done"
    BY <1>1, <1>8 DEF AcceptClient, Senders
  <2>3. QED
    BY <1>2, <2>1, <2>2 DEF Fed
<1>9. QED
  BY <1>3, <1>4, <1>5, <1>6, <1>7, <1>8 DEF Encoder

-----------------------------------------------------------------------------

\* What nobody has opened yet stays empty.
LEMMA UntouchedStep ==
    ASSUME Typed, Inv, Order, Setup, NoReuse, NEW c \in Clients, Untouched(c), CopiesOf(c),
           Chunked(c), [Next]_vars
    PROVE  Untouched(c)'
<1>1. /\ wpc \in [Clients -> WriterStates] /\ pipe \in [Clients -> Seq(Items)]
      /\ buf \in [Clients -> Seq(Packets)] /\ output \in [Clients -> BOOLEAN]
      /\ sent \in [Clients -> Seq(Items)] /\ chunk \in [Clients -> AtMostOne(Items)]
      /\ hand \in [Clients -> AtMostOne(Packets)] /\ frag \in [Clients -> Seq(Packets)]
      /\ epc \in LoopStates => cur \in Clients
  BY LoopFacts DEF Typed, TypeOK
<1>2. CASE \/ StartRound \/ OpenInput \/ OpenInputFails \/ ReadVideo \/ ReadOther \/ ReadFails
           \/ LockInput \/ LockClient \/ OutputIsOpen \/ OpenOutputFails \/ CloneFails \/ TooSlow
           \/ FinishRound \/ DestroyInput \/ LockToClean \/ CloseOutPipe \/ CloseChan \/ DropChan
           \/ UNCHANGED vars
  <2>1. UNCHANGED <<sent, chunk, pipe, hand, buf, frag, output, wpc>>
    BY <1>2 DEF StartRound, OpenInput, OpenInputFails, ReadVideo, ReadOther, ReadFails, LockInput,
       LockClient, OutputIsOpen, OpenOutputFails, CloneFails, TooSlow, FinishRound, DestroyInput,
       LockToClean, CloseOutPipe, CloseChan, DropChan, vars, others, clientVars, writerVars,
       handlerVars
  <2>2. QED
    BY <2>1 DEF Untouched
<1>3. CASE OpenOutput
  BY <1>1, <1>3 DEF OpenOutput, Untouched, LoopStates
<1>4. CASE SendPacket
  <2>1. output[cur] /\ cur \in Clients /\ UNCHANGED <<output, sent, chunk, pipe, hand, frag, wpc>>
    BY <1>1, <1>4 DEF SendPacket, Setup, LoopStates, writerVars, handlerVars
  <2>2. c # cur => buf'[c] = buf[c]
    BY <1>1, <1>4, <2>1 DEF SendPacket
  <2>3. QED
    BY <2>1, <2>2 DEF Untouched
<1>5. CASE DestroyOutput
  <2>1. /\ UNCHANGED <<sent, chunk, pipe, hand, buf, wpc>> /\ (output'[c] => output[c])
        /\ (frag'[c] = frag[c] \/ frag'[c] = <<>>)
    BY <1>1, <1>5 DEF DestroyOutput, NoReuse, writerVars
  <2>2. QED
    BY <2>1 DEF Untouched
<1>6. CASE DrainPacket
  <2>1. UNCHANGED <<sent, chunk, pipe, hand, frag, wpc, output>>
    BY <1>6 DEF DrainPacket, writerVars, handlerVars
  <2>2. buf'[c] = buf[c] \/ buf[c] # <<>>
    BY <1>1, <1>6 DEF DrainPacket
  <2>3. QED
    BY <2>1, <2>2 DEF Untouched
<1>7. ASSUME NEW d \in Clients, AcceptClient(d) PROVE Untouched(c)'
  <2>1. UNCHANGED <<sent, chunk, pipe, hand, buf, frag, wpc, output>>
    BY <1>7 DEF AcceptClient, clientVars, writerVars
  <2>2. QED
    BY <2>1 DEF Untouched
<1>8. ASSUME NEW d \in Clients, Handler(d) PROVE Untouched(c)'
  <2>1. UNCHANGED <<hand, buf, frag, wpc, output>>
    BY <1>8 DEF Handler, Serves, Request, RequestFails, Read, ReadEOF, ReadFailed,
       Forward, HangUp, clientVars, writerVars
  <2>2. \/ pipe'[c] = pipe[c] /\ sent'[c] = sent[c] /\ chunk'[c] = chunk[c]
        \/ pipe[c] # <<>> \/ chunk[c] # <<>>
        \/ pipe'[c] = <<>> /\ sent'[c] = sent[c] /\ chunk'[c] = chunk[c]
    BY <1>1, <1>8 DEF Handler, Serves, Request, RequestFails, Read, ReadEOF, ReadFailed, Forward,
       HangUp, Chunked
  <2>3. QED
    BY <2>1, <2>2 DEF Untouched
<1>9. ASSUME NEW d \in Clients, WriterRuns(d) \/ MuxerRejects(d) PROVE Untouched(c)'
  <2>1. wpc'[c] # "none" \/ (/\ wpc'[c] = wpc[c] /\ pipe'[c] = pipe[c]
                             /\ hand'[c] = hand[c] /\ buf'[c] = buf[c]
                             /\ frag'[c] = frag[c])
    BY <1>1, <1>9 DEF WriterRuns, StartWriter, ReceivePacket, ChannelClosed, RLockClient,
       RLockInput, WriteRefused, WritePacket, EndFragment, WriteFragment, WriteBroken,
       MuxerRejects, WriteReturns, handlerVars, clientVars
  <2>2. UNCHANGED <<sent, chunk, output>>
    BY <1>9 DEF WriterRuns, StartWriter, ReceivePacket, ChannelClosed, RLockClient, RLockInput,
       WriteRefused, WritePacket, EndFragment, WriteFragment, WriteBroken, MuxerRejects,
       WriteReturns, handlerVars, clientVars
  <2>3. QED
    BY <2>1, <2>2 DEF Untouched
<1>10. QED
  BY <1>2, <1>3, <1>4, <1>5, <1>6, <1>7, <1>8, <1>9 DEF Next, Encoder

\* A chunk is only in the hand of a handler that was given one.
LEMMA ChunkedStep ==
    ASSUME Typed, Inv, NEW c \in Clients, Untouched(c), Chunked(c), [Next]_vars
    PROVE  Chunked(c)'
<1>1. /\ hpc \in [Clients -> HandlerStates] /\ chunk \in [Clients -> AtMostOne(Items)]
  BY DEF Typed, TypeOK
<1>2. CASE Encoder \/ CloneFails \/ UNCHANGED vars
  <2>1. UNCHANGED <<hpc, chunk>>
    BY <1>2 DEF Encoder, StartRound, OpenInput, OpenInputFails, ReadVideo, ReadOther, ReadFails,
       LockInput, LockClient, OutputIsOpen, OpenOutput, OpenOutputFails, SendPacket, CloneFails,
       TooSlow, FinishRound, DestroyInput, LockToClean, CloseOutPipe, DestroyOutput, CloseChan,
       DrainPacket, DropChan, vars, others, handlerVars
  <2>2. QED
    BY <2>1 DEF Chunked
<1>3. ASSUME NEW d \in Clients, AcceptClient(d) PROVE Chunked(c)'
  <2>1. UNCHANGED chunk /\ (c = d => hpc[c] = "sending") /\ (c # d => hpc'[c] = hpc[c])
        /\ (c = d => hpc'[c] = "reading")
    BY <1>1, <1>3 DEF AcceptClient, Senders
  <2>2. hpc[c] = "sending" => chunk[c] = <<>>
    BY DEF Inv, Admission, Untouched
  <2>3. QED
    BY <2>1, <2>2 DEF Chunked
<1>4. ASSUME NEW d \in Clients, Handler(d) PROVE Chunked(c)'
  <2>1. CASE c # d \/ Request(d) \/ RequestFails(d) \/ ReadEOF(d) \/ ReadFailed(d)
              \/ HangUp(d)
    <3>1. \/ hpc'[c] = hpc[c] /\ chunk'[c] = chunk[c]
          \/ hpc'[c] \in {"sending", "refused", "done"}
      BY <1>1, <1>4, <2>1 DEF Handler, Serves, Request, RequestFails, Read, ReadEOF, ReadFailed,
         Forward, HangUp
    <3>2. QED
      BY <3>1 DEF Chunked
  <2>2. CASE c = d /\ Read(d)
    <3>1. hpc'[c] = "writing" /\ chunk'[c] = <<Head(pipe[c])>>
      BY <1>1, <2>2 DEF Read
    <3>2. QED
      BY <3>1 DEF Chunked
  <2>3. CASE c = d /\ Forward(d)
    BY <1>1, <2>3 DEF Forward, Chunked
  <2>4. QED
    BY <1>4, <2>1, <2>2, <2>3 DEF Handler, Serves
<1>5. ASSUME NEW d \in Clients, WriterRuns(d) \/ MuxerRejects(d) PROVE Chunked(c)'
  <2>1. UNCHANGED <<hpc, chunk>>
    BY <1>5 DEF WriterRuns, StartWriter, ReceivePacket, ChannelClosed, RLockClient, RLockInput,
       WriteRefused, WritePacket, EndFragment, WriteFragment, WriteBroken, MuxerRejects,
       handlerVars
  <2>2. QED
    BY <2>1 DEF Chunked
<1>6. QED
  BY <1>2, <1>3, <1>4, <1>5 DEF Next

\* The client at the head of the loop is being dropped.
Leaving(c) == epc \in {"destroy", "close", "drain"} /\ c = cur

\* The clients the encoder works for stay the same, save for one that was just
\* received; and so does whose turn it is yet to come.
Goes(c) ==
    ~quitting' /\ c \in Listed' =>
        /\ ~quitting /\ c \in Listed
        /\ Leaving(c) => Leaving(c)'
        /\ \/ SendPacket /\ c = cur
           \/ /\ Due(c)' = Due(c)
              /\ epc \in LoopStates /\ c = cur => epc' \in LoopStates /\ c = cur'

\* Every step is like that, save the arrival of a client.
LEMMA GoesStep ==
    ASSUME Typed, Inv, Order, [Next]_vars, NEW c \in Clients, ~AcceptClient(c)
    PROVE  Goes(c)
<1> USE LoopFacts, RoundFacts DEF Goes, Due, Leaving, Listed, LoopStates
<1>0. packet \in Int
  BY DEF Typed, TypeOK
<1>1. CASE \/ StartRound \/ OpenInput \/ ReadOther \/ ReadFails \/ LockInput
  BY <1>1 DEF StartRound, OpenInput, ReadOther, ReadFails, LockInput, loopVars, others, inputVars,
     cur
<1>2. CASE OpenInputFails
  BY <1>2 DEF OpenInputFails
<1>3. CASE ReadVideo
  BY <1>0, <1>3 DEF ReadVideo
<1>4. CASE LockClient \/ OutputIsOpen \/ OpenOutput \/ OpenOutputFails \/ CloneFails \/ TooSlow
           \/ LockToClean \/ CloseOutPipe \/ DestroyOutput \/ DrainPacket
  <2>1. /\ epc \in LoopStates /\ epc' \in LoopStates
        /\ UNCHANGED <<clients, todo, kept, quitting, packet>>
        /\ epc \in {"destroy", "close", "drain"} => epc' \in {"destroy", "close", "drain"}
    BY <1>4 DEF LockClient, OutputIsOpen, OpenOutput, OpenOutputFails, CloneFails, TooSlow,
       LockToClean, CloseOutPipe, DestroyOutput, DrainPacket, encoderVars, loopVars, others,
       inputVars
  <2>2. QED
    BY <2>1 DEF cur
<1>5. CASE SendPacket
  <2>1. /\ epc = "send" /\ ~quitting /\ kept' = Append(kept, cur) /\ todo' = Tail(todo)
        /\ epc' = IF Tail(todo) # <<>> THEN "lock" ELSE "unref"
        /\ UNCHANGED <<quitting, packet>>
    BY <1>5 DEF SendPacket, NextClient, inputVars, Typed, Control
  <2>2. /\ Range(kept') = Range(kept) \cup {cur} /\ Range(todo) = {cur} \cup Range(todo')
        /\ epc' = "unref" => Range(todo') = {}
    BY <2>1
  <2>3. c \in Listed' => c \in Listed
    BY <2>1, <2>2
  <2>4. c # cur => Due(c)' = Due(c)
    BY <2>1, <2>2
  <2>5. QED
    BY <1>5, <2>1, <2>3, <2>4
<1>6. CASE FinishRound
  BY <1>6 DEF FinishRound, others, inputVars, Inv, Listing
<1>7. CASE DestroyInput
  BY <1>7 DEF DestroyInput, Inv, Listing
<1>8. CASE CloseChan \/ DropChan
  <2>1. /\ epc \in {"close", "drain"} /\ UNCHANGED <<clients, kept, quitting, packet>>
        /\ cur \notin Range(Tail(todo)) /\ (~quitting => cur \notin Range(kept))
    BY <1>8 DEF CloseChan, DropChan, inputVars, Order
  <2>2. CASE UNCHANGED todo /\ epc' = "drain"
    BY <2>1, <2>2 DEF cur
  <2>3. CASE NextClient
    <3>1. /\ todo' = Tail(todo)
          /\ ~quitting => epc' = IF Tail(todo) # <<>> THEN "lock" ELSE "unref"
      BY <2>3 DEF NextClient
    <3>2. ~quitting' /\ c \in Listed' => c \in Listed /\ c # cur
      BY <2>1, <3>1
    <3>3. ~quitting' /\ c \in Listed' => Due(c)' = Due(c)
      BY <2>1, <3>1, <3>2
    <3>4. QED
      BY <2>1, <3>2, <3>3
  <2>4. QED
    BY <1>8, <2>2, <2>3 DEF CloseChan, DropChan
<1>9. ASSUME NEW d \in Clients, AcceptClient(d) PROVE Goes(c)
  BY <1>9 DEF AcceptClient, inputVars
<1>10. ASSUME NEW d \in Clients, Handler(d) \/ WriterRuns(d) \/ MuxerRejects(d) PROVE Goes(c)
  <2>1. UNCHANGED <<epc, clients, todo, kept, quitting>>
    BY <1>10, HandlerFrame, WriterFrame
  <2>2. UNCHANGED packet
    BY <1>10 DEF Handler, Serves, Request, RequestFails, Read, ReadEOF, ReadFailed,
       Forward, HangUp, WriterRuns, StartWriter, ReceivePacket, ChannelClosed, RLockClient, RLockInput,
       WriteRefused, WritePacket, EndFragment, WriteFragment, WriteBroken, MuxerRejects,
       WriteReturns, inputVars
  <2>3. QED
    BY <2>1, <2>2 DEF cur
<1>11. CASE UNCHANGED vars
  BY <1>11 DEF vars, encoderVars, loopVars, others, inputVars, cur
<1>12. QED
  BY <1>1, <1>2, <1>3, <1>4, <1>5, <1>6, <1>7, <1>8, <1>9, <1>10, <1>11 DEF Next, Encoder

\* What a step does to the handler of c, its pipe and its packetWriter.
LEMMA ClientFrame ==
    ASSUME Typed, [Next]_vars, NEW c \in Clients, ~AcceptClient(c)
    PROVE  /\ hpc'[c] = hpc[c] \/ Handler(c)
           /\ outPipe'[c] = outPipe[c] \/ Request(c) \/ (CloseOutPipe /\ c = cur)
           /\ wpc'[c] = "none" => wpc[c] = "none"
<1>1. /\ hpc \in [Clients -> HandlerStates] /\ outPipe \in [Clients -> BOOLEAN]
      /\ wpc \in [Clients -> WriterStates]
      /\ epc \in LoopStates => cur \in Clients
  BY LoopFacts DEF Typed, TypeOK
<1>2. CASE \/ StartRound \/ OpenInput \/ OpenInputFails \/ ReadVideo \/ ReadOther \/ ReadFails
           \/ LockInput \/ LockClient \/ OutputIsOpen \/ OpenOutputFails \/ SendPacket
           \/ CloneFails \/ TooSlow \/ FinishRound \/ DestroyInput \/ LockToClean
           \/ DestroyOutput \/ CloseChan \/ DrainPacket \/ DropChan \/ UNCHANGED vars
  <2>1. UNCHANGED <<hpc, outPipe, wpc>>
    BY <1>2 DEF StartRound, OpenInput, OpenInputFails, ReadVideo, ReadOther, ReadFails, LockInput,
       LockClient, OutputIsOpen, OpenOutputFails, SendPacket, CloneFails, TooSlow, FinishRound,
       DestroyInput, LockToClean, DestroyOutput, CloseChan, DrainPacket, DropChan, vars, others,
       clientVars, writerVars, handlerVars
  <2>2. QED
    BY <2>1
<1>3. CASE OpenOutput
  BY <1>1, <1>3 DEF OpenOutput, LoopStates
<1>4. CASE CloseOutPipe
  BY <1>1, <1>4 DEF CloseOutPipe, LoopStates, handlerVars, writerVars
<1>5. ASSUME NEW d \in Clients, AcceptClient(d)
      PROVE  hpc'[c] = hpc[c] /\ outPipe'[c] = outPipe[c] /\ wpc'[c] = wpc[c]
  <2>1. c # d
    BY <1>5
  <2>2. QED
    BY <1>1, <1>5, <2>1 DEF AcceptClient, clientVars, writerVars
<1>6. ASSUME NEW d \in Clients, Handler(d), d # c
      PROVE  hpc'[c] = hpc[c] /\ outPipe'[c] = outPipe[c] /\ wpc'[c] = wpc[c]
  BY <1>1, <1>6 DEF Handler, Serves, Request, RequestFails, Read, ReadEOF, ReadFailed,
     Forward, HangUp, clientVars, writerVars
<1>7. CASE Handler(c)
  <2>1. UNCHANGED wpc /\ (Request(c) \/ UNCHANGED outPipe)
    BY <1>7 DEF Handler, Serves, Request, RequestFails, Read, ReadEOF, ReadFailed,
       Forward, HangUp, clientVars, writerVars
  <2>2. QED
    BY <1>7, <2>1
<1>8. ASSUME NEW d \in Clients, WriterRuns(d) \/ MuxerRejects(d)
      PROVE  UNCHANGED <<hpc, outPipe>> /\ (wpc'[c] = "none" => wpc[c] = "none")
  <2>1. wpc'[c] # "none" \/ wpc'[c] = wpc[c]
    BY <1>1, <1>8 DEF WriterRuns, StartWriter, ReceivePacket, ChannelClosed, RLockClient,
       RLockInput, WriteRefused, WritePacket, EndFragment, WriteFragment, WriteBroken,
       MuxerRejects, WriteReturns
  <2>2. QED
    BY <1>8, <2>1, WriterFrame
<1>9. QED
  BY <1>2, <1>3, <1>4, <1>5, <1>6, <1>7, <1>8 DEF Next, Encoder

\* Who waits for a first item has been given none.
LEMMA WaitsStep ==
    ASSUME Typed, Inv, Order, Setup, NEW c \in Clients, Untouched(c), Waits(c), [Next]_vars
    PROVE  Waits(c)'
<1>1. /\ hpc \in [Clients -> HandlerStates] /\ outPipe \in [Clients -> BOOLEAN]
      /\ epc \in LoopStates => cur \in Clients /\ cur \in Range(todo)
  BY LoopFacts DEF Typed, TypeOK
<1>2. CASE AcceptClient(c)
  BY <1>1, <1>2 DEF AcceptClient, Senders, Waits, clientVars
<1>3. CASE ~AcceptClient(c)
  <2>1. hpc[c] \in {"idle", "sending"} => c \notin Listed /\ c \notin Range(todo)
    BY DEF Inv, Admission, Listed
  <2> DEFINE Patient == ~quitting /\ c \in Listed /\ wpc[c] = "none" /\ ~Leaving(c)
  <2>2. Patient => hpc[c] \in {"reading", "done"} /\ outPipe[c] /\ pipe[c] = <<>>
    BY DEF Waits, Leaving, Untouched
  <2>3. Patient' => Patient
    BY <1>3, GoesStep, ClientFrame DEF Goes
  <2>4. CloseOutPipe /\ c = cur => Leaving(c)' /\ hpc[c] # "sending" /\ UNCHANGED hpc
    BY <1>1, <2>1 DEF CloseOutPipe, Leaving, cur, loopVars, handlerVars, LoopStates
  <2>5. ASSUME Patient' PROVE hpc'[c] \in {"reading", "done"} /\ outPipe'[c]
    <3>1. hpc[c] \in {"reading", "done"} /\ outPipe[c] /\ pipe[c] = <<>>
      BY <2>2, <2>3, <2>5
    <3>2. Handler(c) => hpc'[c] = "done" /\ ~Request(c)
      BY <1>1, <3>1 DEF Handler, Serves, Request, RequestFails, Read, ReadEOF, ReadFailed, Forward,
         HangUp
    <3>3. ~Request(c) /\ ~(CloseOutPipe /\ c = cur)
      BY <2>4, <2>5, <3>2 DEF Handler, Serves
    <3>4. QED
      BY <1>3, <3>1, <3>2, <3>3, ClientFrame
  <2>6. ASSUME hpc'[c] = "sending" PROVE outPipe'[c]
    <3>1. CASE Handler(c)
      BY <1>1, <2>6, <3>1 DEF Handler, Serves, Request, RequestFails, Read, ReadEOF, ReadFailed,
         Forward, HangUp
    <3>2. CASE ~Handler(c)
      <4>1. hpc[c] = "sending" /\ outPipe[c]
        BY <1>3, <2>6, <3>2, ClientFrame DEF Waits
      <4>2. ~Request(c) /\ ~(CloseOutPipe /\ c = cur)
        BY <2>4, <3>2, <4>1 DEF Handler
      <4>3. QED
        BY <1>3, <4>1, <4>2, ClientFrame
    <3>3. QED
      BY <3>1, <3>2
  <2>7. QED
    BY <2>5, <2>6 DEF Waits, Leaving
<1>4. QED
  BY <1>2, <1>3

\* Packets are only counted up.
LEMMA PacketGrows ==
    ASSUME Typed, [Next]_vars
    PROVE  packet \in Nat /\ packet' \in Nat /\ packet <= packet'
<1>1. packet \in Nat
  BY DEF Typed, TypeOK
<1>2. CASE ReadVideo
  BY <1>1, <1>2 DEF ReadVideo
<1>3. CASE (Encoder \/ CloneFails \/ UNCHANGED vars) /\ ~ReadVideo
  BY <1>1, <1>3 DEF Encoder, StartRound, OpenInput, OpenInputFails, ReadOther, ReadFails,
     LockInput, LockClient, OutputIsOpen, OpenOutput, OpenOutputFails, SendPacket, CloneFails,
     TooSlow, FinishRound, DestroyInput, LockToClean, CloseOutPipe, DestroyOutput, CloseChan,
     DrainPacket, DropChan, vars, others, inputVars
<1>4. ASSUME NEW d \in Clients, AcceptClient(d) \/ Handler(d) \/ WriterRuns(d) \/ MuxerRejects(d)
      PROVE  UNCHANGED packet
  BY <1>4 DEF AcceptClient, Handler, Serves, Request, RequestFails, Read, ReadEOF, ReadFailed,
     Forward, HangUp, WriterRuns, StartWriter, ReceivePacket, ChannelClosed, RLockClient, RLockInput,
     WriteRefused, WritePacket, EndFragment, WriteFragment, WriteBroken, MuxerRejects,
     WriteReturns, inputVars
<1>5. QED
  BY <1>1, <1>2, <1>3, <1>4 DEF Next

\* Opening the output of the client at the head of the loop writes a header to
\* its pipe, which is empty.
LEMMA OpenMoves ==
    ASSUME Typed, Setup, NEW c \in Clients, c = cur, OpenOutput, Untouched(c)
    PROVE  packet > 0 /\ Held(c)' = <<Header>> /\ Whole(c)' = <<Header>>
<1>1. /\ epc = "lockwait" /\ ~quitting /\ packet > 0 /\ c \in Listed
      /\ pipe \in [Clients -> Seq(Items)]
  BY LoopFacts DEF OpenOutput, Typed, TypeOK, Control, LoopStates, Listed
<1>2. wpc[c] = "none"
  BY <1>1 DEF OpenOutput, Setup
<1>3. /\ sent[c] = <<>> /\ chunk[c] = <<>> /\ pipe[c] = <<>> /\ hand[c] = <<>>
      /\ buf[c] = <<>> /\ frag[c] = <<>>
  BY <1>2 DEF Untouched
<1>4. UNCHANGED <<sent, chunk, hand, buf, frag>>
  BY DEF OpenOutput
<1>5. pipe'[c] = <<Header>>
  BY <1>1, <1>3 DEF OpenOutput
<1>6. \A s : s = <<Header>> => /\ <<>> \o s = s /\ s \o ((<<>> \o <<>>) \o <<>>) = s
                               /\ s \in Seq(Items)
  BY NoItem DEF Items
<1>7. Held(c)' = <<>> \o (<<>> \o <<Header>>)
  BY <1>3, <1>4, <1>5, Zenon DEF Held
<1>8. Held(c)' = <<Header>>
  BY <1>6, <1>7
<1>9. Whole(c)' = <<Header>> \o ((<<>> \o <<>>) \o <<>>)
  BY <1>3, <1>4, <1>8, Zenon DEF Whole
<1>10. QED
  BY <1>1, <1>6, <1>8, <1>9

\* Sending it a packet adds the packet to what is on its way.
LEMMA SendMoves ==
    ASSUME Typed, Order, Setup, SendPacket
    PROVE  /\ cur \in Clients /\ cur \in Listed /\ ~quitting /\ Due(cur) = packet - 1
           /\ packet > 0 /\ packet \in Items
           /\ \A c \in Clients : c = cur =>
                /\ Held(c)' = Held(c) /\ Whole(c)' = Append(Whole(c), packet)
                /\ Fed(c)' = Fed(c)
<1>1. /\ epc = "send" /\ ~quitting /\ packet > 0 /\ cur \in Clients /\ cur \in Listed
      /\ cur \in Range(todo)
  BY LoopFacts DEF SendPacket, Typed, Control, LoopStates, Listed
<1>2. packet \in Items
  BY <1>1 DEF Typed, TypeOK, Items, Packets
<1>3. ASSUME NEW c \in Clients, c = cur
      PROVE  /\ Held(c)' = Held(c) /\ Whole(c)' = Append(Whole(c), packet)
             /\ Fed(c)' = Fed(c)
  <2>1. UNCHANGED <<sent, chunk, pipe, hand, frag, hpc, wpc, output>>
    BY DEF SendPacket, handlerVars, writerVars
  <2>2. buf'[c] = Append(buf[c], packet)
    BY <1>1, <1>3 DEF SendPacket, Typed, TypeOK
  <2> DEFINE Coming == frag[c] \o hand[c]
  <2>3. /\ Held(c) \in Seq(Items) /\ Coming \in Seq(Items) /\ buf[c] \in Seq(Items)
        /\ <<packet>> \in Seq(Items)
    BY <1>2, PartTypes, ConcatProperties
  <2>4. /\ Coming \o buf[c] \in Seq(Items) /\ Whole(c) \in Seq(Items)
    BY <2>3, PartTypes, ConcatProperties
  <2>5. buf'[c] = buf[c] \o <<packet>> /\ Append(Whole(c), packet) = Whole(c) \o <<packet>>
    BY <1>2, <2>2, <2>3, <2>4, AppendIsConcat
  <2> HIDE DEF Coming
  <2>6. Coming \o (buf[c] \o <<packet>>) = (Coming \o buf[c]) \o <<packet>>
    BY <2>3, Regroup
  <2>7. Held(c) \o ((Coming \o buf[c]) \o <<packet>>) = Whole(c) \o <<packet>>
    <3>1. Held(c) \o ((Coming \o buf[c]) \o <<packet>>)
          = (Held(c) \o (Coming \o buf[c])) \o <<packet>>
      BY <2>3, <2>4, Regroup, Zenon
    <3>2. QED
      BY <3>1, Zenon DEF Whole, Coming
  <2>8. Held(c)' = Held(c)
    BY <2>1, Zenon DEF Held
  <2>9. Whole(c)' = Append(Whole(c), packet)
    BY <2>1, <2>5, <2>6, <2>7, <2>8, Zenon DEF Whole, Coming
  <2>10. QED
    BY <2>1, <2>8, <2>9 DEF Fed
<1>4. QED
  BY <1>1, <1>2, <1>3 DEF Due, LoopStates

\* What is on its way to a viewer after a step.
Onward(c) ==
    \/ /\ \/ Held(c)' = Held(c)
          \/ Held(c)' = sent[c]
          \/ Held(c)' = Held(c) \o frag[c] /\ Fed(c)
       /\ Fed(c)' => Fed(c) /\ Whole(c)' = Whole(c)
    \/ c = cur /\ (OpenOutput \/ SendPacket)

\* Every step leaves what is on its way, moves it on, or adds to it.
LEMMA OnwardStep ==
    ASSUME Typed, Inv, Setup, NoReuse, NEW c \in Clients, CopiesOf(c), Chunked(c), [Next]_vars
    PROVE  Onward(c)
<1>1. CASE Encoder \/ CloneFails \/ (\E d \in Clients : AcceptClient(d))
  BY <1>1, EncoderMoves DEF Onward
<1>2. ASSUME NEW d \in Clients, Handler(d) PROVE Onward(c)
  <2>1. UNCHANGED <<output, wpc>>
    BY <1>2, HandlerFrame
  <2>2. /\ Held(c)' = Held(c) \/ Held(c)' = sent[c]
        /\ Fed(c)' => Whole(c)' = Whole(c)
        /\ hpc[c] = "done" => hpc'[c] = "done"
    BY <1>2, HandlerMoves
  <2>3. Fed(c)' => Fed(c)
    BY <2>1, <2>2 DEF Fed
  <2>4. QED
    BY <2>2, <2>3 DEF Onward
<1>3. ASSUME NEW d \in Clients, WriterRuns(d) \/ MuxerRejects(d) PROVE Onward(c)
  <2>1. /\ \/ Held(c)' = Held(c)
           \/ /\ Held(c)' = Held(c) \o frag[c]
              /\ hpc[c] # "done" /\ output[c] /\ wpc[c] = "flush"
        /\ Fed(c)' => Fed(c) /\ Whole(c)' = Whole(c)
    BY <1>3, WriterMoves DEF Inv
  <2>2. hpc[c] # "done" /\ output[c] /\ wpc[c] = "flush" => Fed(c)
    BY DEF Fed
  <2>3. QED
    BY <2>1, <2>2 DEF Onward
<1>4. CASE UNCHANGED vars
  <2>1. UNCHANGED <<sent, chunk, pipe, frag, hand, buf, output, hpc, wpc>>
    BY <1>4 DEF vars, others, clientVars, writerVars, handlerVars
  <2>2. Held(c)' = Held(c)
    BY <2>1, Zenon DEF Held
  <2>3. Whole(c)' = Whole(c)
    BY <2>1, <2>2, Zenon DEF Whole
  <2>4. Fed(c)' => Fed(c)
    BY <2>1 DEF Fed
  <2>5. QED
    BY <2>2, <2>3, <2>4 DEF Onward
<1>5. QED
  BY <1>1, <1>2, <1>3, <1>4 DEF Next

\* A viewer's stream stays a header and consecutive packets.
LEMMA FlowStep ==
    ASSUME Typed, Typed', Inv, Setup, NoReuse, NEW c \in Clients, CopiesOf(c), Untouched(c),
           Chunked(c), Flow(c), UpTo(c), Order, [Next]_vars
    PROVE  Flow(c)'
<1>1. /\ packet \in Nat /\ packet' \in Nat /\ packet <= packet'
  BY PacketGrows
<1>2. /\ sent[c] \in Seq(Items) /\ chunk[c] \in Seq(Items) /\ pipe[c] \in Seq(Items)
      /\ frag[c] \in Seq(Items) /\ hand[c] \in Seq(Items) /\ buf[c] \in Seq(Items)
      /\ Held(c) \in Seq(Items) /\ Whole(c) \in Seq(Items)
  BY PartTypes
<1>3. CASE c = cur /\ OpenOutput
  <2>1. packet > 0 /\ Held(c)' = <<Header>> /\ Whole(c)' = <<Header>> /\ packet' = packet
    BY <1>3, OpenMoves DEF OpenOutput, inputVars
  <2>2. IsStream(<<Header>>, packet)
    BY <1>1, <2>1 DEF IsStream
  <2>3. QED
    BY <2>1, <2>2 DEF Flow
<1>4. CASE c = cur /\ SendPacket
  <2>1. /\ Held(c)' = Held(c) /\ Whole(c)' = Append(Whole(c), packet) /\ Fed(c)' = Fed(c)
        /\ cur \in Listed /\ ~quitting /\ Due(c) = packet - 1 /\ packet > 0 /\ packet \in Items
    BY <1>4, SendMoves
  <2>2. packet' = packet
    BY <1>4 DEF SendPacket, inputVars
  <2>3. ASSUME Fed(c) PROVE IsStream(Append(Whole(c), packet), packet)
    <3>1. \/ Len(Whole(c)) > 1 /\ Whole(c)[Len(Whole(c))] = packet - 1
          \/ Len(Whole(c)) = 1
      BY <1>4, <2>1, <2>3 DEF UpTo
    <3>2. IsStream(Whole(c), packet)
      BY <2>3 DEF Flow
    <3>3. /\ packet \in 1..packet /\ Whole(c) # <<>>
          /\ Len(Whole(c)) > 1 => packet = Whole(c)[Len(Whole(c))] + 1
      BY <1>1, <1>2, <2>1, <3>1
    <3>4. QED
      BY <1>1, <1>2, <2>1, <3>2, <3>3, StreamAppend
  <2>4. QED
    BY <2>1, <2>2, <2>3 DEF Flow
<1>5. CASE ~(c = cur /\ (OpenOutput \/ SendPacket))
  <2>1. /\ \/ Held(c)' = Held(c)
           \/ Held(c)' = sent[c]
           \/ Held(c)' = Held(c) \o frag[c] /\ Fed(c)
        /\ Fed(c)' => Fed(c) /\ Whole(c)' = Whole(c)
    BY <1>5, OnwardStep DEF Onward
  <2>2. IsStream(sent[c], packet)
    <3>1. chunk[c] \o pipe[c] \in Seq(Items)
      BY <1>2, ConcatProperties
    <3>2. IsStream(sent[c] \o (chunk[c] \o pipe[c]), packet)
      BY DEF Flow, Held
    <3>3. QED
      BY <1>1, <1>2, <3>1, <3>2, StreamPrefix
  <2>3. ASSUME Fed(c) PROVE IsStream(Held(c) \o frag[c], packet)
    <3>1. Held(c) \o frag[c] \in Seq(Items) /\ hand[c] \o buf[c] \in Seq(Items)
      BY <1>2, ConcatProperties
    <3>2. Whole(c) = (Held(c) \o frag[c]) \o (hand[c] \o buf[c])
      BY FragmentGroup
    <3>3. IsStream((Held(c) \o frag[c]) \o (hand[c] \o buf[c]), packet)
      BY <2>3, <3>2 DEF Flow
    <3>4. QED
      BY <1>1, <3>1, <3>3, StreamPrefix
  <2>4. IsStream(Held(c)', packet) /\ Held(c)' \in Seq(Items)
    <3>1. Held(c) \o frag[c] \in Seq(Items)
      BY <1>2, ConcatProperties
    <3>2. IsStream(Held(c), packet)
      BY DEF Flow
    <3>3. QED
      BY <1>2, <2>1, <2>2, <2>3, <3>1, <3>2
  <2>5. IsStream(Held(c)', packet')
    BY <1>1, <2>4, StreamGrows
  <2>6. Fed(c)' => IsStream(Whole(c)', packet')
    BY <1>1, <1>2, <2>1, StreamGrows DEF Flow
  <2>7. QED
    BY <2>5, <2>6 DEF Flow
<1>6. QED
  BY <1>3, <1>4, <1>5

\* A client that is served was given every packet since its first.
LEMMA UpToStep ==
    ASSUME Typed, Inv, Setup, NoReuse, NEW c \in Clients, CopiesOf(c), Untouched(c),
           Chunked(c), UpTo(c), Order, [Next]_vars
    PROVE  UpTo(c)'
<1>1. CASE AcceptClient(c)
  <2>1. ~output[c] /\ UNCHANGED output
    BY <1>1 DEF AcceptClient, Senders, Inv, Admission, clientVars
  <2>2. QED
    BY <2>1 DEF UpTo, Fed
<1>2. CASE ~AcceptClient(c) /\ c = cur /\ OpenOutput
  <2>1. Whole(c)' = <<Header>>
    BY <1>2, OpenMoves
  <2>2. epc' \in LoopStates /\ c = cur'
    BY <1>2 DEF OpenOutput, LoopStates, cur, loopVars
  <2>3. QED
    BY <2>1, <2>2 DEF UpTo
<1>3. CASE ~AcceptClient(c) /\ c = cur /\ SendPacket
  <2>1. /\ Whole(c)' = Append(Whole(c), packet) /\ Fed(c)' = Fed(c)
        /\ cur \in Listed /\ ~quitting
    BY <1>3, SendMoves
  <2>2. Whole(c) \in Seq(Items) /\ packet \in Items
    BY <1>3, PartTypes, SendMoves
  <2>3. Fed(c)' => Len(Whole(c)) > 0
    BY <1>3, <2>1 DEF UpTo
  <2>4. Fed(c)' => Len(Whole(c)') > 1 /\ Whole(c)'[Len(Whole(c)')] = packet
    BY <2>1, <2>2, <2>3
  <2>5. Due(c)' = packet
    <3>1. todo' = Tail(todo) /\ packet' = packet /\ epc \in LoopStates
      BY <1>3 DEF SendPacket, NextClient, inputVars, LoopStates
    <3>2. c \notin Range(todo')
      BY <1>3, <3>1, RoundFacts
    <3>3. QED
      BY <3>1, <3>2 DEF Due
  <2>6. QED
    BY <2>4, <2>5 DEF UpTo
<1>4. CASE ~AcceptClient(c) /\ ~(c = cur /\ (OpenOutput \/ SendPacket))
  <2>1. Fed(c)' => Fed(c) /\ Whole(c)' = Whole(c)
    BY <1>4, OnwardStep DEF Onward
  <2>2. ~quitting' /\ c \in Listed' =>
            /\ ~quitting /\ c \in Listed /\ Due(c)' = Due(c)
            /\ epc \in LoopStates /\ c = cur => epc' \in LoopStates /\ c = cur'
    BY <1>4, GoesStep DEF Goes
  <2>3. QED
    BY <2>1, <2>2 DEF UpTo
<1>5. QED
  BY <1>1, <1>2, <1>3, <1>4

-----------------------------------------------------------------------------

\* All of it together is inductive.
LEMMA ServedStep ==
    ASSUME Typed, Typed', Inv, Conserved, Served, [Next]_vars, NoReuse'
    PROVE  Served'
<1>1. ASSUME NEW c \in Clients
      PROVE  Untouched(c)' /\ Waits(c)' /\ Chunked(c)' /\ Flow(c)' /\ UpTo(c)'
  BY <1>1, UntouchedStep, WaitsStep, ChunkedStep, FlowStep, UpToStep DEF Conserved, Served
<1>2. QED
  BY <1>1 DEF Served

\* The invariant of the streams: as long as no descriptor was reused, what a
\* viewer was sent and what is on its way to it, through the pipe, its muxer's
\* fragment, its packetWriter's hand and its channel, is a header and then
\* consecutive packets.
THEOREM StreamsServed == Spec /\ []NoReuse => []Served
<1>1. Init => Served
  <2>1. ASSUME Init, NEW c \in Clients
        PROVE  Untouched(c) /\ Waits(c) /\ Chunked(c) /\ Flow(c) /\ UpTo(c)
    <3>1. /\ sent[c] = <<>> /\ chunk[c] = <<>> /\ pipe[c] = <<>> /\ hand[c] = <<>>
          /\ frag[c] = <<>> /\ buf[c] = <<>> /\ ~output[c] /\ hpc[c] = "idle"
          /\ epc = "top" /\ clients = <<>>
      BY <2>1 DEF Init
    <3>2. Held(c) = <<>>
      BY <3>1, NoItem DEF Held
    <3>3. Len(Held(c)) = 0
      BY <3>2
    <3>4. IsStream(Held(c), packet)
      BY <3>3 DEF IsStream
    <3>5. Listed = {}
      BY <3>1 DEF Listed, Range
    <3>6. QED
      BY <3>1, <3>4, <3>5 DEF Untouched, Waits, Chunked, Flow, UpTo, Fed
  <2>2. QED
    BY <2>1 DEF Served, NoReuse, Init
<1>2. Typed /\ Typed' /\ Inv /\ Conserved /\ Served /\ [Next]_vars /\ NoReuse' => Served'
  BY ServedStep
<1>3. Spec => []Typed
  BY TypeCorrect, PTL DEF Typed
<1>4. QED
  BY <1>1, <1>2, <1>3, SafetyInvariant, ConservedInvariant, PTL DEF Spec

-----------------------------------------------------------------------------

\* The phase of a client is what its handler's state says.
LEMMA PhaseOf ==
    /\ \A h : h = "idle" => Phase(h) = "absent"
    /\ \A h : h = "sending" => Phase(h) = "waiting"
    /\ \A h : h \in {"reading", "writing"} => Phase(h) = "viewing"
    /\ \A h : h = "done" => Phase(h) = "gone"
    /\ \A h : h = "refused" => Phase(h) = "refused"
BY DEF Phase

\* Nobody views yet, in the daemon and in the service.
LEMMA ServiceInit == Init => Service!Init
BY PhaseOf DEF Init, Service!Init

\* A handler that goes from one state to another is a viewer that moves on.
LEMMA PhaseMoves ==
    ASSUME Typed, NEW c \in Clients, NEW to, hpc' = [hpc EXCEPT ![c] = to],
           UNCHANGED <<sent, packet, live>>
    PROVE  Service!Moves(c, Phase(hpc[c]), Phase(to))
<1>1. hpc \in [Clients -> HandlerStates]
  BY DEF Typed, TypeOK
<1>2. [d \in Clients |-> Phase(hpc'[d])] =
          [[d \in Clients |-> Phase(hpc[d])] EXCEPT ![c] = Phase(to)]
  BY <1>1
<1>3. QED
  BY <1>2 DEF Service!Moves

\* Every step of the daemon is a step of the service, or none.
LEMMA ServiceStep ==
    ASSUME Typed, Inv, Conserved, Served, [Next]_vars
    PROVE  [Service!Next]_Service!vars
<1>1. hpc \in [Clients -> HandlerStates] /\ live \subseteq 1..opened /\ opened \in Nat
  BY StreamerAssumption DEF Typed, TypeOK
<1>2. ASSUME UNCHANGED <<hpc, sent, packet>>, (live = {}) = (live' = {})
      PROVE  UNCHANGED Service!vars
  BY <1>2 DEF Service!vars
<1>3. CASE \/ StartRound \/ OpenInputFails \/ ReadOther \/ ReadFails \/ LockInput \/ LockClient
           \/ OutputIsOpen \/ OpenOutput \/ OpenOutputFails \/ SendPacket \/ CloneFails \/ TooSlow
           \/ FinishRound \/ LockToClean \/ CloseOutPipe \/ DestroyOutput \/ CloseChan
           \/ DrainPacket \/ DropChan \/ UNCHANGED vars
  <2>1. UNCHANGED <<hpc, sent, packet, live>>
    BY <1>3 DEF StartRound, OpenInputFails, ReadOther, ReadFails, LockInput, LockClient,
       OutputIsOpen, OpenOutput, OpenOutputFails, SendPacket, CloneFails, TooSlow, FinishRound,
       LockToClean, CloseOutPipe, DestroyOutput, CloseChan, DrainPacket, DropChan, vars, others,
       inputVars, handlerVars
  <2>2. QED
    BY <1>2, <2>1
<1>4. CASE OpenInput
  <2>1. live = {} /\ ~quitting /\ clients # <<>> /\ epc = "input"
    BY <1>1, <1>4 DEF OpenInput, Inv, Connection, Typed, Control
  <2>2. PICK v \in Clients : v \in Listed
    BY <2>1, SeqParts DEF Typed, TypeOK, Listed
  <2>3. ~output[v]
    BY <2>1, <2>2 DEF Inv, WritersFollowInput
  <2>4. wpc[v] = "none"
    BY <2>1, <2>2, <2>3 DEF Conserved, Setup
  <2>5. hpc[v] \in {"reading", "done"} /\ sent[v] = <<>>
    BY <2>1, <2>2, <2>4 DEF Served, Waits, Untouched
  <2>6. live' # {} /\ UNCHANGED <<hpc, sent, packet>>
    BY <1>4 DEF OpenInput, handlerVars
  <2>7. Service!OpenSource
    BY <2>1, <2>5, <2>6, PhaseOf DEF Service!OpenSource
  <2>8. QED
    BY <2>7 DEF Service!Next
<1>5. CASE ReadVideo
  <2>1. live # {}
    BY <1>5 DEF ReadVideo, Inv, Connection, Typed, Control
  <2>2. packet' = packet + 1 /\ packet + 1 \in Packets /\ UNCHANGED <<hpc, sent, live>>
    BY <1>5, StreamerAssumption DEF ReadVideo, handlerVars, Typed, TypeOK, Packets
  <2>3. Service!ReadPacket
    BY <2>1, <2>2 DEF Service!ReadPacket
  <2>4. QED
    BY <2>3 DEF Service!Next
<1>6. CASE DestroyInput
  <2>1. live' = {} /\ UNCHANGED <<hpc, sent, packet>>
    BY <1>6 DEF DestroyInput, Inv, Connection, handlerVars
  <2>2. CASE live = {}
    BY <1>2, <2>1, <2>2
  <2>3. CASE live # {}
    <3>1. Service!CloseSource
      BY <2>1, <2>3 DEF Service!CloseSource
    <3>2. QED
      BY <3>1 DEF Service!Next
  <2>4. QED
    BY <2>2, <2>3
<1>7. ASSUME NEW c \in Clients, AcceptClient(c) PROVE Service!Next
  <2>1. /\ hpc[c] = "sending" /\ hpc' = [hpc EXCEPT ![c] = "reading"]
        /\ UNCHANGED <<sent, packet, live>>
    BY <1>7 DEF AcceptClient, Senders, inputVars
  <2>2. Service!Admit(c)
    BY <2>1, PhaseMoves, PhaseOf DEF Service!Admit
  <2>3. QED
    BY <2>2 DEF Service!Next
<1>8. ASSUME NEW c \in Clients, Handler(c) PROVE Service!Next \/ UNCHANGED Service!vars
  <2>1. UNCHANGED <<packet, live>> /\ (Forward(c) \/ UNCHANGED sent)
    BY <1>8 DEF Handler, Serves, Request, RequestFails, Read, ReadEOF, ReadFailed,
       Forward, HangUp, inputVars
  <2>2. CASE Request(c)
    <3>1. Service!Arrive(c)
      BY <2>1, <2>2, PhaseMoves, PhaseOf DEF Request, Service!Arrive
    <3>2. QED
      BY <3>1 DEF Service!Next
  <2>3. CASE RequestFails(c)
    <3>1. Service!Refuse(c)
      BY <2>1, <2>3, PhaseMoves, PhaseOf DEF RequestFails, Service!Refuse
    <3>2. QED
      BY <3>1 DEF Service!Next
  <2>4. CASE Read(c)
    <3>1. hpc[c] = "reading" /\ hpc' = [hpc EXCEPT ![c] = "writing"] /\ UNCHANGED sent
      BY <2>4 DEF Read
    <3>2. \A d \in Clients : Phase(hpc'[d]) = Phase(hpc[d])
      BY <1>1, <3>1, PhaseOf
    <3>3. QED
      BY <2>1, <3>1, <3>2 DEF Service!vars
  <2>5. CASE ReadEOF(c) \/ ReadFailed(c) \/ HangUp(c)
    <3>1. /\ hpc[c] \in {"reading", "writing"} /\ hpc' = [hpc EXCEPT ![c] = "done"]
          /\ UNCHANGED sent
      BY <2>5 DEF ReadEOF, ReadFailed, HangUp
    <3>2. Service!Leave(c)
      BY <2>1, <3>1, PhaseMoves, PhaseOf DEF Service!Leave
    <3>3. QED
      BY <3>2 DEF Service!Next
  <2>6. CASE Forward(c)
    <3>1. /\ hpc[c] = "writing" /\ hpc' = [hpc EXCEPT ![c] = "reading"]
          /\ sent' = [sent EXCEPT ![c] = @ \o chunk[c]] /\ chunk[c] # <<>>
      BY <2>6 DEF Forward, Served, Chunked
    <3>2. PICK x \in Items : chunk[c] = <<x>>
      BY <3>1 DEF Typed, TypeOK, AtMostOne
    <3>3. sent[c] \in Seq(Items) /\ pipe[c] \in Seq(Items) /\ packet \in Nat
      BY PartTypes DEF Typed, TypeOK
    <3>4. IsStream(Held(c), packet)
      BY DEF Served, Flow
    <3>5. IsStream(sent[c] \o (<<x>> \o pipe[c]), packet)
      BY <3>2, <3>4 DEF Held
    <3>6. packet > 0 /\ x \in Service!Following(sent[c])
      BY <3>3, <3>5, StreamNext DEF Service!Following
    <3>7. sent' = [sent EXCEPT ![c] = Append(@, x)]
      BY <3>1, <3>2, <3>3, AppendIsConcat
    <3>8. \A d \in Clients : Phase(hpc'[d]) = Phase(hpc[d])
      BY <1>1, <3>1, PhaseOf
    <3>9. Phase(hpc[c]) = "viewing"
      BY <3>1, PhaseOf
    <3>10. Service!Deliver(c)
      BY <2>1, <3>6, <3>7, <3>8, <3>9 DEF Service!Deliver
    <3>11. QED
      BY <3>10 DEF Service!Next
  <2>7. QED
    BY <1>8, <2>2, <2>3, <2>4, <2>5, <2>6 DEF Handler, Serves
<1>9. ASSUME NEW c \in Clients, WriterRuns(c) \/ MuxerRejects(c) PROVE UNCHANGED Service!vars
  <2>1. UNCHANGED <<hpc, sent, packet, live>>
    BY <1>9 DEF WriterRuns, StartWriter, ReceivePacket, ChannelClosed, RLockClient, RLockInput,
       WriteRefused, WritePacket, EndFragment, WriteFragment, WriteBroken, MuxerRejects,
       WriteReturns, inputVars, handlerVars
  <2>2. QED
    BY <1>2, <2>1
<1>10. QED
  BY <1>3, <1>4, <1>5, <1>6, <1>7, <1>8, <1>9 DEF Next, Encoder

\* As long as no descriptor was reused the daemon implements StreamService:
\* viewers get a header and then consecutive packets, over one connection to the
\* source that is opened only for somebody who was sent nothing yet.
THEOREM DaemonImplementsService == Spec /\ []NoReuse => ImplementsService
<1>1. Init => Service!Init
  BY ServiceInit
<1>2. Typed /\ Inv /\ Conserved /\ Served /\ [Next]_vars => [Service!Next]_Service!vars
  BY ServiceStep
<1>3. Spec => []Typed
  BY TypeCorrect, PTL DEF Typed
<1>4. QED
  BY <1>1, <1>2, <1>3, SafetyInvariant, ConservedInvariant, StreamsServed, PTL
     DEF Spec, ImplementsService, Service!Spec

\* A reused descriptor is the only way a viewer gets bytes of another client's
\* container.
THEOREM OnlyReuseMixesStreams == Spec /\ []NoReuse => []OwnStreamOnly
<1>1. ASSUME Typed, Served PROVE OwnStreamOnly
  <2>1. SUFFICES ASSUME NEW c \in Clients, NEW i \in DOMAIN sent[c]
                 PROVE  sent[c][i] # Trailer
    BY DEF OwnStreamOnly, Range
  <2>2. sent[c] \in Seq(Items) /\ chunk[c] \o pipe[c] \in Seq(Items) /\ packet \in Nat
    <3>1. packet \in Nat
      BY <1>1, StreamerAssumption DEF Typed, TypeOK
    <3>2. sent[c] \in Seq(Items) /\ chunk[c] \in Seq(Items) /\ pipe[c] \in Seq(Items)
      BY <1>1, PartTypes
    <3>3. chunk[c] \o pipe[c] \in Seq(Items)
      BY <3>2, ConcatProperties
    <3>4. QED
      BY <3>1, <3>2, <3>3
  <2>3. IsStream(sent[c] \o (chunk[c] \o pipe[c]), packet)
    BY <1>1 DEF Served, Flow, Held
  <2>4. IsStream(sent[c], packet)
    BY <2>2, <2>3, StreamPrefix
  <2>5. i \in 1..Len(sent[c])
    BY <2>2
  <2>6. QED
    BY <2>4, <2>5 DEF IsStream, Header, Trailer
<1>2. Spec => []Typed
  BY TypeCorrect, PTL DEF Typed
<1>3. QED
  BY <1>1, <1>2, StreamsServed, PTL

\* Where the system gives no descriptor out again, none is reused.
LEMMA ReuseStep ==
    ASSUME ~FdReuse, NoReuse, [Next]_vars
    PROVE  NoReuse'
<1> USE DEF NoReuse
<1>1. CASE Encoder \/ CloneFails
  BY <1>1 DEF Encoder, StartRound, OpenInput, OpenInputFails, ReadVideo, ReadOther, ReadFails,
     LockInput, LockClient, OutputIsOpen, OpenOutput, OpenOutputFails, SendPacket, CloneFails,
     TooSlow, FinishRound, DestroyInput, LockToClean, CloseOutPipe, DestroyOutput, CloseChan,
     DrainPacket, DropChan, others, handlerVars
<1>2. ASSUME NEW c \in Clients, AcceptClient(c) \/ Handler(c) PROVE NoReuse'
  BY <1>2 DEF AcceptClient, Handler, Serves, Request, RequestFails, Read, ReadEOF, ReadFailed,
     Forward, HangUp
<1>3. ASSUME NEW c \in Clients, WriterRuns(c) \/ MuxerRejects(c) PROVE NoReuse'
  BY <1>3 DEF WriterRuns, StartWriter, ReceivePacket, ChannelClosed, RLockClient, RLockInput,
     WriteRefused, WritePacket, EndFragment, WriteFragment, WriteBroken, MuxerRejects,
     handlerVars
<1>4. CASE UNCHANGED vars
  BY <1>4 DEF vars, others, handlerVars
<1>5. QED
  BY <1>1, <1>2, <1>3, <1>4 DEF Next

\* The promise without conditions, in the environment stream_safety has.
COROLLARY ImplementsWithoutReuse ==
    ASSUME ~FdReuse
    PROVE  Spec => ImplementsService
<1>1. Init => NoReuse
  BY DEF Init, NoReuse
<1>2. NoReuse /\ [Next]_vars => NoReuse'
  BY ReuseStep
<1>3. Spec => []NoReuse
  BY <1>1, <1>2, PTL DEF Spec
<1>4. QED
  BY <1>3, DaemonImplementsService, PTL
=============================================================================
