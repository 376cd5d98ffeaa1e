------------------------------ MODULE Streamer ------------------------------
(***************************************************************************)
(* The streaming daemon, videostreamer.go: the encoder goroutine, one HTTP *)
(* handler goroutine per request for /stream, and one packetWriter         *)
(* goroutine per client whose output was opened.                           *)
(*                                                                         *)
(* The goroutines meet at the unbuffered ClientChan, each client's         *)
(* buffered PacketChan, its pipe, its RWMutex, and the RWMutex of the      *)
(* input.  Every call that can block, and every write another goroutine    *)
(* can see, is a step of its own.                                          *)
(*                                                                         *)
(* A packet is its number in the order the encoder read it.  What a pipe   *)
(* carries is abstracted to the MP4 header (0), the packets, and what ends *)
(* some other client's container (-1).  The muxer fragments at keyframes   *)
(* (frag_keyframe): it keeps the packets of a fragment and writes them     *)
(* when the next keyframe comes.  Which packets are keyframes is left      *)
(* open, for each client.                                                  *)
(*                                                                         *)
(* A definition named Slip_X is X with a plausible mistake in it; nothing  *)
(* uses it.  Replacing X by it shows that a property notices the mistake.  *)
(***************************************************************************)
EXTENDS Integers, Sequences, FiniteSets, Functions

CONSTANTS
    Clients,        \* requests for /stream
    ChanCap,        \* capacity of a PacketChan (32 in the code)
    PipeCap,        \* items from which on a pipe is full
    MaxPackets,     \* bound: video packets ever read
    MaxInputs,      \* bound: times the input is ever opened
    OutputMayFail,  \* whether vs_open_output may fail
    ReadMayFail,    \* whether a handler's read of its pipe may fail
    FdReuse,        \* whether a new pipe may get a just-closed descriptor
    None            \* no client

ASSUME StreamerAssumption ==
    /\ ChanCap \in Nat \ {0}
    /\ PipeCap \in Nat \ {0}
    /\ MaxPackets \in Nat
    /\ MaxInputs \in Nat
    /\ OutputMayFail \in BOOLEAN
    /\ ReadMayFail \in BOOLEAN
    /\ FdReuse \in BOOLEAN
    /\ None \notin Clients

Header  == 0
Trailer == -1
Packets == 1..MaxPackets
Items   == Packets \cup {Header, Trailer}

VARIABLES
    \* the encoder goroutine
    epc,        \* where it is
    clients,    \* its list of clients
    todo,       \* clients the current loop has yet to handle
    kept,       \* clients2 in writePacketToClients
    quitting,   \* cleaning up every client before it returns
    wlock,      \* the client whose mutex it holds for writing, or None
    input,      \* the Input in use, 0 for nil
    live,       \* the Inputs whose vsInput is not nil
    opened,     \* how many Inputs were ever made
    packet,     \* the last video packet read
    \* the fields of each Client
    outPipe,    \* OutPipe is open
    output,     \* Output is not nil
    frag,       \* packets its muxer has not written yet
    chan,       \* PacketChan: none yet, open, closed, field reset to nil
    buf,        \* the packet copies in the channel
    alive,      \* copies allocated and not yet freed
    \* each packetWriter goroutine
    wpc, hand, winput,
    \* each HTTP handler goroutine and its pipe
    hpc, pipe, chunk,
    sent,       \* what the HTTP client was sent
    reuse       \* the request whose pipe got the descriptor of the output
                \* now being destroyed, or None

loopVars    == <<clients, todo, kept, quitting>>
encoderVars == <<epc, loopVars, wlock>>
inputVars   == <<input, live, opened, packet>>
clientVars  == <<outPipe, output, frag, chan, buf, alive>>
writerVars  == <<wpc, hand, winput>>
handlerVars == <<hpc, pipe, chunk, sent, reuse>>
others == <<inputVars, clientVars, writerVars, handlerVars>>
vars == <<encoderVars, others>>

EncoderStates == {"top", "input", "read", "lock", "lockwait", "send", "unref",
                  "inputlock", "inputwait", "clean", "cleanwait", "destroy",
                  "close", "drain", "done"}
WriterStates  == {"none", "start", "nilchan", "recv", "rlock", "irlock",
                  "write", "flush", "done"}
HandlerStates == {"idle", "refused", "sending", "reading", "writing", "done"}

AtMostOne(S) == {<<>>} \cup {<<x>> : x \in S}

TypeOK ==
    /\ epc \in EncoderStates
    /\ clients \in Seq(Clients) /\ todo \in Seq(Clients)
    /\ kept \in Seq(Clients)
    /\ quitting \in BOOLEAN
    /\ wlock \in Clients \cup {None} /\ reuse \in Clients \cup {None}
    /\ opened \in 0..MaxInputs
    /\ input \in 0..opened /\ live \subseteq 1..opened
    /\ packet \in 0..MaxPackets
    /\ outPipe \in [Clients -> BOOLEAN] /\ output \in [Clients -> BOOLEAN]
    /\ frag \in [Clients -> Seq(Packets)]
    /\ chan \in [Clients -> {"none", "open", "closed", "dropped"}]
    /\ buf \in [Clients -> Seq(Packets)]
    /\ \A c \in Clients : Len(buf[c]) <= ChanCap
    /\ alive \in [Clients -> SUBSET Packets]
    /\ wpc \in [Clients -> WriterStates]
    /\ hand \in [Clients -> AtMostOne(Packets)]
    /\ winput \in [Clients -> 0..MaxInputs]
    /\ hpc \in [Clients -> HandlerStates]
    /\ pipe \in [Clients -> Seq(Items)] /\ sent \in [Clients -> Seq(Items)]
    /\ chunk \in [Clients -> AtMostOne(Items)]

Init ==
    /\ epc = "top" /\ clients = <<>> /\ todo = <<>> /\ kept = <<>>
    /\ quitting = FALSE /\ wlock = None /\ reuse = None
    /\ input = 0 /\ live = {} /\ opened = 0 /\ packet = 0
    /\ outPipe = [c \in Clients |-> FALSE]
    /\ output  = [c \in Clients |-> FALSE]
    /\ frag    = [c \in Clients |-> <<>>]
    /\ chan    = [c \in Clients |-> "none"]
    /\ buf     = [c \in Clients |-> <<>>]
    /\ alive   = [c \in Clients |-> {}]
    /\ wpc     = [c \in Clients |-> "none"]
    /\ hand    = [c \in Clients |-> <<>>]
    /\ winput  = [c \in Clients |-> 0]
    /\ hpc     = [c \in Clients |-> "idle"]
    /\ pipe    = [c \in Clients |-> <<>>]
    /\ chunk   = [c \in Clients |-> <<>>]
    /\ sent    = [c \in Clients |-> <<>>]

-----------------------------------------------------------------------------
(* The locks.  Which reader holds what follows from where it is; a Go      *)
(* RWMutex lets no new reader in once a writer waits for it.               *)

cur == Head(todo)

\* A packetWriter that ends on a failed write does not unlock.
Slip_HoldsClient(c) == wpc[c] \in {"irlock", "write", "flush", "done"}
HoldsClient(c) == wpc[c] \in {"irlock", "write", "flush"}
HoldsInput(c)  == wpc[c] \in {"write", "flush"}

\* cleanupClient without the lock.
Slip_ClientMutexFree(c) == TRUE
ClientMutexFree(c) == wlock # c /\ ~HoldsClient(c)
ClientReadable(c)  ==
    wlock # c /\ ~(epc \in {"lockwait", "cleanwait"} /\ cur = c)

InputMutexFree(i)  == \A c \in Clients : ~(HoldsInput(c) /\ winput[c] = i)
InputReadable(i)   == ~(epc = "inputwait" /\ input = i)

-----------------------------------------------------------------------------
(* The HTTP handler, streamRequest.                                        *)

\* A request arrives: its handler makes a pipe and offers the client to the
\* encoder on ClientChan.  The new pipe may be given the descriptor number
\* that the output being destroyed still writes to.
Request(c) ==
    /\ hpc[c] = "idle"
    /\ hpc' = [hpc EXCEPT ![c] = "sending"]
    /\ outPipe' = [outPipe EXCEPT ![c] = TRUE]
    /\ \/ reuse' = reuse
       \/ FdReuse /\ epc = "destroy" /\ reuse = None /\ reuse' = c
    /\ UNCHANGED <<encoderVars, inputVars, writerVars, output, frag, chan,
                   buf, alive, pipe, chunk, sent>>

\* os.Pipe fails: the request is answered with an error.
RequestFails(c) ==
    /\ hpc[c] = "idle"
    /\ hpc' = [hpc EXCEPT ![c] = "refused"]
    /\ UNCHANGED <<encoderVars, inputVars, clientVars, writerVars, pipe,
                   chunk, sent, reuse>>

\* inPipe.Read returns data.
Read(c) ==
    /\ hpc[c] = "reading" /\ pipe[c] # <<>>
    /\ hpc' = [hpc EXCEPT ![c] = "writing"]
    /\ chunk' = [chunk EXCEPT ![c] = <<Head(pipe[c])>>]
    /\ pipe' = [pipe EXCEPT ![c] = Tail(@)]
    /\ UNCHANGED <<encoderVars, inputVars, clientVars, writerVars, sent,
                   reuse>>

\* inPipe.Read returns EOF: the pipe is empty and its write side is closed.
ReadEOF(c) ==
    /\ hpc[c] = "reading" /\ pipe[c] = <<>> /\ ~outPipe[c]
    /\ hpc' = [hpc EXCEPT ![c] = "done"]
    /\ UNCHANGED <<encoderVars, inputVars, clientVars, writerVars, pipe,
                   chunk, sent, reuse>>

\* inPipe.Read fails.  The handler closes the read side, and what the pipe held
\* is gone.
ReadFailed(c) ==
    /\ ReadMayFail
    /\ hpc[c] = "reading"
    /\ hpc' = [hpc EXCEPT ![c] = "done"]
    /\ pipe' = [pipe EXCEPT ![c] = <<>>]
    /\ UNCHANGED <<encoderVars, inputVars, clientVars, writerVars, chunk, sent,
                   reuse>>

\* rw.Write delivers the chunk.
Forward(c) ==
    /\ hpc[c] = "writing"
    /\ hpc' = [hpc EXCEPT ![c] = "reading"]
    /\ sent' = [sent EXCEPT ![c] = @ \o chunk[c]]
    /\ chunk' = [chunk EXCEPT ![c] = <<>>]
    /\ UNCHANGED <<encoderVars, inputVars, clientVars, writerVars, pipe,
                   reuse>>

\* rw.Write fails or is short: the viewer left.  Likewise.
HangUp(c) ==
    /\ hpc[c] = "writing"
    /\ hpc' = [hpc EXCEPT ![c] = "done"]
    /\ chunk' = [chunk EXCEPT ![c] = <<>>]
    /\ pipe' = [pipe EXCEPT ![c] = <<>>]
    /\ UNCHANGED <<encoderVars, inputVars, clientVars, writerVars, sent,
                   reuse>>

\* What the handler does if its viewer and its pipe let it.
Serves(c) == Read(c) \/ ReadEOF(c) \/ Forward(c) \/ HangUp(c)

Handler(c) == Request(c) \/ RequestFails(c) \/ ReadFailed(c) \/ Serves(c)

-----------------------------------------------------------------------------
(* The encoder: admission, the input, and reading packets.                 *)

Senders == {c \in Clients : hpc[c] = "sending"}

\* A receive from ClientChan: the blocking one when there are no clients, or
\* the polling one in acceptClients.
AcceptClient(c) ==
    /\ epc = "top" /\ c \in Senders
    /\ clients' = Append(clients, c)
    /\ hpc' = [hpc EXCEPT ![c] = "reading"]
    /\ UNCHANGED <<epc, todo, kept, quitting, wlock, inputVars, clientVars,
                   writerVars, pipe, chunk, sent, reuse>>

\* The encoder does not poll ClientChan while it has clients.
Slip_StartRound ==
    /\ epc = "top" /\ clients # <<>>
    /\ epc' = IF input = 0 THEN "input" ELSE "read"
    /\ UNCHANGED <<loopVars, wlock, others>>

\* acceptClients finds no one waiting.
StartRound ==
    /\ epc = "top" /\ clients # <<>> /\ Senders = {}
    /\ epc' = IF input = 0 THEN "input" ELSE "read"
    /\ UNCHANGED <<loopVars, wlock, others>>

\* openInput succeeds.
OpenInput ==
    /\ epc = "input" /\ opened < MaxInputs
    /\ opened' = opened + 1
    /\ input' = opened + 1
    /\ live' = live \cup {opened + 1}
    /\ epc' = "read"
    /\ UNCHANGED <<loopVars, wlock, packet, clientVars, writerVars,
                   handlerVars>>

\* openInput fails: clean up every client and return.
OpenInputFails ==
    /\ epc = "input"
    /\ epc' = "clean" /\ quitting' = TRUE /\ todo' = clients
    /\ UNCHANGED <<clients, kept, wlock, others>>

\* vs_read_packet returns 1: a video packet for every client.
ReadVideo ==
    /\ epc = "read" /\ packet < MaxPackets
    /\ packet' = packet + 1
    /\ epc' = "lock" /\ todo' = clients /\ kept' = <<>>
    /\ UNCHANGED <<clients, quitting, wlock, input, live, opened,
                   clientVars, writerVars, handlerVars>>

\* 0 is taken for a packet.
Slip_ReadOther ==
    /\ epc = "read"
    /\ epc' = "lock" /\ todo' = clients /\ kept' = <<>>
    /\ UNCHANGED <<clients, quitting, wlock, others>>

\* vs_read_packet returns 0: a packet of another stream.
ReadOther ==
    /\ epc = "read"
    /\ epc' = "top"
    /\ UNCHANGED <<loopVars, wlock, others>>

\* vs_read_packet returns -1: destroy the input, clean up every client, return.
ReadFails ==
    /\ epc = "read"
    /\ epc' = "inputlock" /\ quitting' = TRUE
    /\ UNCHANGED <<clients, todo, kept, wlock, others>>

\* destroyInput calls input.mutex.Lock ...
LockInput ==
    /\ epc = "inputlock"
    /\ epc' = "inputwait"
    /\ UNCHANGED <<loopVars, wlock, others>>

\* ... and gets it once no packetWriter reads the input.
DestroyInput ==
    /\ epc = "inputwait" /\ InputMutexFree(input)
    /\ live' = live \ {input}
    /\ IF quitting
         THEN epc' = "clean" /\ todo' = clients /\ input' = input
         ELSE epc' = "top" /\ todo' = todo /\ input' = 0
    /\ UNCHANGED <<clients, kept, quitting, wlock, opened, packet,
                   clientVars, writerVars, handlerVars>>

-----------------------------------------------------------------------------
(* The encoder: writePacketToClients, for the client cur.                  *)

\* Only the first client is cleaned up before the encoder returns.
Slip_NextClient ==
    /\ todo' = Tail(todo)
    /\ epc' = IF quitting THEN "done"
              ELSE IF Tail(todo) # <<>> THEN "lock" ELSE "unref"

\* Go on with the next client of the loop, or leave it.
NextClient ==
    /\ todo' = Tail(todo)
    /\ epc' = IF Tail(todo) # <<>> THEN (IF quitting THEN "clean" ELSE "lock")
              ELSE IF quitting THEN "done" ELSE "unref"

LockClient ==
    /\ epc = "lock"
    /\ epc' = "lockwait"
    /\ UNCHANGED <<loopVars, wlock, others>>

\* The lock is ours and the output is already open.
OutputIsOpen ==
    /\ epc = "lockwait" /\ ClientMutexFree(cur) /\ output[cur]
    /\ epc' = "send"
    /\ UNCHANGED <<loopVars, wlock, others>>

\* It is opened whether or not it already is.
Slip_OpenOutput ==
    /\ epc = "lockwait" /\ ClientMutexFree(cur)
    /\ epc' = "send"
    /\ output' = [output EXCEPT ![cur] = TRUE]
    /\ pipe' = [pipe EXCEPT ![cur] = Append(@, Header)]
    /\ chan' = [chan EXCEPT ![cur] = "open"]
    /\ wpc' = [wpc EXCEPT ![cur] = "start"]
    /\ winput' = [winput EXCEPT ![cur] = input]
    /\ UNCHANGED <<loopVars, wlock, inputVars, outPipe, frag, buf, alive,
                   hand, hpc, chunk, sent, reuse>>

\* The lock is ours: open the output, which writes the header to the empty
\* pipe, make the channel, start the packetWriter, unlock.
OpenOutput ==
    /\ epc = "lockwait" /\ ClientMutexFree(cur) /\ ~output[cur]
    /\ epc' = "send"
    /\ output' = [output EXCEPT ![cur] = TRUE]
    /\ pipe' = [pipe EXCEPT ![cur] = Append(@, Header)]
    /\ chan' = [chan EXCEPT ![cur] = "open"]
    /\ wpc' = [wpc EXCEPT ![cur] = "start"]
    /\ winput' = [winput EXCEPT ![cur] = input]
    /\ UNCHANGED <<loopVars, wlock, inputVars, outPipe, frag, buf, alive,
                   hand, hpc, chunk, sent, reuse>>

\* vs_open_output fails: cleanupClient is called with the mutex still held.
OpenOutputFails ==
    /\ OutputMayFail
    /\ epc = "lockwait" /\ ClientMutexFree(cur) /\ ~output[cur]
    /\ epc' = "clean"
    /\ wlock' = cur
    /\ UNCHANGED <<loopVars, others>>

\* A send on a buffered channel does not block while the buffer has room.
HasRoom(c) == Len(buf[c]) < ChanCap

\* The copy of the packet goes into the channel and the client is kept.
SendPacket ==
    /\ epc = "send" /\ HasRoom(cur)
    /\ alive' = [alive EXCEPT ![cur] = @ \cup {packet}]
    /\ buf' = [buf EXCEPT ![cur] = Append(@, packet)]
    /\ kept' = Append(kept, cur)
    /\ NextClient
    /\ UNCHANGED <<clients, quitting, wlock, inputVars, outPipe, output,
                   frag, chan, writerVars, handlerVars>>

\* A client whose packet cannot be copied is forgotten, not cleaned up.
Slip_CloneFails ==
    /\ epc = "send"
    /\ NextClient
    /\ UNCHANGED <<clients, kept, quitting, wlock, others>>

\* The packet cannot be copied.
CloneFails ==
    /\ epc = "send"
    /\ epc' = "clean"
    /\ UNCHANGED <<loopVars, wlock, others>>

\* The client is too slow: its channel is full.  The copy is freed at once.
TooSlow ==
    /\ epc = "send" /\ ~HasRoom(cur)
    /\ epc' = "clean"
    /\ UNCHANGED <<loopVars, wlock, others>>

\* The input stays open without clients.
Slip_FinishRoundKeepsInput ==
    /\ epc = "unref"
    /\ clients' = kept
    /\ epc' = "top"
    /\ UNCHANGED <<todo, kept, quitting, wlock, others>>

\* The input is closed with a client left.
Slip_FinishRoundEarly ==
    /\ epc = "unref"
    /\ clients' = kept
    /\ epc' = IF Len(kept) <= 1 THEN "inputlock" ELSE "top"
    /\ UNCHANGED <<todo, kept, quitting, wlock, others>>

\* Every client was handled: only those kept remain, and without clients the
\* input is closed.
FinishRound ==
    /\ epc = "unref"
    /\ clients' = kept
    /\ epc' = IF kept = <<>> THEN "inputlock" ELSE "top"
    /\ UNCHANGED <<todo, kept, quitting, wlock, others>>

-----------------------------------------------------------------------------
(* The encoder: cleanupClient, for the client cur.                         *)

LockToClean ==
    /\ epc = "clean"
    /\ epc' = "cleanwait"
    /\ UNCHANGED <<loopVars, wlock, others>>

\* The lock is ours: close the write side of the pipe.
CloseOutPipe ==
    /\ epc = "cleanwait" /\ ClientMutexFree(cur)
    /\ epc' = "destroy"
    /\ wlock' = cur
    /\ outPipe' = [outPipe EXCEPT ![cur] = FALSE]
    /\ UNCHANGED <<loopVars, inputVars, output, frag, chan, buf, alive,
                   writerVars, handlerVars>>

\* The mutex is not unlocked.
Slip_DestroyOutput ==
    /\ epc = "destroy"
    /\ epc' = "close"
    /\ output' = [output EXCEPT ![cur] = FALSE]
    /\ frag' = [frag EXCEPT ![cur] = <<>>]
    /\ reuse' = None
    /\ UNCHANGED <<loopVars, wlock, inputVars, outPipe, chan, buf, alive,
                   writerVars, hpc, pipe, chunk, sent>>

\* vs_destroy_output writes the last fragment and the trailer to the descriptor
\* number it was given, which is closed, unless another request's pipe got it.
\* Unlock.
DestroyOutput ==
    /\ epc = "destroy"
    /\ epc' = "close"
    /\ wlock' = None
    /\ output' = [output EXCEPT ![cur] = FALSE]
    /\ pipe' = IF output[cur] /\ reuse # None
                 THEN [pipe EXCEPT ![reuse] = Append(@, Trailer)] ELSE pipe
    /\ frag' = [frag EXCEPT ![cur] = <<>>]
    /\ reuse' = None
    /\ UNCHANGED <<loopVars, inputVars, outPipe, chan, buf, alive, writerVars,
                   hpc, chunk, sent>>

\* Close the channel, if there is one.
CloseChan ==
    /\ epc = "close"
    /\ IF chan[cur] = "open"
         THEN /\ chan' = [chan EXCEPT ![cur] = "closed"]
              /\ epc' = "drain" /\ todo' = todo
         ELSE chan' = chan /\ NextClient
    /\ UNCHANGED <<clients, kept, quitting, wlock, inputVars, outPipe, output,
                   frag, buf, alive, writerVars, handlerVars>>

\* Take one packet out of the closed channel and free it.
DrainPacket ==
    /\ epc = "drain" /\ buf[cur] # <<>>
    /\ alive' = [alive EXCEPT ![cur] = @ \ {Head(buf[cur])}]
    /\ buf' = [buf EXCEPT ![cur] = Tail(@)]
    /\ UNCHANGED <<encoderVars, inputVars, outPipe, output, frag, chan, writerVars,
                   handlerVars>>

\* The closed channel is empty: forget it.
DropChan ==
    /\ epc = "drain" /\ buf[cur] = <<>>
    /\ chan' = [chan EXCEPT ![cur] = "dropped"]
    /\ NextClient
    /\ UNCHANGED <<clients, kept, quitting, wlock, inputVars, outPipe, output,
                   frag, buf, alive, writerVars, handlerVars>>

Encoder ==
    \/ StartRound \/ OpenInput \/ OpenInputFails
    \/ ReadVideo \/ ReadOther \/ ReadFails
    \/ LockClient \/ OutputIsOpen \/ OpenOutput \/ OpenOutputFails
    \/ SendPacket \/ TooSlow \/ FinishRound
    \/ LockInput \/ DestroyInput
    \/ LockToClean \/ CloseOutPipe \/ DestroyOutput
    \/ CloseChan \/ DrainPacket \/ DropChan

-----------------------------------------------------------------------------
(* The packetWriter goroutine.                                             *)

\* The range clause evaluates client.PacketChan when the goroutine first
\* runs.  If cleanupClient has already reset the field, it ranges over nil.
StartWriter(c) ==
    /\ wpc[c] = "start"
    /\ wpc' = [wpc EXCEPT ![c] =
                  IF chan[c] = "dropped" THEN "nilchan" ELSE "recv"]
    /\ UNCHANGED <<encoderVars, inputVars, clientVars, hand, winput,
                   handlerVars>>

\* Receive the next packet ...
ReceivePacket(c) ==
    /\ wpc[c] = "recv" /\ buf[c] # <<>>
    /\ wpc' = [wpc EXCEPT ![c] = "rlock"]
    /\ hand' = [hand EXCEPT ![c] = <<Head(buf[c])>>]
    /\ buf' = [buf EXCEPT ![c] = Tail(@)]
    /\ UNCHANGED <<encoderVars, inputVars, outPipe, output, frag, chan, alive, winput,
                   handlerVars>>

\* ... or find the channel closed and empty.
ChannelClosed(c) ==
    /\ wpc[c] = "recv" /\ buf[c] = <<>> /\ chan[c] \in {"closed", "dropped"}
    /\ wpc' = [wpc EXCEPT ![c] = "done"]
    /\ UNCHANGED <<encoderVars, inputVars, clientVars, hand, winput,
                   handlerVars>>

RLockClient(c) ==
    /\ wpc[c] = "rlock" /\ ClientReadable(c)
    /\ wpc' = [wpc EXCEPT ![c] = "irlock"]
    /\ UNCHANGED <<encoderVars, inputVars, clientVars, hand, winput,
                   handlerVars>>

RLockInput(c) ==
    /\ wpc[c] = "irlock" /\ InputReadable(winput[c])
    /\ wpc' = [wpc EXCEPT ![c] = "write"]
    /\ UNCHANGED <<encoderVars, inputVars, clientVars, hand, winput,
                   handlerVars>>

\* The failing path does not free the packet.
Slip_WriteReturns(c, pc) ==
    /\ wpc' = [wpc EXCEPT ![c] = pc]
    /\ alive' = IF pc = "done" THEN alive
                ELSE [alive EXCEPT ![c] = @ \ Range(hand[c])]
    /\ hand' = [hand EXCEPT ![c] = <<>>]
    /\ UNCHANGED <<encoderVars, inputVars, outPipe, output, chan, buf, winput>>

\* vs_write_packet returns: unlock both, free the packet, go on at pc.
WriteReturns(c, pc) ==
    /\ wpc' = [wpc EXCEPT ![c] = pc]
    /\ alive' = [alive EXCEPT ![c] = @ \ Range(hand[c])]
    /\ hand' = [hand EXCEPT ![c] = <<>>]
    /\ UNCHANGED <<encoderVars, inputVars, outPipe, output, chan, buf, winput>>

\* vs_write_packet was given a nil output or a nil input.
Usable(c) == output[c] /\ winput[c] \in live

WriteRefused(c) ==
    /\ wpc[c] = "write" /\ ~Usable(c)
    /\ WriteReturns(c, "done")
    /\ UNCHANGED <<frag, handlerVars>>

\* The muxer adds the packet to the fragment it keeps.
WritePacket(c) ==
    /\ wpc[c] = "write" /\ Usable(c)
    /\ frag' = [frag EXCEPT ![c] = @ \o hand[c]]
    /\ WriteReturns(c, "recv")
    /\ UNCHANGED handlerVars

\* The packet is a keyframe: first the fragment so far is to be written.
EndFragment(c) ==
    /\ wpc[c] = "write" /\ Usable(c) /\ frag[c] # <<>>
    /\ wpc' = [wpc EXCEPT ![c] = "flush"]
    /\ UNCHANGED <<encoderVars, inputVars, clientVars, hand, winput, handlerVars>>

\* Its write to the pipe completes; it blocks while the pipe is full.  The
\* packet starts the next fragment.
WriteFragment(c) ==
    /\ wpc[c] = "flush"
    /\ hpc[c] # "done" /\ Len(pipe[c]) < PipeCap
    /\ pipe' = [pipe EXCEPT ![c] = @ \o frag[c]]
    /\ frag' = [frag EXCEPT ![c] = hand[c]]
    /\ WriteReturns(c, "recv")
    /\ UNCHANGED <<hpc, chunk, sent, reuse>>

\* The read side of the pipe is closed: the write fails.
WriteBroken(c) ==
    /\ wpc[c] = "flush" /\ hpc[c] = "done"
    /\ WriteReturns(c, "done")
    /\ UNCHANGED <<frag, handlerVars>>

\* The muxer rejects the packet, for instance for its timestamps.
MuxerRejects(c) ==
    /\ wpc[c] = "write" /\ Usable(c)
    /\ WriteReturns(c, "done")
    /\ UNCHANGED <<frag, handlerVars>>

WriterRuns(c) ==
    \/ StartWriter(c) \/ ReceivePacket(c) \/ ChannelClosed(c)
    \/ RLockClient(c) \/ RLockInput(c)
    \/ WriteRefused(c) \/ WritePacket(c)
    \/ EndFragment(c) \/ WriteFragment(c) \/ WriteBroken(c)

-----------------------------------------------------------------------------

Next ==
    \/ Encoder \/ CloneFails
    \/ \E c \in Clients : \/ AcceptClient(c) \/ Handler(c)
                          \/ WriterRuns(c) \/ MuxerRejects(c)

Spec == Init /\ [][Next]_vars

\* Goroutines that can run do run; a viewer keeps reading, or leaves.  Nothing
\* obliges anyone to make a request, a copy to fail or the muxer to complain.
Fairness ==
    /\ WF_vars(Encoder \/ \E c \in Clients : AcceptClient(c))
    /\ \A c \in Clients : /\ WF_vars(WriterRuns(c))
                          /\ WF_vars(Serves(c))

FairSpec == Spec /\ Fairness
=============================================================================
