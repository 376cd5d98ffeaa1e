------------------------------- MODULE Remux -------------------------------
(***************************************************************************)
(* What videostreamer.c allocates, opens and releases, on every path: the  *)
(* stages of vs_open_input and vs_open_output, which each may fail, the    *)
(* packets read and written, and the two functions that destroy.  The      *)
(* caller is cmd/remux_example, which copies max_frames packets into a     *)
(* file and stops at the first error.  (The stamps are in Timestamps.)     *)
(*                                                                         *)
(* A stream of the input is its index, which also stands for its time base *)
(* and codec parameters.  A packet is its number, in the order they are    *)
(* read, and the stream it is of.                                          *)
(*                                                                         *)
(* A definition named Slip_X is X with a plausible mistake in it; nothing  *)
(* uses it.  Replacing X by it shows that a property notices the mistake.  *)
(***************************************************************************)
EXTENDS Integers, Sequences

CONSTANTS
    MaxStreams,     \* bound: streams of an input
    FrameLimits,    \* values of max_frames; 0 means no limit
    MaxReads        \* bound: packets ever read

ASSUME RemuxAssumption ==
    /\ MaxStreams \in Nat /\ MaxReads \in Nat
    /\ FrameLimits \subseteq Nat

\* Memory, contexts, the open file and a packet's data.
Resources == {"input", "inctx", "opts", "output", "outctx", "pb", "pkt"}
OpenStages == {"input", "format", "transport", "timeout", "connect",
               "probe", "video",
               "output", "guess", "context", "stream", "codec", "file",
               "movflags", "flush", "header", "leftover"}

VARIABLES
    streams,    \* what the input carries: "video" or another kind, by index
    limit,      \* max_frames
    pc,         \* the call that comes next
    held,       \* the resources held
    vindex,     \* input->video_stream_index
    codec,      \* the stream whose parameters the output was given, or -1
    read,       \* the stream of each packet read, the one in pkt the last
    file,       \* what the muxer was told to put in the output
    count       \* i

vars == <<streams, limit, pc, held, vindex, codec, read, file, count>>

Inputs == UNION {[0..n - 1 -> {"video", "other"}] : n \in 0..MaxStreams}
Indices == 0..MaxStreams - 1

\* What the muxer is told to write.
Header  == [tag |-> "header"]
Trailer == [tag |-> "trailer"]
Frames  == [tag : {"frame"}, number : 1..MaxReads, index : Indices, base : Indices]

TypeOK ==
    /\ streams \in Inputs
    /\ limit \in FrameLimits
    /\ pc \in OpenStages \cup {"read", "write", "close", "done"}
    /\ held \subseteq Resources
    /\ vindex \in Indices \cup {-1} /\ codec \in Indices \cup {-1}
    /\ count \in 0..MaxReads
    /\ Len(read) <= MaxReads /\ \A n \in DOMAIN read : read[n] \in Indices
    /\ \A k \in DOMAIN file : file[k] \in {Header, Trailer} \cup Frames

Init ==
    /\ streams \in Inputs
    /\ limit \in FrameLimits
    /\ pc = "input"
    /\ held = {}
    /\ vindex = -1 /\ codec = -1
    /\ read = <<>> /\ file = <<>>
    /\ count = 0

-----------------------------------------------------------------------------

\* vs_destroy_input: the context if there is one, and the structure.
AfterDestroyInput == held \ {"input", "inctx"}

\* vs_destroy_output writes the trailer and closes the file if there is a
\* context, whether or not there was a header.
Slip_DestroyOutput(h) ==
    /\ held' = h \ {"output", "outctx", "pb"}
    /\ UNCHANGED file

DestroyOutput(h) ==
    /\ held' = h \ {"output", "outctx", "pb"}
    /\ file' = IF "outctx" \in h THEN Append(file, Trailer) ELSE file

\* A call of vs_open_input or vs_open_output that succeeds.
Passes(at, next, gets) ==
    /\ pc = at /\ pc' = next
    /\ held' = held \cup gets
    /\ UNCHANGED <<streams, limit, read, count>>

\* ... and does no more than get something.
Stage(at, next, gets) == Passes(at, next, gets) /\ UNCHANGED <<vindex, codec, file>>

\* vs_open_input fails: it destroys the input, frees the options, and main
\* returns.  Until the options exist there is nothing to free.
InputFails ==
    /\ pc \in {"input", "format", "transport", "timeout", "connect"}
    /\ pc' = "done"
    /\ held' = AfterDestroyInput \ {"opts"}
    /\ UNCHANGED <<streams, limit, vindex, codec, read, file, count>>

\* ... also after the options were freed: no stream information, or no video.
ProbeFails ==
    /\ \/ pc = "probe"
       \/ pc = "video" /\ "video" \notin {streams[i] : i \in DOMAIN streams}
    /\ pc' = "done"
    /\ held' = AfterDestroyInput
    /\ UNCHANGED <<streams, limit, vindex, codec, read, file, count>>

\* vs_open_output fails: it destroys the output, and main the input.
Slip_OutputFails ==
    /\ pc \in {"output", "guess", "context", "stream", "codec", "file", "movflags"}
    /\ pc' = "done"
    /\ DestroyOutput(held)
    /\ UNCHANGED <<streams, limit, vindex, codec, read, count>>

OutputFails ==
    /\ pc \in {"output", "guess", "context", "stream", "codec", "file", "movflags"}
    /\ pc' = "done"
    /\ DestroyOutput(AfterDestroyInput)
    /\ UNCHANGED <<streams, limit, vindex, codec, read, count>>

\* The options of the muxer are freed too, once there is one.
Slip_HeaderFails ==
    /\ pc \in {"flush", "header", "leftover"}
    /\ pc' = "done"
    /\ DestroyOutput(AfterDestroyInput)
    /\ UNCHANGED <<streams, limit, vindex, codec, read, count>>

HeaderFails ==
    /\ pc \in {"flush", "header", "leftover"}
    /\ pc' = "done"
    /\ DestroyOutput(AfterDestroyInput \ {"opts"})
    /\ UNCHANGED <<streams, limit, vindex, codec, read, count>>

AllocInput   == Stage("input", "format", {"input"})
FindFormat   == Stage("format", "transport", {})
SetTransport == Stage("transport", "timeout", {"opts"})
SetTimeout   == Stage("timeout", "connect", {})

\* avformat_open_input; the options are freed after it.
Connect ==
    /\ pc = "connect" /\ pc' = "probe"
    /\ held' = (held \cup {"inctx"}) \ {"opts"}
    /\ UNCHANGED <<streams, limit, vindex, codec, read, file, count>>

Probe == Stage("probe", "video", {})

\* The index is taken after the loop has counted on.
Slip_FindVideo ==
    /\ Passes("video", "output", {})
    /\ \E i \in DOMAIN streams :
         /\ streams[i] = "video"
         /\ \A j \in 0..i - 1 : streams[j] # "video"
         /\ vindex' = i + 1
    /\ UNCHANGED <<codec, file>>

\* The first video stream.
FindVideo ==
    /\ Passes("video", "output", {})
    /\ \E i \in DOMAIN streams :
         /\ streams[i] = "video"
         /\ \A j \in 0..i - 1 : streams[j] # "video"
         /\ vindex' = i
    /\ UNCHANGED <<codec, file>>

AllocOutput  == Stage("output", "guess", {"output"})
GuessFormat  == Stage("guess", "context", {})
AllocContext == Stage("context", "stream", {"outctx"})
AddStream    == Stage("stream", "codec", {})
CopyCodec    == Passes("codec", "file", {}) /\ codec' = vindex /\ UNCHANGED <<vindex, file>>
OpenFile     == Stage("file", "movflags", {"pb"})
SetMovflags  == Stage("movflags", "flush", {"opts"})
SetFlush     == Stage("flush", "header", {})

WriteHeader ==
    /\ Passes("header", "leftover", {})
    /\ file' = Append(file, Header)
    /\ UNCHANGED <<vindex, codec>>

\* No option was left over: vs_open_output frees them and returns the output.
OptionsTaken ==
    /\ pc = "leftover" /\ pc' = "read"
    /\ held' = held \ {"opts"}
    /\ UNCHANGED <<streams, limit, vindex, codec, read, file, count>>

-----------------------------------------------------------------------------

\* Any video stream will do.
Slip_Wanted(i) == streams[i] = "video"

\* The packets vs_read_packet returns.
Wanted(i) == i = vindex

\* av_read_frame gives the next packet, which is of stream i.
Reads(i) ==
    /\ pc = "read" /\ Len(read) < MaxReads
    /\ read' = Append(read, i)
    /\ UNCHANGED <<streams, limit, vindex, codec, file, count>>

\* It is wanted: main writes it.
ReadVideo ==
    \E i \in DOMAIN streams :
      /\ Reads(i) /\ Wanted(i)
      /\ pc' = "write"
      /\ held' = held \cup {"pkt"}

\* Its data is kept.
Slip_ReadOther ==
    \E i \in DOMAIN streams :
      /\ Reads(i) /\ ~Wanted(i)
      /\ held' = held \cup {"pkt"}
      /\ UNCHANGED pc

\* It is not: its data is released and main asks for the next one.
ReadOther ==
    \E i \in DOMAIN streams :
      /\ Reads(i) /\ ~Wanted(i)
      /\ held' = held \ {"pkt"}
      /\ UNCHANGED pc

ReadFails ==
    /\ pc = "read" /\ pc' = "done"
    /\ DestroyOutput(AfterDestroyInput)
    /\ UNCHANGED <<streams, limit, vindex, codec, read, count>>

\* vs_write_packet looks up the time base by the packet's index and then sets
\* the index to that of the output's only stream.
Rewritten(n, i) == [tag |-> "frame", number |-> n, index |-> 0, base |-> i]

\* The last packet read is passed to the muxer.
WritePacket ==
    /\ pc = "write"
    /\ file' = Append(file, Rewritten(Len(read), read[Len(read)]))
    /\ held' = held \ {"pkt"}
    /\ count' = count + 1
    /\ pc' = IF count' = limit THEN "close" ELSE "read"
    /\ UNCHANGED <<streams, limit, vindex, codec, read>>

\* The muxer refuses it: destroy the input and the output, then the data.
WriteFails ==
    /\ pc = "write" /\ pc' = "done"
    /\ DestroyOutput(AfterDestroyInput \ {"pkt"})
    /\ UNCHANGED <<streams, limit, vindex, codec, read, count>>

\* max_frames were copied.
Close ==
    /\ pc = "close" /\ pc' = "done"
    /\ DestroyOutput(AfterDestroyInput)
    /\ UNCHANGED <<streams, limit, vindex, codec, read, count>>

Exited == pc = "done" /\ UNCHANGED vars

Next ==
    \/ AllocInput \/ FindFormat \/ SetTransport \/ SetTimeout
    \/ Connect \/ Probe \/ FindVideo
    \/ InputFails \/ ProbeFails
    \/ AllocOutput \/ GuessFormat \/ AllocContext \/ AddStream \/ CopyCodec
    \/ OpenFile \/ SetMovflags \/ SetFlush \/ WriteHeader \/ OptionsTaken
    \/ OutputFails \/ HeaderFails
    \/ ReadVideo \/ ReadOther \/ ReadFails
    \/ WritePacket \/ WriteFails \/ Close
    \/ Exited

Spec == Init /\ [][Next]_vars

-----------------------------------------------------------------------------
(* What must hold.                                                         *)

\* Whichever call fails, and when the copy ends, everything that was
\* allocated or opened has been released.
NothingLeaks == pc = "done" => held = {}

\* The loop reads and writes only with an open input and an open output (what
\* vs_open_input and vs_open_output return is complete), and holds the data of
\* at most the packet it is about to write.
LoopIsEquipped ==
    /\ pc \in {"read", "close"} => held = Resources \ {"opts", "pkt"}
    /\ pc = "write" => held = Resources \ {"opts"}

\* The output is the first video stream of the input: every frame is a packet
\* that was read of it, with its time base and codec and the index of the
\* output's only stream; the frames are in the order they were read, each
\* once; and none is missing but the one not yet written, or refused (the
\* filter of vs_read_packet, the index in vs_write_packet, main's loop).
FirstVideo(i) == streams[i] = "video" /\ \A j \in 0..i - 1 : streams[j] # "video"

FramesOf(f) == {k \in DOMAIN f : f[k] \in Frames}

FirstVideoCopied ==
    /\ \A k \in FramesOf(file) :
         /\ file[k].number \in DOMAIN read
         /\ file[k].base = read[file[k].number]
         /\ FirstVideo(file[k].base) /\ codec = file[k].base
         /\ file[k].index = 0
    /\ \A k, l \in FramesOf(file) : k < l => file[k].number < file[l].number
    /\ \A n \in DOMAIN read : FirstVideo(read[n]) =>
         \/ \E k \in FramesOf(file) : file[k].number = n
         \/ n = Len(read) /\ pc \in {"write", "done"}

\* A container that was begun is ended, on every path: the header, the packets
\* written, one trailer after the last of them, and never more packets than
\* asked for.  (vs_destroy_output, called from every exit.)
ContainerComplete ==
    /\ limit > 0 => count <= limit
    /\ pc = "done" /\ (\E k \in DOMAIN file : file[k] = Header) =>
         /\ Len(file) = count + 2
         /\ file[1] = Header /\ file[Len(file)] = Trailer
         /\ \A k \in 2..Len(file) - 1 : file[k] \in Frames
=============================================================================
