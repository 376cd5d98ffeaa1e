---------------------------- MODULE RemuxProofs ----------------------------
(***************************************************************************)
(* The safety properties of Remux, for any number of streams, any limits   *)
(* and any number of packets.                                              *)
(***************************************************************************)
EXTENDS Remux, TLAPS

\* What is held before each call: what the calls before it got.
Holdings ==
    /\ pc \in {"input", "done"} => held = {}
    /\ pc \in {"format", "transport"} => held = {"input"}
    /\ pc \in {"timeout", "connect"} => held = {"input", "opts"}
    /\ pc \in {"probe", "video", "output"} => held = {"input", "inctx"}
    /\ pc \in {"guess", "context"} => held = {"input", "inctx", "output"}
    /\ pc \in {"stream", "codec", "file"} =>
         held = {"input", "inctx", "output", "outctx"}
    /\ pc = "movflags" => held = {"input", "inctx", "output", "outctx", "pb"}
    /\ pc \in {"flush", "header", "leftover"} => held = Resources \ {"pkt"}
    /\ pc \in {"read", "close"} => held = Resources \ {"opts", "pkt"}
    /\ pc = "write" => held = Resources \ {"opts"}

BeforeVideo  == {"input", "format", "transport", "timeout", "connect", "probe", "video"}
BeforeCodec  == BeforeVideo \cup {"output", "guess", "context", "stream", "codec"}
BeforeHeader == BeforeCodec \cup {"file", "movflags", "flush", "header"}
Places       == OpenStages \cup {"read", "write", "close", "done"}

\* Where the packets and the codec come from.
Sources ==
    /\ vindex # -1 => vindex \in Indices /\ FirstVideo(vindex)
    /\ pc \in Places \ (BeforeVideo \cup {"done"}) => vindex # -1
    /\ pc \in Places \ (BeforeCodec \cup {"done"}) => codec = vindex
    /\ \A k \in FramesOf(file) :
         /\ file[k].number \in DOMAIN read
         /\ file[k] = Rewritten(file[k].number, vindex)
         /\ read[file[k].number] = vindex
         /\ codec = vindex /\ vindex # -1

\* The frames are the packets of that stream, in order; of a packet that is
\* about to be written there is no frame yet.
Copied ==
    /\ pc \in BeforeHeader => read = <<>>
    /\ read # <<>> => vindex # -1
    /\ pc = "write" => /\ Len(read) > 0 /\ read[Len(read)] = vindex
                       /\ \A k \in FramesOf(file) : file[k].number # Len(read)
    /\ \A k, l \in FramesOf(file) : k < l => file[k].number < file[l].number
    /\ \A n \in DOMAIN read : read[n] = vindex =>
         \/ \E k \in FramesOf(file) : file[k].number = n
         \/ n = Len(read) /\ pc \in {"write", "done"}

\* The output so far is a header and one frame for each packet.
Begun(f, n) ==
    /\ Len(f) = n + 1 /\ f[1] = Header
    /\ \A k \in 2..n + 1 : f[k] \in Frames

Contents ==
    /\ pc \in BeforeHeader => file = <<>> /\ count = 0
    /\ pc \in {"leftover", "read", "write", "close"} => Begun(file, count)
    /\ count <= Len(read) /\ (pc = "write" => count < Len(read))
    /\ pc = "leftover" => count = 0
    /\ pc \in {"leftover", "read", "write"} /\ limit > 0 => count < limit
    /\ limit > 0 => count <= limit
    /\ pc = "done" =>
         \/ file = <<>> \/ file = <<Trailer>>
         \/ /\ Len(file) = count + 2
            /\ file[1] = Header /\ file[count + 2] = Trailer
            /\ \A k \in 2..count + 1 : file[k] \in Frames

Types ==
    /\ streams \in Inputs /\ limit \in FrameLimits
    /\ pc \in Places
    /\ held \subseteq Resources
    /\ vindex \in Indices \cup {-1} /\ codec \in Indices \cup {-1}
    /\ count \in Nat
    /\ read \in Seq(Indices) /\ Len(read) <= MaxReads
    /\ file \in Seq({Header, Trailer} \cup Frames)

Inv == Types /\ Holdings /\ Sources /\ Copied /\ Contents

\* The entries of an output are told apart by their tags.
LEMMA Tags == Header # Trailer /\ Header \notin Frames /\ Trailer \notin Frames
  BY DEF Header, Trailer, Frames

LEMMA RewrittenIsFrame ==
    ASSUME NEW i \in Indices, NEW n \in 1..MaxReads
    PROVE  /\ Rewritten(n, i) \in Frames
           /\ Rewritten(n, i).number = n
<1>1. 0 \in Indices
  BY RemuxAssumption DEF Indices
<1>2. QED
  BY <1>1 DEF Rewritten, Frames

\* The indices of an input.
LEMMA InputIndices ==
    ASSUME NEW s \in Inputs, NEW i \in DOMAIN s
    PROVE  i \in Indices
<1>1. PICK n \in 0..MaxStreams : s \in [0..n - 1 -> {"video", "other"}]
  BY DEF Inputs
<1>2. DOMAIN s = 0..n - 1 /\ n <= MaxStreams /\ n \in Nat
  BY <1>1, RemuxAssumption
<1>3. QED
  BY <1>2, RemuxAssumption DEF Indices

\* The stages that only go on and get something.
Stages ==
    \/ AllocInput \/ FindFormat \/ SetTransport \/ SetTimeout \/ Probe
    \/ AllocOutput \/ GuessFormat \/ AllocContext \/ AddStream
    \/ OpenFile \/ SetMovflags \/ SetFlush

\* The steps after which main returns.
OpenFails == InputFails \/ ProbeFails \/ OutputFails \/ HeaderFails
Ends      == OpenFails \/ ReadFails \/ WriteFails \/ Close

-----------------------------------------------------------------------------

LEMMA Initially == Init => Inv
<1> SUFFICES ASSUME Init PROVE Inv
  OBVIOUS
<1>1. Types
  BY RemuxAssumption DEF Init, Types, Places, OpenStages
<1>2. Holdings /\ Sources /\ Copied
  BY DEF Init, Holdings, Sources, Copied, FramesOf, BeforeVideo, BeforeCodec
<1>3. Contents
  BY RemuxAssumption DEF Init, Contents, BeforeHeader, BeforeCodec, BeforeVideo
<1>4. QED
  BY <1>1, <1>2, <1>3 DEF Inv

\* Each step leaves what the calls before the next one got.
LEMMA HoldingsKept == ASSUME Inv, [Next]_vars PROVE Holdings'
<1> USE DEF Inv, Types, Holdings, Resources
<1>1. CASE Stages
  BY <1>1, ZenonT(40) DEF Stages, AllocInput, FindFormat, SetTransport, SetTimeout, Probe,
       AllocOutput, GuessFormat, AllocContext, AddStream, OpenFile,
       SetMovflags, SetFlush, Stage, Passes
<1>2. CASE Connect \/ FindVideo \/ CopyCodec \/ WriteHeader \/ OptionsTaken
  BY <1>2 DEF Connect, FindVideo, CopyCodec, WriteHeader, OptionsTaken, Passes
<1>3. CASE Ends
  BY <1>3 DEF Ends, OpenFails, InputFails, ProbeFails, OutputFails, HeaderFails,
       ReadFails, WriteFails, Close, DestroyOutput, AfterDestroyInput
<1>4. CASE ReadVideo \/ ReadOther \/ WritePacket
  BY <1>4 DEF ReadVideo, ReadOther, Reads, WritePacket
<1>5. CASE UNCHANGED vars
  BY <1>5 DEF vars
<1>6. QED
  BY <1>1, <1>2, <1>3, <1>4, <1>5 DEF Next, Stages, Ends, OpenFails, Exited

\* What a stage and an end do to the output, and what they leave alone.
LEMMA StageEffect ==
    ASSUME Inv, Stages
    PROVE  /\ UNCHANGED <<streams, limit, vindex, codec, read, file, count>>
           /\ pc' \in OpenStages /\ held' \subseteq Resources
           /\ pc \in BeforeHeader /\ pc' \in BeforeHeader
           /\ pc \in BeforeVideo <=> pc' \in BeforeVideo
           /\ pc \in BeforeCodec <=> pc' \in BeforeCodec
  BY DEF Inv, Types, Resources, OpenStages, BeforeVideo, BeforeCodec,
     BeforeHeader, Stages, AllocInput, FindFormat, SetTransport, SetTimeout,
     Probe, AllocOutput, GuessFormat, AllocContext, AddStream, OpenFile,
     SetMovflags, SetFlush, Stage, Passes

LEMMA EndEffect ==
    ASSUME Inv, Ends
    PROVE  /\ UNCHANGED <<streams, limit, vindex, codec, read, count>>
           /\ pc # "done" /\ pc' = "done" /\ held' = {}
           /\ \/ file' = file /\ file = <<>>
              \/ file' = Append(file, Trailer)
<1>1. CASE InputFails \/ ProbeFails
  BY <1>1 DEF InputFails, ProbeFails, Inv, Holdings, Contents, BeforeHeader,
       BeforeCodec, BeforeVideo, AfterDestroyInput
<1>2. CASE OutputFails \/ HeaderFails
  BY <1>2 DEF OutputFails, HeaderFails, Inv, Holdings, Contents, BeforeHeader,
       BeforeCodec, BeforeVideo, AfterDestroyInput, DestroyOutput, Resources
<1>3. CASE ReadFails \/ WriteFails \/ Close
  BY <1>3 DEF ReadFails, WriteFails, Close, Inv, Holdings, AfterDestroyInput,
       DestroyOutput, Resources
<1>4. QED
  BY <1>1, <1>2, <1>3 DEF Ends, OpenFails

\* A packet is read, and is about to be written if it is of the first video
\* stream; one is written as a frame of its own.
LEMMA ReadEffect ==
    ASSUME Inv, ReadVideo \/ ReadOther
    PROVE  /\ UNCHANGED <<streams, limit, vindex, codec, file, count>>
           /\ pc = "read" /\ held' \subseteq Resources
           /\ Len(read) < MaxReads
           /\ \E i \in Indices :
                /\ read' = Append(read, i)
                /\ \/ i = vindex /\ pc' = "write"
                   \/ i # vindex /\ pc' = "read"
  BY InputIndices DEF Inv, Types, ReadVideo, ReadOther, Reads, Wanted, Resources

LEMMA WriteEffect ==
    ASSUME Inv, WritePacket
    PROVE  /\ UNCHANGED <<streams, limit, vindex, codec, read>>
           /\ pc = "write" /\ pc' \in {"read", "close"}
           /\ codec = vindex /\ vindex \in Indices
           /\ Len(read) \in 1..MaxReads /\ Len(read) \in DOMAIN read
           /\ read[Len(read)] = vindex
           /\ file' = Append(file, Rewritten(Len(read), vindex))
           /\ Rewritten(Len(read), vindex) \in Frames
           /\ Rewritten(Len(read), vindex).number = Len(read)
<1>1. /\ UNCHANGED <<streams, limit, vindex, codec, read>>
      /\ pc = "write" /\ pc' \in {"read", "close"}
      /\ file' = Append(file, Rewritten(Len(read), read[Len(read)]))
  BY DEF WritePacket
<1>2. codec = vindex /\ vindex # -1 /\ read[Len(read)] = vindex /\ Len(read) > 0
  BY <1>1 DEF Inv, Sources, Copied, Places, BeforeVideo, BeforeCodec
<1>3. /\ vindex \in Indices /\ Len(read) \in 1..MaxReads
      /\ Len(read) \in DOMAIN read
  BY <1>2, RemuxAssumption DEF Inv, Types
<1>4. QED
  BY <1>1, <1>2, <1>3, RewrittenIsFrame

\* What an entry at its end adds to the frames of an output.
LEMMA FramesAppended ==
    ASSUME NEW f \in Seq({Header, Trailer} \cup Frames),
           NEW e \in {Header, Trailer} \cup Frames
    PROVE  /\ FramesOf(Append(f, e)) =
                FramesOf(f) \cup (IF e \in Frames THEN {Len(f) + 1} ELSE {})
           /\ \A k \in FramesOf(f) : Append(f, e)[k] = f[k] /\ k \in 1..Len(f)
           /\ Append(f, e)[Len(f) + 1] = e
<1>1. /\ DOMAIN Append(f, e) = DOMAIN f \cup {Len(f) + 1}
      /\ DOMAIN f = 1..Len(f) /\ Len(f) \in Nat
      /\ \A k \in DOMAIN f : Append(f, e)[k] = f[k]
      /\ Append(f, e)[Len(f) + 1] = e
  OBVIOUS
<1>2. QED
  BY <1>1 DEF FramesOf

LEMMA EndFrames ==
    ASSUME Inv, Ends
    PROVE  /\ FramesOf(file') = FramesOf(file)
           /\ \A k \in FramesOf(file) : file'[k] = file[k]
<1>1. CASE file' = file
  BY <1>1
<1>2. CASE file' = Append(file, Trailer)
  <2>1. file \in Seq({Header, Trailer} \cup Frames)
    BY DEF Inv, Types
  <2>2. FramesOf(Append(file, Trailer)) = FramesOf(file)
    BY <2>1, FramesAppended, Tags
  <2>3. \A k \in FramesOf(file) : Append(file, Trailer)[k] = file[k]
    BY <2>1, FramesAppended
  <2>4. QED
    BY <1>2, <2>2, <2>3
<1>3. QED
  BY <1>1, <1>2, EndEffect

LEMMA WriteFrames ==
    ASSUME Inv, WritePacket
    PROVE  /\ FramesOf(file') = FramesOf(file) \cup {Len(file) + 1}
           /\ \A k \in FramesOf(file) : file'[k] = file[k] /\ k \in 1..Len(file)
           /\ file'[Len(file) + 1] = Rewritten(Len(read), vindex)
<1> DEFINE e == Rewritten(Len(read), vindex)
<1>1. file' = Append(file, e) /\ e \in Frames
  BY WriteEffect
<1>2. file \in Seq({Header, Trailer} \cup Frames)
  BY DEF Inv, Types
<1> HIDE DEF e
<1>3. FramesOf(Append(file, e)) = FramesOf(file) \cup {Len(file) + 1}
  BY <1>1, <1>2, FramesAppended
<1>4. /\ \A k \in FramesOf(file) : Append(file, e)[k] = file[k] /\ k \in 1..Len(file)
      /\ Append(file, e)[Len(file) + 1] = e
  BY <1>1, <1>2, FramesAppended
<1>5. QED
  BY <1>1, <1>3, <1>4 DEF e

LEMMA TypesKept == ASSUME Inv, [Next]_vars PROVE Types'
<1> USE DEF Inv, Types
<1>1. CASE Stages
  BY <1>1, StageEffect DEF Places, Inputs
<1>2. CASE Ends
  <2>1. Append(file, Trailer) \in Seq({Header, Trailer} \cup Frames)
    OBVIOUS
  <2>2. QED
    BY <1>2, <2>1, EndEffect DEF Places
<1>3. CASE FindVideo
  BY <1>3, InputIndices DEF FindVideo, Passes, Places, OpenStages, Inputs
<1>4. CASE Connect \/ CopyCodec \/ WriteHeader \/ OptionsTaken
  <2>1. Append(file, Header) \in Seq({Header, Trailer} \cup Frames)
    OBVIOUS
  <2>2. QED
    BY <1>4, <2>1 DEF Connect, CopyCodec, WriteHeader, OptionsTaken, Passes,
         Places, OpenStages, Resources
<1>5. CASE ReadVideo \/ ReadOther
  <2>1. PICK i \in Indices : read' = Append(read, i)
    BY <1>5, ReadEffect
  <2>3. read' \in Seq(Indices) /\ Len(read') = Len(read) + 1 /\ Len(read) \in Nat
    BY <2>1
  <2>4. Len(read) < MaxReads /\ MaxReads \in Nat
    BY <1>5, ReadEffect, RemuxAssumption
  <2>2. QED
    BY <1>5, <2>3, <2>4, ReadEffect DEF ReadVideo, ReadOther, Reads, Places, Inputs
<1>6. CASE WritePacket
  <2>1. /\ file' = Append(file, Rewritten(Len(read), vindex))
        /\ Rewritten(Len(read), vindex) \in Frames
    BY <1>6, WriteEffect
  <2>2. file' \in Seq({Header, Trailer} \cup Frames)
    BY <2>1
  <2>3. QED
    BY <1>6, <2>2, WriteEffect DEF WritePacket, Places, Inputs
<1>7. CASE UNCHANGED vars
  BY <1>7 DEF vars, Inputs
<1>8. QED
  BY <1>1, <1>2, <1>3, <1>4, <1>5, <1>6, <1>7
     DEF Next, Stages, Ends, OpenFails, Exited

\* The stream is chosen before there is a frame, and stays.
LEMMA SourcesKept == ASSUME Inv, [Next]_vars PROVE Sources'
<1> USE DEF Inv, Types, Sources, FirstVideo
<1>1. CASE Stages
  BY <1>1, StageEffect DEF Places, OpenStages, BeforeHeader, BeforeCodec, BeforeVideo
<1>2. CASE Ends
  <2>1. /\ FramesOf(file') = FramesOf(file)
        /\ \A k \in FramesOf(file) : file'[k] = file[k]
    BY <1>2, EndFrames
  <2>2. QED
    BY <1>2, <2>1, EndEffect
<1>3. CASE FindVideo
  <2>1. file = <<>> /\ file' = <<>>
    BY <1>3 DEF FindVideo, Passes, Contents, BeforeHeader, BeforeCodec, BeforeVideo
  <2>2. (vindex \in Indices /\ FirstVideo(vindex) /\ vindex # -1)'
    BY <1>3, InputIndices, RemuxAssumption DEF FindVideo, Passes, Indices
  <2>3. QED
    BY <1>3, <2>1, <2>2
       DEF FindVideo, Passes, BeforeVideo, BeforeCodec, Places, FramesOf
<1>4. CASE CopyCodec
  <2>1. file = <<>> /\ file' = <<>>
    BY <1>4 DEF CopyCodec, Passes, Contents, BeforeHeader, BeforeCodec, BeforeVideo
  <2>2. QED
    BY <1>4, <2>1 DEF CopyCodec, Passes, BeforeVideo, BeforeCodec, Places, FramesOf
<1>5. CASE Connect \/ OptionsTaken
  BY <1>5 DEF Connect, OptionsTaken, Passes, BeforeVideo, BeforeCodec, Places
<1>6. CASE WriteHeader
  <2>1. FramesOf(file') = FramesOf(file) /\ FramesOf(file) = {}
    BY <1>6, FramesAppended, Tags
       DEF WriteHeader, Passes, Contents, BeforeHeader, FramesOf
  <2>2. QED
    BY <1>6, <2>1 DEF WriteHeader, Passes, BeforeVideo, BeforeCodec, Places
<1>7. CASE ReadVideo \/ ReadOther
  <2>1. \A n \in DOMAIN read : n \in DOMAIN read' /\ read'[n] = read[n]
    BY <1>7, ReadEffect
  <2>2. QED
    BY <1>7, <2>1, ReadEffect DEF BeforeVideo, BeforeCodec, Places
<1>8. CASE WritePacket
  <2>1. /\ FramesOf(file') = FramesOf(file) \cup {Len(file) + 1}
        /\ \A k \in FramesOf(file) : file'[k] = file[k]
        /\ file'[Len(file) + 1] = Rewritten(Len(read), vindex)
    BY <1>8, WriteFrames
  <2>2. -1 \notin Indices
    BY RemuxAssumption DEF Indices
  <2>3. QED
    BY <1>8, <2>1, <2>2, WriteEffect DEF BeforeVideo, BeforeCodec, Places
<1>9. CASE UNCHANGED vars
  BY <1>9 DEF vars
<1>10. QED
  BY <1>1, <1>2, <1>3, <1>4, <1>5, <1>6, <1>7, <1>8, <1>9
     DEF Next, Stages, Ends, OpenFails, Exited

\* A frame is added for a packet of the stream before the next is read.
LEMMA CopiedKept == ASSUME Inv, [Next]_vars PROVE Copied'
<1> USE DEF Inv, Types, Copied
<1>1. CASE Stages
  BY <1>1, StageEffect DEF OpenStages, BeforeHeader, BeforeCodec, BeforeVideo
<1>2. CASE Ends
  <2>1. /\ FramesOf(file') = FramesOf(file)
        /\ \A k \in FramesOf(file) : file'[k] = file[k]
    BY <1>2, EndFrames
  <2>2. QED
    BY <1>2, <2>1, EndEffect DEF BeforeHeader, BeforeCodec, BeforeVideo
<1>3. CASE Connect \/ FindVideo \/ CopyCodec
  <2>1. /\ read' = <<>> /\ file' = file /\ pc' # "write"
    BY <1>3 DEF Connect, FindVideo, CopyCodec, Passes, BeforeHeader, BeforeCodec,
                BeforeVideo
  <2>2. QED
    BY <2>1
<1>4. CASE WriteHeader
  <2>1. read' = <<>> /\ FramesOf(file') = {} /\ pc' = "leftover"
    BY <1>4, FramesAppended, Tags
       DEF WriteHeader, Passes, Contents, BeforeHeader, FramesOf
  <2>2. QED
    BY <2>1
<1>5. CASE OptionsTaken
  BY <1>5 DEF OptionsTaken, BeforeHeader, BeforeCodec, BeforeVideo
<1>6. CASE ReadVideo \/ ReadOther
  <2>1. PICK i \in Indices :
          /\ read' = Append(read, i)
          /\ \/ i = vindex /\ pc' = "write"
             \/ i # vindex /\ pc' = "read"
    BY <1>6, ReadEffect
  <2>2. /\ DOMAIN read' = DOMAIN read \cup {Len(read) + 1}
        /\ DOMAIN read = 1..Len(read) /\ Len(read) \in Nat
        /\ Len(read') = Len(read) + 1 /\ read'[Len(read) + 1] = i
        /\ \A n \in DOMAIN read : read'[n] = read[n]
    BY <2>1
  <2>3. \A k \in FramesOf(file) : file[k].number \in 1..Len(read)
    BY <2>2 DEF Sources
  <2>4. pc = "read" /\ file' = file /\ vindex' = vindex
    BY <1>6, ReadEffect
  <2>5. pc' \notin BeforeHeader /\ vindex # -1
    BY <2>1, <2>4 DEF Sources, Places, BeforeHeader, BeforeCodec, BeforeVideo
  <2>6. pc' = "write" => /\ Len(read') > 0 /\ read'[Len(read')] = vindex
                         /\ \A k \in FramesOf(file) : file[k].number # Len(read')
    BY <2>1, <2>2, <2>3
  <2>7. ASSUME NEW n \in DOMAIN read', read'[n] = vindex
        PROVE  \/ \E k \in FramesOf(file) : file[k].number = n
               \/ n = Len(read') /\ pc' \in {"write", "done"}
    <3>1. CASE n = Len(read) + 1
      BY <2>1, <2>2, <2>7, <3>1
    <3>2. CASE n \in DOMAIN read
      BY <2>2, <2>4, <2>7, <3>2
    <3>3. QED
      BY <2>2, <3>1, <3>2
  <2>8. \A k, l \in FramesOf(file') : k < l => file'[k].number < file'[l].number
    BY <2>4
  <2>9. \A n \in DOMAIN read' : read'[n] = vindex' =>
          \/ \E k \in FramesOf(file') : file'[k].number = n
          \/ n = Len(read') /\ pc' \in {"write", "done"}
    BY <2>4, <2>7
  <2>10. pc' = "write" => /\ Len(read') > 0 /\ read'[Len(read')] = vindex'
                          /\ \A k \in FramesOf(file') : file'[k].number # Len(read')
    BY <2>4, <2>6
  <2>11. QED
    BY <2>4, <2>5, <2>8, <2>9, <2>10
<1>7. CASE WritePacket
  <2>1. /\ FramesOf(file') = FramesOf(file) \cup {Len(file) + 1}
        /\ \A k \in FramesOf(file) : file'[k] = file[k] /\ k \in 1..Len(file)
        /\ file'[Len(file) + 1].number = Len(read)
    BY <1>7, WriteFrames, WriteEffect
  <2>2. \A k \in FramesOf(file) : file[k].number \in 1..Len(read) /\ file[k].number # Len(read)
    BY <1>7, WriteEffect DEF Sources
  <2>3. UNCHANGED <<read, vindex>> /\ pc = "write" /\ pc' \in {"read", "close"}
    BY <1>7, WriteEffect
  <2>4. \A k, l \in FramesOf(file') : k < l => file'[k].number < file'[l].number
    BY <2>1, <2>2
  <2>5. \A n \in DOMAIN read : read[n] = vindex =>
          \E k \in FramesOf(file') : file'[k].number = n
    BY <2>1, <2>3
  <2>6. QED
    BY <2>3, <2>4, <2>5 DEF BeforeHeader, BeforeCodec, BeforeVideo
<1>8. CASE UNCHANGED vars
  BY <1>8 DEF vars
<1>9. QED
  BY <1>1, <1>2, <1>3, <1>4, <1>5, <1>6, <1>7, <1>8
     DEF Next, Stages, Ends, OpenFails, Exited

\* A header, the frames, and the trailer of whatever ends it.
LEMMA ContentsKept == ASSUME Inv, [Next]_vars PROVE Contents'
<1> USE DEF Inv, Types, Contents, Begun
<1>1. CASE Stages
  BY <1>1, StageEffect DEF OpenStages, BeforeHeader, BeforeCodec, BeforeVideo
<1>2. CASE Ends
  <2>1. /\ UNCHANGED <<limit, count, read>> /\ pc' = "done" /\ count \in Nat
        /\ \/ file' = file /\ file = <<>>
           \/ file' = Append(file, Trailer)
    BY <1>2, EndEffect, RemuxAssumption
  <2>2. CASE file = <<>>
    BY <2>1, <2>2 DEF BeforeHeader, BeforeCodec, BeforeVideo
  <2>3. CASE file # <<>>
    <3>1. Begun(file, count)
      BY <1>2, <2>3, EndEffect
         DEF Places, OpenStages, BeforeHeader, BeforeCodec, BeforeVideo
    <3>2. QED
      BY <2>1, <2>3, <3>1 DEF BeforeHeader, BeforeCodec, BeforeVideo
  <2>4. QED
    BY <2>2, <2>3
<1>3. CASE Connect \/ FindVideo \/ CopyCodec
  BY <1>3 DEF Connect, FindVideo, CopyCodec, Passes, BeforeHeader, BeforeCodec,
       BeforeVideo
<1>4. CASE WriteHeader
  BY <1>4, RemuxAssumption
     DEF WriteHeader, Passes, BeforeHeader, BeforeCodec, BeforeVideo
<1>5. CASE OptionsTaken
  BY <1>5, RemuxAssumption DEF OptionsTaken, BeforeHeader, BeforeCodec, BeforeVideo
<1>6. CASE WritePacket
  <2>1. /\ file' = Append(file, Rewritten(Len(read), vindex))
        /\ Rewritten(Len(read), vindex) \in Frames
        /\ UNCHANGED <<limit, read>> /\ pc = "write" /\ pc' \in {"read", "close"}
    BY <1>6, WriteEffect
  <2>2. count' = count + 1 /\ (pc' = "read" => count' # limit)
    BY <1>6 DEF WritePacket
  <2>3. Begun(file', count')
    BY <2>1, <2>2
  <2>4. QED
    BY <2>1, <2>2, <2>3, RemuxAssumption DEF BeforeHeader, BeforeCodec, BeforeVideo
<1>9. CASE ReadVideo \/ ReadOther
  <2>1. Len(read') = Len(read) + 1
    BY <1>9, ReadEffect
  <2>2. QED
    BY <1>9, <2>1, ReadEffect DEF BeforeHeader, BeforeCodec, BeforeVideo
<1>7. CASE UNCHANGED vars
  BY <1>7 DEF vars
<1>8. QED
  BY <1>1, <1>2, <1>3, <1>4, <1>5, <1>6, <1>7, <1>9
     DEF Next, Stages, Ends, OpenFails, Exited

-----------------------------------------------------------------------------

\* The inductive invariant: what is held before each call, which stream was
\* chosen, and what the output has so far.
THEOREM RemuxInvariant == Spec => []Inv
<1>1. Inv /\ [Next]_vars => Inv'
  BY TypesKept, HoldingsKept, SourcesKept, CopiedKept, ContentsKept DEF Inv
<1>2. QED
  BY <1>1, Initially, PTL DEF Spec

\* Every variable keeps its type.
THEOREM TypeCorrect == Spec => []TypeOK
<1>1. Inv => TypeOK
  <2> SUFFICES ASSUME Inv PROVE TypeOK
    OBVIOUS
  <2>1. count \in 0..MaxReads
    BY RemuxAssumption DEF Inv, Types, Contents
  <2>2. /\ Len(read) <= MaxReads /\ \A n \in DOMAIN read : read[n] \in Indices
        /\ \A k \in DOMAIN file : file[k] \in {Header, Trailer} \cup Frames
    BY DEF Inv, Types
  <2>3. QED
    BY <2>1, <2>2 DEF Inv, Types, TypeOK, Places
<1>2. QED
  BY <1>1, RemuxInvariant, PTL

\* On every path out of main everything has been released.
THEOREM AllReleased == Spec => []NothingLeaks
<1>1. Inv => NothingLeaks
  BY DEF Inv, Holdings, NothingLeaks
<1>2. QED
  BY <1>1, RemuxInvariant, PTL

\* The loop of main has an open input and an open output.
THEOREM LoopEquipped == Spec => []LoopIsEquipped
<1>1. Inv => LoopIsEquipped
  BY DEF Inv, Holdings, LoopIsEquipped
<1>2. QED
  BY <1>1, RemuxInvariant, PTL

\* The output is the packets of the first video stream that were read, in the
\* order they were read, each once, and none is left out before the last.
THEOREM FirstVideoWritten == Spec => []FirstVideoCopied
<1>1. Inv => FirstVideoCopied
  <2> SUFFICES ASSUME Inv PROVE FirstVideoCopied
    OBVIOUS
  <2>1. \A k \in FramesOf(file) :
          /\ file[k].number \in DOMAIN read
          /\ file[k].base = read[file[k].number]
          /\ FirstVideo(file[k].base) /\ codec = file[k].base
          /\ file[k].index = 0
    <3> TAKE k \in FramesOf(file)
    <3> DEFINE n == file[k].number
    <3>1. /\ n \in DOMAIN read /\ read[n] = vindex
          /\ file[k] = Rewritten(n, vindex)
          /\ FirstVideo(vindex) /\ codec = vindex
      BY DEF Inv, Sources
    <3>2. Rewritten(n, vindex).base = vindex /\ Rewritten(n, vindex).index = 0
      BY DEF Rewritten
    <3> HIDE DEF n
    <3>3. file[k].base = vindex /\ file[k].index = 0
      BY <3>1, <3>2
    <3>4. QED
      BY <3>1, <3>3 DEF n
  <2>2. ASSUME NEW n \in DOMAIN read, FirstVideo(read[n]) PROVE read[n] = vindex
    <3>1. vindex # -1
      BY DEF Inv, Copied
    <3>2. FirstVideo(vindex) /\ vindex \in Int /\ vindex >= 0
      BY <3>1, RemuxAssumption DEF Inv, Sources, Indices
    <3>3. read[n] \in Int /\ read[n] >= 0
      BY RemuxAssumption DEF Inv, Types, Indices
    <3>4. QED
      BY <2>2, <3>2, <3>3 DEF FirstVideo
  <2>3. QED
    BY <2>1, <2>2 DEF Inv, Copied, FirstVideoCopied
<1>2. QED
  BY <1>1, RemuxInvariant, PTL

\* A container that was begun is ended, with just the packets written.
THEOREM ContainersEnd == Spec => []ContainerComplete
<1>1. Inv => ContainerComplete
  <2> SUFFICES ASSUME Inv PROVE ContainerComplete
    OBVIOUS
  <2>1. CASE pc = "done" /\ \E k \in DOMAIN file : file[k] = Header
    <3>1. file # <<>> /\ file # <<Trailer>>
      BY <2>1, Tags
    <3>2. QED
      BY <2>1, <3>1, RemuxAssumption DEF Inv, Types, Contents, ContainerComplete
  <2>2. CASE ~(pc = "done" /\ \E k \in DOMAIN file : file[k] = Header)
    BY <2>2 DEF Inv, Contents, ContainerComplete
  <2>3. QED
    BY <2>1, <2>2
<1>2. QED
  BY <1>1, RemuxInvariant, PTL
=============================================================================
