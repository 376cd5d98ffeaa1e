----------------------------- MODULE Timestamps -----------------------------
(***************************************************************************)
(* The timestamps of one output: vs_write_packet of videostreamer.c, which *)
(* one packetWriter calls for one client's packets in order, on top of the *)
(* muxer's av_write_frame.                                                 *)
(*                                                                         *)
(* A packet is its pts and dts, each a time in the input's time base or    *)
(* NoPts, AV_NOPTS_VALUE.  (That is INT64_MIN, below every time where the  *)
(* code compares it.)  Times are integers without a width.  The time bases *)
(* are those of the input's and of the output's stream, which the demuxer  *)
(* and the muxer choose; nothing makes them equal.                         *)
(*                                                                         *)
(* A definition named Slip_X is X with a plausible mistake in it; nothing  *)
(* uses it.  Replacing X by it shows that a property notices the mistake.  *)
(***************************************************************************)
EXTENDS Integers

CONSTANTS
    Times,              \* times a packet of the input may carry
    NoPts,              \* AV_NOPTS_VALUE
    InBases, OutBases,  \* time bases of their streams
    MaxWrites           \* bound: packets written

ASSUME TimestampsAssumption ==
    /\ NoPts \notin Int
    /\ Times \subseteq Int
    /\ InBases \cup OutBases \subseteq [num : Nat \ {0}, den : Nat \ {0}]
    /\ MaxWrites \in Nat

Stamps == Times \cup {NoPts}
Packet == [pts : Stamps, dts : Stamps]
Unset  == [pts |-> NoPts, dts |-> NoPts]

VARIABLES
    inBase,     \* in_stream->time_base
    outBase,    \* out_stream->time_base
    lastDts,    \* output->last_dts
    given,      \* the packet last read for this output, as it came
    frame,      \* the packet last passed to av_write_frame
    muxDts,     \* dts of the last frame the muxer accepted
    writes,     \* calls of vs_write_packet
    open        \* the packetWriter is still writing

bases == <<inBase, outBase>>
vars == <<bases, lastDts, given, frame, muxDts, writes, open>>

TypeOK ==
    /\ inBase \in InBases /\ outBase \in OutBases
    /\ lastDts \in Int \cup {NoPts} /\ muxDts \in Int \cup {NoPts}
    /\ given \in Packet
    /\ frame = Unset \/ frame \in [pts : Int, dts : Int]
    /\ writes \in 0..MaxWrites
    /\ open \in BOOLEAN
    /\ writes > 0 => frame # Unset

Init ==
    /\ inBase \in InBases /\ outBase \in OutBases
    /\ lastDts = NoPts /\ muxDts = NoPts
    /\ given = Unset /\ frame = Unset
    /\ writes = 0
    /\ open = TRUE

-----------------------------------------------------------------------------
(* The computation.                                                        *)

Larger(a, b) == IF a >= b THEN a ELSE b

\* av_rescale_q_rnd from the input's to the output's time base, to nearest,
\* halves away from zero; NoPts passes through.
Scale == inBase.num * outBase.den
Unit  == inBase.den * outBase.num
RoundedQuotient(n) == (n + Unit \div 2) \div Unit

Rescale(t) ==
    IF t = NoPts THEN NoPts
    ELSE IF t >= 0 THEN RoundedQuotient(t * Scale)
    ELSE -RoundedQuotient((-t) * Scale)

\* A repeated dts goes through.
Slip_FixDts(p, last) == last # NoPts /\ (p.dts = NoPts \/ p.dts < last)

\* A missing dts goes through.
Slip_FixDtsUnset(p, last) == last # NoPts /\ p.dts # NoPts /\ p.dts <= last

\* A dts that does not exceed the last one, or is missing after the first
\* packet, is replaced.
FixDts(p, last) == last # NoPts /\ (p.dts = NoPts \/ p.dts <= last)

\* The pts is left behind the new dts.
Slip_FixedPts(p, next) == IF p.pts = NoPts THEN next ELSE p.pts

\* The pts that goes with a replaced dts.
FixedPts(p, next) ==
    IF p.pts = NoPts THEN next
    ELSE IF p.dts = NoPts \/ p.pts >= p.dts THEN Larger(p.pts, next)
    ELSE p.pts

Monotonic(p, last) ==
    IF FixDts(p, last)
      THEN [pts |-> FixedPts(p, last + 1), dts |-> last + 1]
      ELSE p

\* An unset stamp stays unset.
Slip_OutStamp(t) == Rescale(t)

\* A stamp still unset becomes 0, the others are rescaled.
OutStamp(t) == IF t = NoPts THEN 0 ELSE Rescale(t)

OutPacket(p, last) ==
    LET q == Monotonic(p, last)
    IN  [pts |-> OutStamp(q.pts), dts |-> OutStamp(q.dts)]

-----------------------------------------------------------------------------
(* The calls.                                                              *)

\* av_write_frame requires both stamps, dts to increase strictly, and pts not to
\* precede it.
MuxerAccepts(f) ==
    /\ f.pts # NoPts /\ f.dts # NoPts
    /\ muxDts = NoPts \/ f.dts > muxDts
    /\ f.pts >= f.dts

\* vs_write_packet for p.  The last dts is stored before the muxer is asked;
\* if that refuses, packetWriter ends.
WritePacket(p) ==
    /\ open /\ writes < MaxWrites
    /\ writes' = writes + 1
    /\ given' = p
    /\ frame' = OutPacket(p, lastDts)
    /\ lastDts' = frame'.dts
    /\ open' = MuxerAccepts(frame')
    /\ muxDts' = IF MuxerAccepts(frame') THEN frame'.dts ELSE muxDts
    /\ UNCHANGED bases

Next == \E p \in Packet : WritePacket(p)

Spec == Init /\ [][Next]_vars

-----------------------------------------------------------------------------
(* What must hold.                                                         *)

\* "av_write_frame() says that the dts must be strictly increasing": each
\* frame passed to the muxer has a greater dts than the one before it, however
\* the input's dts fluctuate or go missing.  This is what vs_write_packet is
\* meant to do.  It does not where the time bases differ: last_dts is in the
\* output's, and compared with stamps in the input's.
StrictlyIncreasing == [][writes > 0 => frame'.dts > frame.dts]_vars

\* It does in an output whose time base is as fine as the input's, from the
\* first dts on that is not negative; with equal bases always.
IncreasesInFineBase ==
    [][writes > 0 /\ (Scale = Unit \/ (Scale > Unit /\ frame.dts >= 0))
         => frame'.dts > frame.dts]_vars

\* A packet that came with both stamps and its pts not before its dts is
\* refused for its dts or not at all, whatever the time bases: where the dts
\* is replaced the pts moves with it, and rescaling keeps their order (or the
\* muxer would answer "pts (3780) < dts (22531)").
WellFormed(p) == p.pts # NoPts /\ p.dts # NoPts /\ p.pts >= p.dts

OnlyIllFormedEnds ==
    [][open /\ ~open' => \/ ~WellFormed(given')
                         \/ writes > 0 /\ frame'.dts <= frame.dts]_vars

\* A dts is changed no more than the repair asks for: what is written is the
\* packet's own time, or that of one more than the last dts if that is later.
\* With equal time bases it is the least the muxer takes.
LeastChange ==
    [][frame'.dts =
         IF writes = 0 THEN OutStamp(given'.dts)
         ELSE IF given'.dts = NoPts THEN Rescale(frame.dts + 1)
         ELSE Larger(Rescale(given'.dts), Rescale(frame.dts + 1))]_vars
=============================================================================
