-------------------------- MODULE TimestampsProofs --------------------------
(***************************************************************************)
(* What vs_write_packet does to the stamps, for every input and all time   *)
(* bases: any times, any order, any of them missing.                       *)
(***************************************************************************)
EXTENDS Timestamps, TLAPS

-----------------------------------------------------------------------------
(* Rescaling.                                                              *)

\* The quotient of a division, by what it bounds.
LEMMA Quotient ==
    ASSUME NEW n \in Int, NEW k \in Nat \ {0}
    PROVE  n \div k \in Int /\ k * (n \div k) <= n /\ n < k * (n \div k + 1)
<1>1. /\ n \div k \in Int /\ n % k \in 0..k - 1
      /\ n = k * (n \div k) + (n % k)
  OBVIOUS
<1>2. k * (n \div k + 1) = k * (n \div k) + k
  BY <1>1
<1>3. QED
  BY <1>1, <1>2

\* Multiplying by a positive number keeps the order.
LEMMA ProductOrder ==
    ASSUME NEW a \in Int, NEW b \in Int, NEW k \in Nat, a <= b
    PROVE  k * a <= k * b
<1>1. b - a \in Nat /\ k * (b - a) \in Nat
  OBVIOUS
<1>2. k * (b - a) = k * b - k * a
  OBVIOUS
<1>3. k * a \in Int /\ k * b \in Int
  OBVIOUS
<1>4. QED
  BY <1>1, <1>2, <1>3

\* A quotient is at least every number whose multiple fits.
LEMMA QuotientAtLeast ==
    ASSUME NEW n \in Int, NEW k \in Nat \ {0}, NEW q \in Int, k * q <= n
    PROVE  q <= n \div k
<1> DEFINE d == n \div k
<1>1. d \in Int /\ n < k * (d + 1)
  BY Quotient
<1> HIDE DEF d
<1>2. SUFFICES ASSUME d + 1 <= q PROVE FALSE
  BY <1>1 DEF d
<1>3. k * (d + 1) <= k * q
  BY <1>1, <1>2, ProductOrder
<1>4. k * (d + 1) \in Int /\ k * q \in Int
  BY <1>1
<1>5. QED
  BY <1>1, <1>3, <1>4

\* Division keeps the order.
LEMMA QuotientOrder ==
    ASSUME NEW a \in Int, NEW b \in Int, NEW k \in Nat \ {0}, a <= b
    PROVE  a \div k <= b \div k
<1>1. a \div k \in Int /\ k * (a \div k) <= a /\ k * (a \div k) \in Int
  BY Quotient
<1>2. k * (a \div k) <= b
  BY <1>1
<1>3. QED
  BY <1>1, <1>2, QuotientAtLeast

\* The two factors of the conversion.
Ratio == Scale \in Nat \ {0} /\ Unit \in Nat \ {0}

LEMMA RatioFacts ==
    ASSUME inBase \in InBases, outBase \in OutBases
    PROVE  Ratio
<1>1. /\ inBase.num \in Nat \ {0} /\ inBase.den \in Nat \ {0}
      /\ outBase.num \in Nat \ {0} /\ outBase.den \in Nat \ {0}
  BY TimestampsAssumption
<1>2. \A m, n \in Nat \ {0} : m * n \in Nat \ {0}
  OBVIOUS
<1>3. QED
  BY <1>1, <1>2 DEF Ratio, Scale, Unit

\* Rounding gives a number, which is not negative for one that is not.
LEMMA RoundedFacts ==
    ASSUME Ratio, NEW n \in Int
    PROVE  /\ RoundedQuotient(n) \in Int
           /\ n >= 0 => RoundedQuotient(n) >= 0
<1>1. Unit \in Nat \ {0} /\ Unit \div 2 \in Nat
  BY DEF Ratio
<1>2. n + Unit \div 2 \in Int
  BY <1>1
<1>3. RoundedQuotient(n) \in Int
  BY <1>1, <1>2, Quotient DEF RoundedQuotient
<1>4. ASSUME n >= 0 PROVE RoundedQuotient(n) >= 0
  <2>1. Unit * 0 <= n + Unit \div 2
    BY <1>1, <1>4
  <2>2. QED
    BY <1>1, <1>2, <2>1, QuotientAtLeast DEF RoundedQuotient
<1>5. QED
  BY <1>3, <1>4

LEMMA RoundedOrder ==
    ASSUME Ratio, NEW a \in Int, NEW b \in Int, a <= b
    PROVE  RoundedQuotient(a) <= RoundedQuotient(b)
<1>1. Unit \in Nat \ {0} /\ Unit \div 2 \in Nat
  BY DEF Ratio
<1>2. a + Unit \div 2 \in Int /\ b + Unit \div 2 \in Int
      /\ a + Unit \div 2 <= b + Unit \div 2
  BY <1>1
<1>3. QED
  BY <1>1, <1>2, QuotientOrder DEF RoundedQuotient

\* Rescaling, of times.
LEMMA RescaleTimes ==
    ASSUME Ratio, NEW t \in Int
    PROVE  /\ Rescale(t) \in Int
           /\ Rescale(t) = IF t >= 0 THEN RoundedQuotient(t * Scale)
                           ELSE -RoundedQuotient((-t) * Scale)
<1>1. t * Scale \in Int /\ (-t) * Scale \in Int
  BY DEF Ratio
<1>2. t # NoPts
  BY TimestampsAssumption
<1>3. QED
  BY <1>1, <1>2, RoundedFacts DEF Rescale

\* Rescaling keeps the order of two times.
LEMMA RescaleOrder ==
    ASSUME Ratio, NEW a \in Int, NEW b \in Int, a <= b
    PROVE  Rescale(a) <= Rescale(b)
<1>1. Scale \in Nat \ {0}
  BY DEF Ratio
<1>2. CASE a >= 0
  <2>1. a * Scale <= b * Scale /\ a * Scale \in Int /\ b * Scale \in Int
    BY <1>1, <1>2, ProductOrder
  <2>2. QED
    BY <1>2, <2>1, RescaleTimes, RoundedOrder
<1>3. CASE b < 0
  <2>1. /\ (-b) * Scale <= (-a) * Scale
        /\ (-a) * Scale \in Int /\ (-b) * Scale \in Int
    <3>1. -b \in Int /\ -a \in Int /\ -b <= -a
      OBVIOUS
    <3>2. Scale * (-b) <= Scale * (-a)
      BY <1>1, <3>1, ProductOrder
    <3>3. QED
      BY <1>1, <3>1, <3>2
  <2>2. RoundedQuotient((-b) * Scale) <= RoundedQuotient((-a) * Scale)
    BY <2>1, RoundedOrder
  <2>3. QED
    BY <1>3, <2>1, <2>2, RescaleTimes, RoundedFacts
<1>4. CASE a < 0 /\ b >= 0
  <2>1. /\ (-a) * Scale \in Int /\ (-a) * Scale >= 0
        /\ b * Scale \in Int /\ b * Scale >= 0
    BY <1>1, <1>4
  <2>2. QED
    BY <1>4, <2>1, RescaleTimes, RoundedFacts
<1>5. QED
  BY <1>2, <1>3, <1>4

\* In a time base at least as fine a time is not a smaller number.
LEMMA RescaleFiner ==
    ASSUME Ratio, Scale >= Unit, NEW t \in Nat
    PROVE  Rescale(t) >= t
<1>1. Scale \in Nat \ {0} /\ Unit \in Nat \ {0} /\ Unit \div 2 \in Nat
  BY DEF Ratio
<1>2. t * Unit <= t * Scale /\ t * Scale \in Int /\ t * Unit \in Int
  BY <1>1, ProductOrder
<1>3. Unit * t <= t * Scale + Unit \div 2
  BY <1>1, <1>2
<1>4. t <= RoundedQuotient(t * Scale)
  BY <1>1, <1>2, <1>3, QuotientAtLeast DEF RoundedQuotient
<1>5. QED
  BY <1>1, <1>2, <1>4, RescaleTimes, RoundedFacts

\* In the same time base it is the same number.
LEMMA RescaleSame ==
    ASSUME Ratio, Scale = Unit, NEW t \in Int
    PROVE  Rescale(t) = t
<1>1. Scale \in Nat \ {0} /\ Unit = Scale
  BY DEF Ratio
<1>2. Unit \div 2 \in Nat /\ Unit \div 2 < Unit
  BY <1>1
<1>3. \A k \in Nat \ {0} : \A a \in Int, r \in Nat : r < k => (a * k + r) \div k = a
  OBVIOUS
<1>4. \A a \in Int : RoundedQuotient(a * Scale) = a
  BY <1>1, <1>2, <1>3 DEF RoundedQuotient
<1>5. QED
  BY <1>4, RescaleTimes

-----------------------------------------------------------------------------
(* One call.                                                               *)

\* A stamp is a time or missing.
LEMMA StampFacts ==
    ASSUME NEW p \in Packet
    PROVE  /\ p.pts \in Int \cup {NoPts} /\ p.dts \in Int \cup {NoPts}
           /\ p = [pts |-> p.pts, dts |-> p.dts]
  BY TimestampsAssumption DEF Packet, Stamps

\* What is handed to the muxer after the first packet: the dts is at least the
\* one asked for and at least one more than the last, before it is rescaled.
LEMMA Repaired ==
    ASSUME NEW p \in Packet, NEW last \in Int
    PROVE  LET q == Monotonic(p, last) IN
           /\ q.dts = IF p.dts = NoPts THEN last + 1 ELSE Larger(p.dts, last + 1)
           /\ q.dts \in Int /\ q.dts >= last + 1
           /\ q.pts \in Int \cup {NoPts}
           /\ WellFormed(p) => q.pts \in Int /\ q.pts >= q.dts
<1>1. /\ p.pts \in Int \cup {NoPts} /\ p.dts \in Int \cup {NoPts}
      /\ NoPts \notin Int /\ last # NoPts
  BY StampFacts, TimestampsAssumption
<1>2. CASE FixDts(p, last)
  BY <1>1, <1>2 DEF Monotonic, FixDts, FixedPts, Larger, WellFormed
<1>3. CASE ~FixDts(p, last)
  BY <1>1, <1>3 DEF Monotonic, FixDts, Larger, WellFormed
<1>4. QED
  BY <1>2, <1>3

\* Both stamps are set in the end, and those of a well-formed packet are in
\* order.
LEMMA OutFacts ==
    ASSUME Ratio, NEW p \in Packet, NEW last \in Int \cup {NoPts}
    PROVE  /\ OutPacket(p, last) \in [pts : Int, dts : Int]
           /\ last = NoPts => OutPacket(p, last).dts = OutStamp(p.dts)
           /\ last # NoPts =>
                OutPacket(p, last).dts = Rescale(Monotonic(p, last).dts)
           /\ WellFormed(p) => OutPacket(p, last).pts >= OutPacket(p, last).dts
<1> DEFINE q == Monotonic(p, last)
<1>1. NoPts \notin Int
  BY TimestampsAssumption
<1>2. \A t \in Int \cup {NoPts} : OutStamp(t) \in Int
  BY RescaleTimes DEF OutStamp
<1>3. OutPacket(p, last) = [pts |-> OutStamp(q.pts), dts |-> OutStamp(q.dts)]
  BY DEF OutPacket
<1>4. /\ q.pts \in Int \cup {NoPts} /\ q.dts \in Int \cup {NoPts}
      /\ last = NoPts => q = p
      /\ last # NoPts => q.dts \in Int
      /\ WellFormed(p) => q.pts \in Int /\ q.dts \in Int /\ q.pts >= q.dts
  <2>1. CASE last = NoPts
    BY <1>1, <2>1, StampFacts DEF Monotonic, FixDts, WellFormed
  <2>2. CASE last # NoPts
    <3>1. last \in Int
      BY <2>2
    <3>2. QED
      BY <1>1, <3>1, Repaired
  <2>3. QED
    BY <2>1, <2>2
<1> HIDE DEF q
<1>5. WellFormed(p) => OutStamp(q.pts) >= OutStamp(q.dts)
  BY <1>1, <1>4, RescaleOrder DEF OutStamp
<1>6. last # NoPts => OutStamp(q.dts) = Rescale(q.dts)
  BY <1>1, <1>4 DEF OutStamp
<1>7. /\ OutPacket(p, last).pts = OutStamp(q.pts)
      /\ OutPacket(p, last).dts = OutStamp(q.dts)
      /\ OutPacket(p, last) \in [pts : Int, dts : Int]
  <2>1. q.pts \in Int \cup {NoPts} /\ q.dts \in Int \cup {NoPts}
    BY <1>4
  <2>2. OutStamp(q.pts) \in Int /\ OutStamp(q.dts) \in Int
    BY <1>2, <2>1
  <2> DEFINE a == OutStamp(q.pts)
             b == OutStamp(q.dts)
  <2>3. OutPacket(p, last) = [pts |-> a, dts |-> b] /\ a \in Int /\ b \in Int
    BY <1>3, <2>2
  <2> HIDE DEF a, b
  <2>4. /\ OutPacket(p, last).pts = a /\ OutPacket(p, last).dts = b
        /\ OutPacket(p, last) \in [pts : Int, dts : Int]
    BY <2>3
  <2>5. QED
    BY <2>4 DEF a, b
<1>8. last = NoPts => OutPacket(p, last).dts = OutStamp(p.dts)
  BY <1>4, <1>7
<1>9. last # NoPts => OutPacket(p, last).dts = Rescale(Monotonic(p, last).dts)
  BY <1>6, <1>7 DEF q
<1>10. QED
  BY <1>5, <1>7, <1>8, <1>9

-----------------------------------------------------------------------------

\* The dts the next packet is compared with is that of the last frame, and the
\* last one the muxer took, unless it refused one.
Inv ==
    /\ TypeOK
    /\ writes = 0 => lastDts = NoPts /\ muxDts = NoPts /\ open
    /\ writes > 0 => lastDts = frame.dts
    /\ open => lastDts = muxDts

LEMMA InvFacts ==
    ASSUME Inv
    PROVE  /\ Ratio /\ writes \in Nat
           /\ writes = 0 => lastDts = NoPts
           /\ writes # 0 => lastDts \in Int /\ lastDts # NoPts /\ lastDts = frame.dts
<1>1. Ratio
  BY RatioFacts DEF Inv, TypeOK
<1>2. writes \in Nat
  BY TimestampsAssumption DEF Inv, TypeOK
<1>3. writes # 0 => frame \in [pts : Int, dts : Int]
  BY <1>2 DEF Inv, TypeOK
<1>4. QED
  BY <1>1, <1>2, <1>3, TimestampsAssumption DEF Inv

\* One call keeps the invariant ...
LEMMA InvStep ==
    ASSUME Inv, NEW p \in Packet, WritePacket(p)
    PROVE  Inv'
<1>1. lastDts \in Int \cup {NoPts} /\ Ratio /\ NoPts \notin Int
  BY InvFacts, TimestampsAssumption DEF Inv, TypeOK
<1>2. frame' \in [pts : Int, dts : Int]
  BY <1>1, OutFacts DEF WritePacket
<1>3. frame' # Unset
  BY <1>1, <1>2 DEF Unset
<1>4. TypeOK'
  BY <1>2, <1>3, TimestampsAssumption DEF Inv, TypeOK, WritePacket, MuxerAccepts, bases
<1>5. QED
  BY <1>4, InvFacts DEF Inv, WritePacket

\* ... so every state satisfies it.
LEMMA Invariance == Spec => []Inv
<1>1. Init => Inv
  BY TimestampsAssumption DEF Init, Inv, TypeOK, Packet, Stamps, Unset
<1>2. Inv /\ [Next]_vars => Inv'
  <2>1. ASSUME Inv, UNCHANGED vars PROVE Inv'
    BY <2>1 DEF vars, bases, Inv, TypeOK
  <2>2. QED
    BY <2>1, InvStep DEF Next
<1>3. QED
  BY <1>1, <1>2, PTL DEF Spec

\* Both stamps of every frame are set, whatever the time bases.
THEOREM TypeCorrect == Spec => []TypeOK
<1>1. Inv => TypeOK
  BY DEF Inv
<1>2. QED
  BY <1>1, Invariance, PTL

\* The dts handed to the muxer increase in every output whose time base is at
\* least as fine as the input's, once they are not negative.
THEOREM DtsIncrease == Spec => IncreasesInFineBase
<1> DEFINE Fine == Scale = Unit \/ (Scale > Unit /\ frame.dts >= 0)
<1>1. Inv /\ [Next]_vars => [writes > 0 /\ Fine => frame'.dts > frame.dts]_vars
  <2>1. ASSUME Inv, NEW p \in Packet, WritePacket(p), writes > 0, Fine
        PROVE  frame'.dts > frame.dts
    <3> DEFINE q == Monotonic(p, lastDts)
    <3>1. lastDts \in Int /\ lastDts # NoPts /\ lastDts = frame.dts /\ Ratio
      BY <2>1, InvFacts
    <3>2. q.dts \in Int /\ q.dts >= lastDts + 1
      BY <3>1, Repaired
    <3>3. frame'.dts = Rescale(q.dts)
      BY <2>1, <3>1, OutFacts DEF WritePacket
    <3> HIDE DEF q
    <3>4. Scale \in Int /\ Unit \in Int
      BY <3>1 DEF Ratio
    <3>5. CASE Scale = Unit
      BY <3>1, <3>2, <3>3, <3>5, RescaleSame
    <3>6. CASE Scale > Unit /\ frame.dts >= 0
      <4>1. q.dts \in Nat /\ Scale >= Unit
        BY <3>1, <3>2, <3>4, <3>6
      <4>2. Rescale(q.dts) >= q.dts /\ Rescale(q.dts) \in Int
        BY <3>1, <3>2, <4>1, RescaleFiner, RescaleTimes
      <4>3. QED
        BY <3>1, <3>2, <3>3, <4>2
    <3>7. QED
      BY <2>1, <3>5, <3>6
  <2>2. QED
    BY <2>1 DEF Next
<1>2. QED
  BY <1>1, Invariance, PTL DEF Spec, IncreasesInFineBase

\* The dts written is the packet's own, or that of one more than the last.
THEOREM DtsLeastChange == Spec => LeastChange
<1> DEFINE Least ==
      frame'.dts = IF writes = 0 THEN OutStamp(given'.dts)
                   ELSE IF given'.dts = NoPts THEN Rescale(frame.dts + 1)
                   ELSE Larger(Rescale(given'.dts), Rescale(frame.dts + 1))
<1>1. Inv /\ [Next]_vars => [Least]_vars
  <2>1. ASSUME Inv, NEW p \in Packet, WritePacket(p) PROVE Least
    <3>1. /\ given' = p /\ frame' = OutPacket(p, lastDts)
          /\ Ratio /\ lastDts \in Int \cup {NoPts} /\ NoPts \notin Int
      BY <2>1, InvFacts, TimestampsAssumption DEF Inv, TypeOK, WritePacket
    <3>2. CASE writes = 0
      BY <2>1, <3>1, <3>2, InvFacts, OutFacts
    <3>3. CASE writes # 0
      <4>1. lastDts \in Int /\ lastDts = frame.dts /\ lastDts # NoPts
        BY <2>1, <3>3, InvFacts
      <4>2. frame'.dts = Rescale(IF p.dts = NoPts THEN lastDts + 1
                                 ELSE Larger(p.dts, lastDts + 1))
        BY <3>1, <4>1, OutFacts, Repaired
      <4>3. CASE p.dts = NoPts
        BY <3>1, <3>3, <4>1, <4>2, <4>3
      <4>4. CASE p.dts # NoPts
        <5>1. p.dts \in Int /\ lastDts + 1 \in Int
          BY <4>1, <4>4, StampFacts
        <5>2. /\ Rescale(p.dts) \in Int /\ Rescale(lastDts + 1) \in Int
              /\ p.dts >= lastDts + 1 => Rescale(p.dts) >= Rescale(lastDts + 1)
              /\ p.dts < lastDts + 1 => Rescale(p.dts) <= Rescale(lastDts + 1)
          BY <3>1, <5>1, RescaleTimes, RescaleOrder
        <5>3. Rescale(Larger(p.dts, lastDts + 1))
                = Larger(Rescale(p.dts), Rescale(lastDts + 1))
          BY <5>1, <5>2 DEF Larger
        <5>4. QED
          BY <3>1, <3>3, <4>1, <4>2, <4>4, <5>3
      <4>5. QED
        BY <4>3, <4>4
    <3>4. QED
      BY <3>2, <3>3
  <2>2. QED
    BY <2>1 DEF Next
<1>2. QED
  BY <1>1, Invariance, PTL DEF Spec, LeastChange

\* A well-formed packet is refused for its dts or not at all: its pts is never
\* left behind, whatever the time bases.
THEOREM WellFormedInOrder == Spec => OnlyIllFormedEnds
<1> DEFINE Ends == open /\ ~open' => \/ ~WellFormed(given')
                                     \/ writes > 0 /\ frame'.dts <= frame.dts
<1>1. Inv /\ [Next]_vars => [Ends]_vars
  <2>1. ASSUME Inv, NEW p \in Packet, WritePacket(p), open, WellFormed(p), ~open'
        PROVE  writes > 0 /\ frame'.dts <= frame.dts
    <3>1. /\ frame' = OutPacket(p, lastDts) /\ ~MuxerAccepts(frame')
          /\ Ratio /\ lastDts \in Int \cup {NoPts} /\ lastDts = muxDts
          /\ writes \in Nat
      BY <2>1, InvFacts DEF Inv, TypeOK, WritePacket
    <3>2. frame' \in [pts : Int, dts : Int] /\ frame'.pts >= frame'.dts
      BY <2>1, <3>1, OutFacts
    <3>3. muxDts # NoPts /\ ~(frame'.dts > muxDts)
      BY <3>1, <3>2, TimestampsAssumption DEF MuxerAccepts
    <3>4. writes # 0 /\ muxDts = frame.dts /\ muxDts \in Int
      BY <2>1, <3>1, <3>3, InvFacts
    <3>5. QED
      BY <3>1, <3>2, <3>3, <3>4
  <2>2. \A p \in Packet : WritePacket(p) => given' = p
    BY DEF WritePacket
  <2>3. QED
    BY <2>1, <2>2 DEF Next
<1>2. QED
  BY <1>1, Invariance, PTL DEF Spec, OnlyIllFormedEnds
=============================================================================
