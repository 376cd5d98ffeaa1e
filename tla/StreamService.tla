--------------------------- MODULE StreamService ---------------------------
(***************************************************************************)
(* What the daemon promises, without its goroutines: viewers come, are     *)
(* admitted, get one MP4 stream each and go; there is one connection to    *)
(* the source, opened for viewers, and packets are read from it in order.  *)
(*                                                                         *)
(* A viewer's stream is a header, then consecutive packets of the source.  *)
(* The service may end a viewer's stream at any time (a slow viewer is     *)
(* dropped), but never skips, repeats or reorders what it sends.           *)
(***************************************************************************)
EXTENDS Integers, Sequences

CONSTANTS
    Viewers,
    Source      \* the numbers packets are given, from 1

VARIABLES phase,        \* of each viewer
          got,          \* what each viewer was sent; 0 is the header
          read,         \* the last packet read from the source
          sourceOpen    \* there is a connection to the source

vars == <<phase, got, read, sourceOpen>>

Init ==
    /\ phase = [v \in Viewers |-> "absent"]
    /\ got = [v \in Viewers |-> <<>>]
    /\ read = 0
    /\ sourceOpen = FALSE

Moves(v, from, to) ==
    /\ phase[v] = from
    /\ phase' = [phase EXCEPT ![v] = to]
    /\ UNCHANGED <<got, read, sourceOpen>>

Arrive(v)  == Moves(v, "absent", "waiting")
Refuse(v)  == Moves(v, "absent", "refused")
Admit(v)   == Moves(v, "waiting", "viewing")
Leave(v)   == Moves(v, "viewing", "gone")

\* What may follow g: the header, any packet already read, then the next one.
Following(g) ==
    IF g = <<>> THEN {0}
    ELSE IF Len(g) = 1 THEN 1..read
    ELSE {g[Len(g)] + 1} \cap 1..read

\* Nothing is sent before the source has produced a packet.
Deliver(v) ==
    /\ phase[v] = "viewing" /\ read > 0
    /\ \E x \in Following(got[v]) : got' = [got EXCEPT ![v] = Append(@, x)]
    /\ UNCHANGED <<phase, read, sourceOpen>>

\* The source is connected to only for somebody who was admitted and not yet
\* sent anything.
OpenSource ==
    /\ ~sourceOpen
    /\ \E v \in Viewers : phase[v] \in {"viewing", "gone"} /\ got[v] = <<>>
    /\ sourceOpen' = TRUE
    /\ UNCHANGED <<phase, got, read>>

ReadPacket ==
    /\ sourceOpen /\ read + 1 \in Source
    /\ read' = read + 1
    /\ UNCHANGED <<phase, got, sourceOpen>>

CloseSource ==
    /\ sourceOpen
    /\ sourceOpen' = FALSE
    /\ UNCHANGED <<phase, got, read>>

Next ==
    \/ OpenSource \/ ReadPacket \/ CloseSource
    \/ \E v \in Viewers : \/ Arrive(v) \/ Refuse(v) \/ Admit(v)
                          \/ Deliver(v) \/ Leave(v)

Spec == Init /\ [][Next]_vars
=============================================================================
