------------------------- MODULE StreamerProperties -------------------------
(***************************************************************************)
(* What must hold of the daemon of module Streamer.                        *)
(***************************************************************************)
EXTENDS Streamer

-----------------------------------------------------------------------------
(* Safety.                                                                 *)

\* A client's Output and pipe, and the Input its packetWriter was given, are
\* not torn down while vs_write_packet is using them: that is what the two
\* RWMutexes are for (Client.mutex, "Destroying it when we clean up the client
\* can race with packetWriter()", and destroyInput).
NotDestroyedInUse ==
    [][\A c \in Clients : wpc[c] \in {"write", "flush"} /\ Usable(c)
          => /\ output'[c] /\ outPipe'[c] = outPipe[c]
             /\ winput[c] \in live']_vars

\* No packet copy is leaked or freed twice, although the encoder, the
\* packetWriter and the drain in cleanupClient all free copies: the copies
\* allocated are those in the channel and the one in the writer's hand, and
\* nothing stays in a channel cleanupClient is done with.
PacketsConserved ==
    \A c \in Clients :
        /\ alive[c] = Range(buf[c]) \cup Range(hand[c])
        /\ Range(buf[c]) \cap Range(hand[c]) = {}
        /\ chan[c] = "dropped" => buf[c] = <<>>

\* At most one Input is connected, it is the encoder's, and none is when the
\* encoder waits for a first client or has returned (README: "it opens at most
\* one connection to the input"; encoder, "If we get down to zero clients,
\* close the input").
OneConnection ==
    /\ live \subseteq {input}
    /\ epc = "done" => live = {}
    /\ epc = "top" /\ clients = <<>> => input = 0 /\ live = {}

\* The clients the encoder will still send to, or clean up.
Listed ==
    IF epc \in {"top", "input", "read", "inputlock", "inputwait"}
      THEN Range(clients)
      ELSE Range(todo) \cup (IF quitting THEN {} ELSE Range(kept))

\* A listed client with an open output was set up against the Input in use:
\* after the input is closed for lack of clients and opened again, no client's
\* packetWriter still refers to the old one.
WritersFollowInput ==
    ~quitting => \A c \in Listed :
                    output[c] => winput[c] = input /\ input \in live

\* A handler that waits on its pipe is known to the encoder until the write
\* side is closed, so its viewer gets packets or an EOF, whichever way the
\* client was dropped (a failed copy, a full channel, the end of the encoder).
NoStrandedHandler ==
    \A c \in Clients :
        hpc[c] \in {"reading", "writing"} /\ outPipe[c] => c \in Listed

\* writePacketToClients: "we do not want the encoder to block waiting on a
\* write to the write side of the pipe because there is a slow HTTP client".
\* The encoder never waits for a mutex held by a packetWriter that itself waits
\* for the viewer to empty a full pipe.
EncoderNeverWaitsOnViewer ==
    \A c \in Clients :
        wpc[c] = "flush" /\ hpc[c] # "done" /\ Len(pipe[c]) >= PipeCap
            => ~(epc \in {"lockwait", "cleanwait"} /\ cur = c)

\* A viewer is only ever sent what was written for it: the header and packets
\* of its own output, never bytes of another client's.
OwnStreamOnly == \A c \in Clients : Trailer \notin Range(sent[c])

-----------------------------------------------------------------------------
(* Liveness, of FairSpec.                                                  *)

\* The encoder always gets back to its list of clients and to the input, or
\* returns: no lock it takes, and no client it serves or drops, stops it for
\* good while viewers keep reading or leave.
EncoderKeepsUp == []<>(epc \in {"top", "done"})

\* (The next three say of something that must end that again and again it is not
\* there.  As each client requests once, and nothing of this begins again for it,
\* this is to say of each that it leads to its end.)

\* A request waiting on ClientChan is taken, unless the encoder returned.
ViewerAdmitted ==
    []<>(epc = "done" \/ \A c \in Clients : hpc[c] # "sending")

\* When the encoder has returned, every handler it had admitted ends.
AdmittedHandlersEnd ==
    []<>(epc = "done" => \A c \in Clients : hpc[c] \notin {"reading", "writing"})

\* A packetWriter that is ranging over its channel ends once the channel is
\* closed, whichever of it and cleanupClient drains the channel.
RangingWriterEnds ==
    []<>(\A c \in Clients :
           chan[c] \in {"closed", "dropped"} /\ wpc[c] \notin {"start", "nilchan"}
             => wpc[c] = "done")

\* packetWriter: "We end when encoder closes the channel, or if we encounter a
\* write error."  Every packetWriter ends once its channel is closed.
WriterEnds ==
    \A c \in Clients : chan[c] \in {"closed", "dropped"} ~> wpc[c] = "done"

\* writePacketToClients: "If we fail, we clean up the client and it will not be
\* in the returned list of clients."  A client whose output could not be opened
\* has its pipe closed.
FailedClientCleanedUp ==
    \A c \in Clients : (wlock = c /\ epc = "clean") ~> ~outPipe[c]

-----------------------------------------------------------------------------
(* The daemon implements StreamService.                                    *)

Phase(h) == CASE h = "idle" -> "absent"
              [] h = "sending" -> "waiting"
              [] h \in {"reading", "writing"} -> "viewing"
              [] h = "done" -> "gone"
              [] h = "refused" -> "refused"

Service == INSTANCE StreamService WITH
    Viewers    <- Clients,
    Source     <- Packets,
    phase      <- [c \in Clients |-> Phase(hpc[c])],
    got        <- sent,
    read       <- packet,
    sourceOpen <- live # {}

\* Every viewer gets a header, then consecutive packets, over one connection
\* to the source that is made only for viewers.  (Without FdReuse: a trailer is
\* no packet of the stream, see OwnStreamOnly.)
ImplementsService == Service!Spec
=============================================================================
