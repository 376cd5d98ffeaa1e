----------------------------- MODULE MCStreamer -----------------------------
(***************************************************************************)
(* Small instances of Streamer for TLC.                                    *)
(***************************************************************************)
EXTENDS StreamerProperties, TLC

\* Clients differ only in name.
ClientSymmetry == Permutations(Clients)
=============================================================================
