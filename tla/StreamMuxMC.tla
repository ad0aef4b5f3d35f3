---------------------------- MODULE StreamMuxMC ----------------------------
(* StreamMux on two streams, with sizes that reach every limit. *)
EXTENDS StreamMux
MCStreams == 1..2
MCSizes == {1, 3}
MCErrorSizes == {1, 3}
=============================================================================
