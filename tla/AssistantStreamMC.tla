-------------------------- MODULE AssistantStreamMC --------------------------
(* AssistantStream on small sets of sessions and frames. *)
EXTENDS AssistantStream
MCChunkSizes == {1, 2}
=============================================================================
