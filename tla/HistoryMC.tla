----------------------------- MODULE HistoryMC -----------------------------
(* What a history read passes: the gate that admits it and the assistant mirror  *)
(* that takes the baseline it captured.  They share no state, so a behaviour     *)
(* moves one of them only, and the states of the two add up.                     *)
EXTENDS AssistantStream, BootstrapGate
CONSTANTS r1, r2, r3, r4, s1
VARIABLE moving

MCRequests == {r1, r2, r3, r4}
MCSessions == {s1}
MCChunkSizes == {1, 2}

MCInit == Init /\ GateInit /\ moving \in {"mirror", "gate"}

InMirror == moving = "mirror" /\ UNCHANGED <<gateVars, moving>>
InGate == moving = "gate" /\ UNCHANGED <<vars, moving>>

MCNext ==
  \/ InMirror /\ Attach
  \/ \E s \in Sessions :
       \/ \E g \in 1..Len(agents[s]) :
            \/ InMirror /\ EmitStart(s, g)
            \/ InMirror /\ EmitChunk(s, g)
            \/ InMirror /\ EmitEnd(s, g)
       \/ InMirror /\ Recreate(s)
       \/ InMirror /\ Capture(s)
       \/ InMirror /\ Deliver(s)
       \/ InMirror /\ Subscribe(s)
       \/ InMirror /\ Discard(s)
  \/ \E r \in Requests :
       \/ \E s \in GateSessions \cup {NoSession} : InGate /\ Acquire(r, s)
       \/ InGate /\ Abort(r)
       \/ InGate /\ OnAbort(r)
       \/ InGate /\ Release(r)
  \/ InGate /\ Dispose

MCSpec == MCInit /\ [][MCNext]_<<vars, gateVars, moving>> /\ GateFairness
=============================================================================
