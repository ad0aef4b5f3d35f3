--------------------------- MODULE StreamPromise ---------------------------
(***************************************************************************)
(* What the browser may rely on, whatever the limits and the failures: a   *)
(* stream delivers the items its host produced one by one and in order; it *)
(* may stop short (cancelled, overflowed, socket lost), it may report an   *)
(* error, and it reports an end only after its last item.                  *)
(***************************************************************************)
EXTENDS Naturals

CONSTANT Streams

VARIABLES made,       \* items the host has produced for each stream
          delivered,  \* items handed to the browser's socket
          verdict     \* "none", "end" or "error", as told to the browser

vars == <<made, delivered, verdict>>

Init ==
  /\ made = [s \in Streams |-> 0]
  /\ delivered = [s \in Streams |-> 0]
  /\ verdict = [s \in Streams |-> "none"]

Produce(s) ==
  /\ made' = [made EXCEPT ![s] = @ + 1]
  /\ UNCHANGED <<delivered, verdict>>

Deliver(s) ==
  /\ verdict[s] = "none"
  /\ delivered[s] < made[s]
  /\ delivered' = [delivered EXCEPT ![s] = @ + 1]
  /\ UNCHANGED <<made, verdict>>

\* An item can reach the socket in the step that produces it.
ProduceAndDeliver(s) ==
  /\ verdict[s] = "none"
  /\ delivered[s] = made[s]
  /\ made' = [made EXCEPT ![s] = @ + 1]
  /\ delivered' = [delivered EXCEPT ![s] = @ + 1]
  /\ UNCHANGED verdict

End(s) ==
  /\ verdict[s] = "none"
  /\ delivered[s] = made[s]
  /\ verdict' = [verdict EXCEPT ![s] = "end"]
  /\ UNCHANGED <<made, delivered>>

Fail(s) ==
  /\ verdict[s] = "none"
  /\ verdict' = [verdict EXCEPT ![s] = "error"]
  /\ UNCHANGED <<made, delivered>>

\* The item that overflows a stream is produced, and its report may leave at once.
ProduceAndFail(s) ==
  /\ verdict[s] = "none"
  /\ made' = [made EXCEPT ![s] = @ + 1]
  /\ verdict' = [verdict EXCEPT ![s] = "error"]
  /\ UNCHANGED delivered

Next == \E s \in Streams :
          \/ Produce(s) \/ Deliver(s) \/ ProduceAndDeliver(s)
          \/ End(s) \/ Fail(s) \/ ProduceAndFail(s)

Spec == Init /\ [][Next]_vars
=============================================================================
