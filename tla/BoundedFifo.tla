----------------------------- MODULE BoundedFifo -----------------------------
(***************************************************************************)
(* What a single-producer single-consumer queue of the benchmark promises: *)
(* the consumer is handed the published messages, each exactly once and in *)
(* the order of publication, and at most Capacity published messages wait. *)
(* The two queues implemented in the repository (SPSC1, SPSC2) are shown   *)
(* to implement this specification.                                        *)
(***************************************************************************)
EXTENDS Integers, Sequences

CONSTANTS
  Msg,       (* the messages that may be published                         *)
  Capacity   (* how many published messages may wait to be received        *)

VARIABLES
  published, (* every message published so far, in order                   *)
  received   (* every message handed to the consumer so far, in order      *)

vars == <<published, received>>

-----------------------------------------------------------------------------

Init ==
  /\ published = << >>
  /\ received  = << >>

Publish(m) ==
  /\ Len(published) - Len(received) < Capacity
  /\ published' = Append(published, m)
  /\ UNCHANGED received

Deliver ==
  /\ Len(received) < Len(published)
  /\ received' = Append(received, published[Len(received) + 1])
  /\ UNCHANGED published

Next == (\E m \in Msg : Publish(m)) \/ Deliver

Spec == Init /\ [][Next]_vars

(* A consumer that keeps polling receives what was published.              *)
FairSpec == Spec /\ WF_vars(Deliver)
=============================================================================
