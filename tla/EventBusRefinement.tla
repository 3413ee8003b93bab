------------------------- MODULE EventBusRefinement -------------------------
(***************************************************************************)
(* The event bus implements the ordered feed: the history copy and the     *)
(* queue together are one stream of frames without gaps or repetitions.    *)
(***************************************************************************)
EXTENDS ExecutionEventBus

At(s) == CASE phase[s] = "idle" -> "out"
           [] phase[s] \in {"replaying", "live"} -> "in"
           [] phase[s] \in {"closing", "closed"} -> "gone"

Feed == INSTANCE OrderedFeed WITH
            Readers <- Streams, Closes <- LAMBDA f : f \in Marked,
            log <- published, start <- from, given <- sent, lost <- dropped,
            at <- [s \in Streams |-> At(s)]

(* Whatever publishers, streams and disconnecting clients do, a client is  *)
(* given the frames of the execution in order, without repetition, and     *)
(* without a gap other than the frames that found its queue full           *)
(* (subscribe_to_execution, publish_execution_event,                       *)
(* stream_execution_events).                                               *)
BusIsFeed == Feed!Spec
=============================================================================
