------------------------- MODULE ExecutionEventBus -------------------------
(***************************************************************************)
(* The in-process event bus that carries the progress of one test-suite    *)
(* execution from the executor thread to the server-sent-event streams     *)
(* (app/elaborations/services/suite_runs/execution_event_bus.py).          *)
(*                                                                         *)
(* The bus keeps its state per execution id and never relates two ids, so  *)
(* the module is about one execution.  Its only publisher is the thread    *)
(* that runs the execution: the id travels in a context variable, which a  *)
(* new thread does not inherit.  Each stream is one run of the generator   *)
(* stream_execution_events.                                                *)
(*                                                                         *)
(* A frame is represented by its publication number; published[n] holds    *)
(* what the bus can tell apart in its text.                                *)
(***************************************************************************)
EXTENDS Naturals, Sequences

CONSTANTS
    Streams,      \* runs of stream_execution_events
    Frame,        \* what a frame's text can say
    Marked,       \* the frames whose text contains "event: execution_finished":
                  \* that event, and any whose payload happens to quote it
    HistorySize,  \* _EVENT_HISTORY_SIZE, the maxlen of the history deque
    QueueSize,    \* _QUEUE_SIZE, the capacity of a subscriber's queue
    MaxFrames     \* bound: frames published in a behaviour

ASSUME BusAssumption ==   /\ Marked \subseteq Frame
                          /\ HistorySize \in Nat \ {0}
                          /\ QueueSize \in Nat \ {0}
                          /\ MaxFrames \in Nat

VARIABLES
    published,    \* every frame published so far (ghost)
    history,      \* _HISTORY[execution_id]
    subscribers,  \* _SUBSCRIBERS[execution_id], as a set of streams
    pending,      \* streams of the publisher's snapshot not yet served
    phase,        \* where each generator stands
    replay,       \* the rest of the history copy a generator iterates over
    finished,     \* its local finished_in_history
    queue,        \* its subscriber queue
    sent,         \* the frames it has yielded (ghost)
    dropped,      \* the frames that found its queue full (ghost)
    from          \* the first frame it can be expected to yield (ghost)

busVars == <<published, history, subscribers, pending>>
streamVars == <<phase, replay, finished, queue, sent, dropped, from>>
vars == <<busVars, streamVars>>

-----------------------------------------------------------------------------

Phases == {"idle", "replaying", "live", "closing", "closed"}

\* The test  "event: execution_finished" in frame  of the generator.
Finishes(n) == published[n] \in Marked

\* Mutant: a deque without maxlen.
AppendUnbounded(d, n) == Append(d, n)

\* Mutant: a deque that evicts one element too early.
AppendShort(d, n) == IF Len(d) + 1 < HistorySize \/ d = <<>>
                       THEN Append(d, n) ELSE Append(Tail(d), n)

\* deque(maxlen=HistorySize).append
AppendBounded(d, n) == IF Len(d) < HistorySize THEN Append(d, n)
                                               ELSE Append(Tail(d), n)

Elems(q) == {q[i] : i \in 1..Len(q)}

-----------------------------------------------------------------------------

Init ==
    /\ published = <<>>
    /\ history = <<>>
    /\ subscribers = {}
    /\ pending = {}
    /\ phase = [s \in Streams |-> "idle"]
    /\ replay = [s \in Streams |-> <<>>]
    /\ finished = [s \in Streams |-> FALSE]
    /\ queue = [s \in Streams |-> <<>>]
    /\ sent = [s \in Streams |-> <<>>]
    /\ dropped = [s \in Streams |-> {}]
    /\ from = [s \in Streams |-> 0]

\* Mutant: only the streams that already read their queue are served.
PublishToLive(f) ==
    /\ pending = {}
    /\ Len(published) < MaxFrames
    /\ published' = Append(published, f)
    /\ history' = AppendBounded(history, Len(published) + 1)
    /\ pending' = {s \in subscribers : phase[s] = "live"}
    /\ UNCHANGED <<subscribers, streamVars>>

\* publish_execution_event, under the lock: the frame enters the history and
\* the subscribers are copied.
Publish(f) ==
    /\ pending = {}
    /\ Len(published) < MaxFrames
    /\ published' = Append(published, f)
    /\ history' = AppendBounded(history, Len(published) + 1)
    /\ pending' = subscribers
    /\ UNCHANGED <<subscribers, streamVars>>

\* publish_execution_event, after the lock: put_nowait to one stream of the
\* copy; a full queue loses the frame.
Put(s) ==
    /\ s \in pending
    /\ pending' = pending \ {s}
    /\ IF Len(queue[s]) < QueueSize
         THEN /\ queue' = [queue EXCEPT ![s] = Append(@, Len(published))]
              /\ UNCHANGED dropped
         ELSE /\ dropped' = [dropped EXCEPT ![s] = @ \cup {Len(published)}]
              /\ UNCHANGED queue
    /\ UNCHANGED <<published, history, subscribers,
                   phase, replay, finished, sent, from>>

\* Mutant: the publisher iterates over the subscriber list itself, not a copy,
\* so a stream that registers meanwhile is served too.
SubscribeIntoLoop(s) ==
    /\ phase[s] = "idle"
    /\ phase' = [phase EXCEPT ![s] = "replaying"]
    /\ subscribers' = subscribers \cup {s}
    /\ pending' = IF pending = {} THEN {} ELSE pending \cup {s}
    /\ replay' = [replay EXCEPT ![s] = history]
    /\ from' = [from EXCEPT ![s] = Len(published) + 1 - Len(history)]
    /\ UNCHANGED <<published, history, finished, queue, sent, dropped>>

\* subscribe_to_execution: registration and history copy are one critical
\* section.
Subscribe(s) ==
    /\ phase[s] = "idle"
    /\ phase' = [phase EXCEPT ![s] = "replaying"]
    /\ subscribers' = subscribers \cup {s}
    /\ replay' = [replay EXCEPT ![s] = history]
    /\ from' = [from EXCEPT ![s] = Len(published) + 1 - Len(history)]
    /\ UNCHANGED <<published, history, pending, finished, queue, sent, dropped>>

\* One turn of the loop over the history copy.
ReplayFrame(s) ==
    /\ phase[s] = "replaying"
    /\ replay[s] # <<>>
    /\ sent' = [sent EXCEPT ![s] = Append(@, Head(replay[s]))]
    /\ finished' = [finished EXCEPT ![s] = @ \/ Finishes(Head(replay[s]))]
    /\ replay' = [replay EXCEPT ![s] = Tail(@)]
    /\ UNCHANGED <<busVars, phase, queue, dropped, from>>

\* Mutant: the generator goes live whatever the history said.
ReplayDoneGoesLive(s) ==
    /\ phase[s] = "replaying"
    /\ replay[s] = <<>>
    /\ phase' = [phase EXCEPT ![s] = "live"]
    /\ UNCHANGED <<busVars, replay, finished, queue, sent, dropped, from>>

\* The end of that loop: return if a frame said finished, else go live.
ReplayDone(s) ==
    /\ phase[s] = "replaying"
    /\ replay[s] = <<>>
    /\ phase' = [phase EXCEPT ![s] = IF finished[s] THEN "closing" ELSE "live"]
    /\ UNCHANGED <<busVars, replay, finished, queue, sent, dropped, from>>

\* One turn of the live loop that gets a frame; a finishing one breaks it.
LiveFrame(s) ==
    /\ phase[s] = "live"
    /\ queue[s] # <<>>
    /\ sent' = [sent EXCEPT ![s] = Append(@, Head(queue[s]))]
    /\ queue' = [queue EXCEPT ![s] = Tail(@)]
    /\ phase' = [phase EXCEPT ![s] = IF Finishes(Head(queue[s]))
                                       THEN "closing" ELSE "live"]
    /\ UNCHANGED <<busVars, replay, finished, dropped, from>>

\* One turn of the live loop that times out; a heartbeat is no frame.
Heartbeat(s) ==
    /\ phase[s] = "live"
    /\ queue[s] = <<>>
    /\ UNCHANGED vars

\* The client goes away: the generator is closed at one of its yields.
Disconnect(s) ==
    /\ phase[s] \in {"replaying", "live"}
    /\ phase' = [phase EXCEPT ![s] = "closing"]
    /\ UNCHANGED <<busVars, replay, finished, queue, sent, dropped, from>>

\* Mutant: the generator ends without unsubscribing.
EndSubscribed(s) ==
    /\ phase[s] = "closing"
    /\ phase' = [phase EXCEPT ![s] = "closed"]
    /\ UNCHANGED <<busVars, replay, finished, queue, sent, dropped, from>>

\* The finally clause: unsubscribe_from_execution.
Unsubscribe(s) ==
    /\ phase[s] = "closing"
    /\ phase' = [phase EXCEPT ![s] = "closed"]
    /\ subscribers' = subscribers \ {s}
    /\ UNCHANGED <<published, history, pending,
                   replay, finished, queue, sent, dropped, from>>

-----------------------------------------------------------------------------

\* What a generator does by itself once its client keeps reading.
StreamStep(s) == ReplayFrame(s) \/ ReplayDone(s) \/ LiveFrame(s) \/ Unsubscribe(s)

Next ==
    \/ \E f \in Frame : Publish(f)
    \/ \E s \in Streams :
          \/ Put(s)
          \/ Subscribe(s)
          \/ ReplayFrame(s)
          \/ ReplayDone(s)
          \/ LiveFrame(s)
          \/ Heartbeat(s)
          \/ Disconnect(s)
          \/ Unsubscribe(s)

Spec == Init /\ [][Next]_vars

(* The publisher's loop over its copy never blocks (put_nowait), and a     *)
(* stream whose client reads is driven by the server's thread pool.        *)
Fairness == \A s \in Streams : WF_vars(Put(s)) /\ WF_vars(StreamStep(s))

FairSpec == Spec /\ Fairness

-----------------------------------------------------------------------------

\* Every variable has the shape the code gives it, and the deque and the
\* queues respect their maxlen and maxsize.
TypeOK ==
    /\ published \in Seq(Frame)
    /\ history \in Seq(Nat) /\ Len(history) <= HistorySize
    /\ subscribers \in SUBSET Streams
    /\ pending \in SUBSET Streams
    /\ phase \in [Streams -> Phases]
    /\ replay \in [Streams -> Seq(Nat)]
    /\ finished \in [Streams -> BOOLEAN]
    /\ queue \in [Streams -> Seq(Nat)]
    /\ \A s \in Streams : Len(queue[s]) <= QueueSize
    /\ sent \in [Streams -> Seq(Nat)]
    /\ dropped \in [Streams -> SUBSET Nat]
    /\ from \in [Streams -> Nat]

Increasing(q) == \A i, j \in 1..Len(q) : i < j => q[i] < q[j]

(* A client sees the frames in the order of publication and none of them   *)
(* twice, although one frame can reach a stream on two paths: the history  *)
(* copy and the queue (subscribe_to_execution against                      *)
(* publish_execution_event).                                               *)
InOrder == \A s \in Streams : Increasing(sent[s])

(* A stream that is still reading has lost nothing silently: every frame   *)
(* from the start of its history copy on has been yielded, is still to be  *)
(* replayed, waits in the queue, is being handed over by the publisher, or *)
(* was dropped on a full queue.                                            *)
NoSilentLoss ==
    \A s \in Streams : phase[s] \in {"replaying", "live"} =>
        \A n \in from[s]..Len(published) :
            \/ n \in Elems(sent[s]) \cup Elems(replay[s]) \cup Elems(queue[s])
            \/ n \in dropped[s]
            \/ s \in pending /\ n = Len(published)

(* What a late subscriber replays is the whole execution so far, unless    *)
(* more than HistorySize frames had been published by then.                *)
ReplaysFromTheStart ==
    \A s \in Streams : phase[s] # "idle" =>
        \/ from[s] = 1
        \/ /\ from[s] > 1
           /\ Len(published) >= from[s] + HistorySize - 1

(* Once a generator has ended (its finally clause ran) no later publication *)
(* serves it: at most the put that was under way can still reach its queue. *)
ClosedIsQuiet ==
    [][\A s \in Streams :
          phase[s] = "closed" /\ s \notin pending => s \notin pending']_vars

(* A stream that is due a finishing frame, from its history copy or from   *)
(* the publisher, ends; only one that dropped it on a full queue may stay  *)
(* open.                                                                   *)
FinishEndsStreams ==
    \A s \in Streams : \A n \in 1..MaxFrames :
        (/\ phase[s] \in {"replaying", "live"}
         /\ n \in from[s]..Len(published)
         /\ Finishes(n)
         /\ n \notin dropped[s])
          ~> (phase[s] = "closed" \/ n \in dropped[s])
=============================================================================
