-------------------------- MODULE MockQueueListener --------------------------
(***************************************************************************)
(* The threads that feed the queue triggers of mock servers                *)
(* (mock_servers/services/runtime/mock_queue_listener_thread.py) and the   *)
(* queue they read.  Each round of a listener receives a batch, stores an  *)
(* invocation, executes the commands of the binding, and acknowledges the  *)
(* batch; other listeners, the visibility timeout of the queue and         *)
(* failures come in between.                                               *)
(***************************************************************************)
EXTENDS Naturals, FiniteSets

CONSTANTS Listeners,     \* listener threads reading the queue
          Messages,      \* messages sent to the queue
          MaxBatch,      \* max_messages of the binding, 1 .. 10
          WithContext,   \* listeners that see the tenant of the request that
                         \* started them: none on Python 3.13, where a new
                         \* thread starts with an empty context
          MaxCount,      \* the counters stop counting here
          MaxFaults      \* bound on failures of the broker and the database

ListenerAssumption ==
    /\ IsFiniteSet(Messages) /\ IsFiniteSet(Listeners)
    /\ MaxBatch \in 1 .. 10
    /\ WithContext \subseteq Listeners
    /\ MaxCount \in Nat \ {0} /\ MaxFaults \in Nat

VARIABLES queue,      \* queue[m]: unsent, visible, hidden or deleted
          pc,         \* pc[l]: where the loop of the listener is
          batch,      \* batch[l]: messages of the current round
          stop,       \* listeners asked to stop
          stored,     \* invocation rows per message
          executed,   \* executions of the commands per message
          expiries,   \* visibility timeouts so far, per message
          faults      \* failures so far

vars == <<queue, pc, batch, stop, stored, executed, expiries, faults>>

Places == {"poll", "received", "stored", "executed", "dead", "ended"}

TypeOK ==
    /\ queue \in [Messages -> {"unsent", "visible", "hidden", "deleted"}]
    /\ pc \in [Listeners -> Places]
    /\ batch \in [Listeners -> SUBSET Messages]
    /\ stop \subseteq Listeners
    /\ stored \in [Messages -> 0 .. MaxCount]
    /\ executed \in [Messages -> 0 .. MaxCount]
    /\ expiries \in [Messages -> 0 .. MaxCount]
    /\ faults \in 0 .. MaxFaults
    /\ \A l \in Listeners : batch[l] # {} => Cardinality(batch[l]) <= MaxBatch

Init ==
    /\ queue = [m \in Messages |-> "unsent"]
    /\ pc = [l \in Listeners |-> "poll"]
    /\ batch = [l \in Listeners |-> {}]
    /\ stop = {}
    /\ stored = [m \in Messages |-> 0]
    /\ executed = [m \in Messages |-> 0]
    /\ expiries = [m \in Messages |-> 0]
    /\ faults = 0

----------------------------------------------------------------------------
(* The queue, as the code uses it.                                         *)

Send(m) ==
    /\ queue[m] = "unsent"
    /\ queue' = [queue EXCEPT ![m] = "visible"]
    /\ UNCHANGED <<pc, batch, stop, stored, executed, expiries, faults>>

Up(n) == IF n < MaxCount THEN n + 1 ELSE n

(* A received message that is not deleted in time becomes visible again.   *)
Expire(m) ==
    /\ queue[m] = "hidden"
    /\ queue' = [queue EXCEPT ![m] = "visible"]
    /\ expiries' = [expiries EXCEPT ![m] = Up(@)]
    /\ UNCHANGED <<pc, batch, stop, stored, executed, faults>>

Hidden(S) == [m \in Messages |-> IF m \in S THEN "hidden" ELSE queue[m]]

(* ack_messages deletes one by one and goes on after a refusal.            *)
Deleted(S) == [m \in Messages |-> IF m \in S THEN "deleted" ELSE queue[m]]

Fault == faults < MaxFaults /\ faults' = faults + 1
NoFault == UNCHANGED faults

----------------------------------------------------------------------------
(* The loop of a listener.                                                 *)

Goes(l, place) == pc' = [pc EXCEPT ![l] = place]

(* receive_messages takes up to MaxBatch messages and prolongs the         *)
(* visibility timeout of each.                                             *)
Receive_NotHidden(l, S) ==
    /\ pc[l] = "poll" /\ l \notin stop /\ l \in WithContext
    /\ S # {} /\ Cardinality(S) <= MaxBatch
    /\ \A m \in S : queue[m] = "visible"
    /\ batch' = [batch EXCEPT ![l] = S]
    /\ Goes(l, "received")
    /\ NoFault
    /\ UNCHANGED <<queue, stop, stored, executed, expiries>>

Receive_Unlimited(l, S) ==
    /\ pc[l] = "poll" /\ l \notin stop /\ l \in WithContext
    /\ S # {}
    /\ \A m \in S : queue[m] = "visible"
    /\ queue' = Hidden(S)
    /\ batch' = [batch EXCEPT ![l] = S]
    /\ Goes(l, "received")
    /\ NoFault
    /\ UNCHANGED <<stop, stored, executed, expiries>>

Receive(l, S) ==
    /\ pc[l] = "poll" /\ l \notin stop /\ l \in WithContext
    /\ S # {} /\ Cardinality(S) <= MaxBatch
    /\ \A m \in S : queue[m] = "visible"
    /\ queue' = Hidden(S)
    /\ batch' = [batch EXCEPT ![l] = S]
    /\ Goes(l, "received")
    /\ NoFault
    /\ UNCHANGED <<stop, stored, executed, expiries>>

(* The receive call raises, before the broker answers or when the          *)
(* visibility of one of the messages cannot be changed: the error is       *)
(* logged, the loop goes on and the messages come back by timeout.         *)
ReceiveFails(l, S) ==
    /\ pc[l] = "poll" /\ l \notin stop /\ l \in WithContext
    /\ Cardinality(S) <= MaxBatch
    /\ \A m \in S : queue[m] = "visible"
    /\ queue' = Hidden(S)
    /\ Fault
    /\ UNCHANGED <<pc, batch, stop, stored, executed, expiries>>

(* Without the tenant, loading the queue raises in receive_messages and so *)
(* does the log entry of the except clause: the thread ends.               *)
NoContext(l) ==
    /\ pc[l] = "poll" /\ l \notin stop /\ l \notin WithContext
    /\ Goes(l, "dead")
    /\ NoFault
    /\ UNCHANGED <<queue, batch, stop, stored, executed, expiries>>

(* The invocation row is committed before the commands run; a failure is   *)
(* not caught and ends the thread.                                         *)
Store(l) ==
    /\ pc[l] = "received"
    /\ stored' = [m \in Messages |-> IF m \in batch[l] THEN Up(stored[m]) ELSE stored[m]]
    /\ Goes(l, "stored")
    /\ NoFault
    /\ UNCHANGED <<queue, batch, stop, executed, expiries>>

StoreFails(l) ==
    /\ pc[l] = "received"
    /\ Goes(l, "dead")
    /\ Fault
    /\ UNCHANGED <<queue, batch, stop, stored, executed, expiries>>

(* execute_mock_operations swallows the failure of a command, so the       *)
(* listener goes on to the acknowledgement either way; only a failure of   *)
(* its log entry ends the thread.                                          *)
Execute(l, outcome) ==
    /\ pc[l] = "stored"
    /\ executed' = [m \in Messages |->
                        IF m \in batch[l] THEN Up(executed[m]) ELSE executed[m]]
    /\ Goes(l, "executed")
    /\ IF outcome = "failed" THEN Fault ELSE NoFault
    /\ UNCHANGED <<queue, batch, stop, stored, expiries>>

ExecuteLogFails(l) ==
    /\ pc[l] = "stored"
    /\ executed' = [m \in Messages |->
                        IF m \in batch[l] THEN Up(executed[m]) ELSE executed[m]]
    /\ Goes(l, "dead")
    /\ Fault
    /\ UNCHANGED <<queue, batch, stop, stored, expiries>>

Ack_Early(l, S) ==
    /\ pc[l] = "stored"
    /\ S \subseteq batch[l]
    /\ queue' = Deleted(S)
    /\ IF S = batch[l] THEN NoFault ELSE Fault
    /\ batch' = [batch EXCEPT ![l] = {}]
    /\ Goes(l, "poll")
    /\ UNCHANGED <<stop, stored, executed, expiries>>

Ack_Never(l, S) ==
    /\ pc[l] = "executed"
    /\ S = batch[l]
    /\ batch' = [batch EXCEPT ![l] = {}]
    /\ Goes(l, "poll")
    /\ UNCHANGED <<queue, stop, stored, executed, expiries, faults>>

(* S is the part of the batch the broker deletes; a refusal raises and is  *)
(* logged.                                                                 *)
Ack(l, S) ==
    /\ pc[l] = "executed"
    /\ S \subseteq batch[l]
    /\ queue' = Deleted(S)
    /\ IF S = batch[l] THEN NoFault ELSE Fault
    /\ batch' = [batch EXCEPT ![l] = {}]
    /\ Goes(l, "poll")
    /\ UNCHANGED <<stop, stored, executed, expiries>>

AskStop(l) ==
    /\ l \notin stop
    /\ stop' = stop \cup {l}
    /\ UNCHANGED <<queue, pc, batch, stored, executed, expiries, faults>>

End(l) ==
    /\ pc[l] = "poll" /\ l \in stop
    /\ Goes(l, "ended")
    /\ UNCHANGED <<queue, batch, stop, stored, executed, expiries, faults>>

Round(l) ==
    \/ \E S \in SUBSET Messages : Receive(l, S)
    \/ NoContext(l) \/ Store(l) \/ End(l)
    \/ \E o \in {"succeeded", "failed"} : Execute(l, o)
    \/ \E S \in SUBSET batch[l] : Ack(l, S)

Next ==
    \/ \E m \in Messages : Send(m) \/ Expire(m)
    \/ \E l \in Listeners :
           \/ Round(l)
           \/ \E S \in SUBSET Messages : ReceiveFails(l, S)
           \/ StoreFails(l) \/ ExecuteLogFails(l) \/ AskStop(l)

(* The thread runs, the broker answers, and a message that is visible for  *)
(* ever is delivered some day.                                             *)
Spec ==
    /\ Init /\ [][Next]_vars
    /\ \A l \in Listeners : WF_vars(Round(l))
    /\ \A m \in Messages :
           /\ WF_vars(Expire(m))
           /\ SF_vars(\E l \in Listeners, S \in SUBSET Messages :
                          m \in S /\ Receive(l, S))

----------------------------------------------------------------------------
(* A message leaves the queue only after the commands of the binding have  *)
(* been executed for it: whatever fails, no event is dropped unseen.       *)
DeletedWasExecuted ==
    \A m \in Messages : queue[m] = "deleted" => executed[m] > 0

(* Commands run for a message at most once more than its visibility        *)
(* timeout expired, with any number of listeners on the queue, and each    *)
(* run has an invocation row of its own.                                   *)
RepeatsNeedExpiry ==
    \A m \in Messages : executed[m] <= expiries[m] + 1 /\ executed[m] <= stored[m]

(* QSM-031: "ACK always, even when operations fail."  A message sent to a  *)
(* bound queue is deleted, unless every listener has been stopped or       *)
(* killed by a failure outside the commands.                               *)
AckAlways ==
    \A m \in Messages :
        (queue[m] = "visible") ~>
            \/ queue[m] = "deleted"
            \/ \A l \in Listeners :
                   l \in stop \/ (pc[l] = "dead" /\ l \in WithContext)
=============================================================================
