---------------------------- MODULE QueueCommands ----------------------------
(***************************************************************************)
(* sendMessageQueue and receiveQueue as the commands of runs that share a  *)
(* queue (app/elaborations/services/operations/                            *)
(* send_message_queue_command_executor.py, receive_queue_command_executor  *)
(* .py), and what the connector does with the messages                     *)
(* (app/brokers/services/connections/queue/                                *)
(* amazon_sqs_connection_service.py).                                      *)
(*                                                                         *)
(* Receiving hides a message for a long time; it is never acknowledged.    *)
(* The queue may answer a poll with nothing although messages are there.   *)
(***************************************************************************)
EXTENDS Naturals, Sequences, FiniteSets, SequencesExt

CONSTANTS
    Outbox,      \* the messages one command sends, in order
    Unreadable,  \* messages whose body is no JSON
    Receivers,   \* runs that receive from the queue
    Asked,       \* max_messages of each receiver
    Retry,       \* retry of each receiver
    MaxExpiries  \* bound: messages that become visible again

Messages == {Outbox[i] : i \in DOMAIN Outbox}

QueueCommandsAssumption ==
    /\ Outbox \in Seq(Messages) /\ IsInjective(Outbox)
    /\ Asked \in [Receivers -> Nat \ {0}] /\ Retry \in [Receivers -> Nat]
    /\ MaxExpiries \in Nat

VARIABLES
    queue,     \* queue[m]: unsent, visible or hidden
    sender,    \* "sending", "done" or "failed"
    position,  \* messages that were sent
    receiver,  \* for each run: pc, retries_remaining, collected and the empty polls
    target,    \* the rows written to the run context
    expiries   \* visibility timeouts so far, by message

vars == <<queue, sender, position, receiver, target, expiries>>

NoRows == <<"none">>

Init ==
    /\ queue = [m \in Messages |-> "unsent"]
    /\ sender = "sending"
    /\ position = 0
    /\ receiver = [r \in Receivers |-> [pc |-> "poll", left |-> Retry[r], collected |-> <<>>, empty |-> 0]]
    /\ target = [r \in Receivers |-> NoRows]
    /\ expiries = [m \in Messages |-> 0]

-----------------------------------------------------------------------------
(* publish_messages sends one message after the other.                     *)

SendOne ==
    /\ sender = "sending" /\ position < Len(Outbox)
    /\ queue' = [queue EXCEPT ![Outbox[position + 1]] = "visible"]
    /\ position' = position + 1
    /\ UNCHANGED <<sender, receiver, target, expiries>>

\* What was sent stays sent.
SendFails ==
    /\ sender = "sending" /\ position < Len(Outbox)
    /\ sender' = "failed"
    /\ UNCHANGED <<queue, position, receiver, target, expiries>>

\* The result constant and the log entry.
SendDone ==
    /\ sender = "sending" /\ position = Len(Outbox)
    /\ sender' = "done"
    /\ UNCHANGED <<queue, position, receiver, target, expiries>>

-----------------------------------------------------------------------------

Polling(r) == receiver[r].pc = "poll" /\ Len(receiver[r].collected) < Asked[r]

\* Mutant: every poll asks for max_messages.
Slots_All(r) == Asked[r]

\* remaining_slots
Slots(r) == Asked[r] - Len(receiver[r].collected)

Visible == {m \in Messages : queue[m] = "visible"}

\* Mutant: the visibility of the messages is left alone.
Taken_Visible(S) == queue

\* receive_messages hides every message it returns.
Taken(S) == [m \in Messages |-> IF m \in S THEN "hidden" ELSE queue[m]]

Poll(r, order) ==
    LET S == {order[i] : i \in DOMAIN order}
    IN  /\ Polling(r)
        /\ S # {} /\ S \subseteq Visible /\ Cardinality(S) <= Slots(r)
        /\ queue' = Taken(S)
        /\ receiver' = [receiver EXCEPT ![r].collected = @ \o order]
        /\ UNCHANGED <<sender, position, target, expiries>>

\* The visibility of one of the messages cannot be changed: the command fails,
\* the queue has hidden them for a while all the same.
PollFails(r, S) ==
    /\ Polling(r)
    /\ S \subseteq Visible /\ Cardinality(S) <= Slots(r)
    /\ queue' = [m \in Messages |-> IF m \in S THEN "hidden" ELSE queue[m]]
    /\ receiver' = [receiver EXCEPT ![r].pc = "failed"]
    /\ UNCHANGED <<sender, position, target, expiries>>

\* Mutant: the last retry is not made.
EmptyPoll_Early(r) ==
    LET run == receiver[r]
    IN  /\ Polling(r)
        /\ receiver' = [receiver EXCEPT ![r] =
               [run EXCEPT !.empty = run.empty + 1,
                           !.pc = IF run.left <= 1 THEN "read" ELSE run.pc,
                           !.left = IF run.left = 0 THEN 0 ELSE run.left - 1]]
        /\ UNCHANGED <<queue, sender, position, target, expiries>>

\* No message: one retry less, or the end of the loop.
EmptyPoll(r) ==
    LET run == receiver[r]
    IN  /\ Polling(r)
        /\ receiver' = [receiver EXCEPT ![r] =
               [run EXCEPT !.empty = run.empty + 1,
                           !.pc = IF run.left = 0 THEN "read" ELSE run.pc,
                           !.left = IF run.left = 0 THEN 0 ELSE run.left - 1]]
        /\ UNCHANGED <<queue, sender, position, target, expiries>>

\* Mutant: the loop does not look at how much was collected.
Filled_Never(r) ==
    /\ receiver[r].pc = "stopped"
    /\ UNCHANGED vars

\* max_messages were collected.
Filled(r) ==
    /\ receiver[r].pc = "poll" /\ Len(receiver[r].collected) >= Asked[r]
    /\ receiver' = [receiver EXCEPT ![r].pc = "read"]
    /\ UNCHANGED <<queue, sender, position, target, expiries>>

Readable(r) == \A i \in DOMAIN receiver[r].collected : receiver[r].collected[i] \notin Unreadable

\* The bodies are read and written to the target.
Read(r) ==
    /\ receiver[r].pc = "read" /\ Readable(r)
    /\ target' = [target EXCEPT ![r] = receiver[r].collected]
    /\ receiver' = [receiver EXCEPT ![r].pc = "done"]
    /\ UNCHANGED <<queue, sender, position, expiries>>

\* "Invalid body in message": nothing is written.
ReadFails(r) ==
    /\ receiver[r].pc = "read" /\ ~Readable(r)
    /\ receiver' = [receiver EXCEPT ![r].pc = "failed"]
    /\ UNCHANGED <<queue, sender, position, target, expiries>>

\* The visibility timeout of a message ends.
Expire(m) ==
    /\ queue[m] = "hidden" /\ expiries[m] < MaxExpiries
    /\ queue' = [queue EXCEPT ![m] = "visible"]
    /\ expiries' = [expiries EXCEPT ![m] = @ + 1]
    /\ UNCHANGED <<sender, position, receiver, target>>

Step(r) ==
    \/ EmptyPoll(r) \/ Filled(r) \/ Read(r) \/ ReadFails(r)
    \/ \E S \in SUBSET Messages : \E order \in SetToSeqs(S) : Poll(r, order)

Next ==
    \/ SendOne \/ SendFails \/ SendDone
    \/ \E r \in Receivers : Step(r)
    \/ \E r \in Receivers, S \in SUBSET Messages : PollFails(r, S)
    \/ \E m \in Messages : Expire(m)

Spec == Init /\ [][Next]_vars

\* A thread that is polling goes on.
FairSpec == Spec /\ \A r \in Receivers : WF_vars(Step(r))

-----------------------------------------------------------------------------

TypeOK ==
    /\ queue \in [Messages -> {"unsent", "visible", "hidden"}]
    /\ sender \in {"sending", "done", "failed"} /\ position \in 0..Len(Outbox)
    /\ \A r \in Receivers :
           /\ receiver[r].pc \in {"poll", "read", "done", "failed"}
           /\ receiver[r].left \in 0..Retry[r]
           /\ Len(receiver[r].collected) <= Asked[r]
    /\ expiries \in [Messages -> 0..MaxExpiries]

\* The places of message m in what the runs have collected.
Copies(m) ==
    UNION {{<<r, i>> : i \in {j \in DOMAIN receiver[r].collected : receiver[r].collected[j] = m}} :
           r \in Receivers}

\* AmazonSqsConnectionService.receive_messages: two runs that receive from one
\* queue get a message twice only when its visibility timeout ended in between.
SharedOnlyByTimeout == \A m \in Messages : Cardinality(Copies(m)) <= 1 + expiries[m]

\* "retrying up to cfg.retry times": a run that ends with fewer messages than it
\* asked for has polled an empty queue retry + 1 times.
GaveUpAfterRetries ==
    \A r \in Receivers :
        (receiver[r].pc = "done" /\ Len(target[r]) < Asked[r]) => receiver[r].empty = Retry[r] + 1

\* ReceiveQueueOperationExecutor: the loop ends, whatever others send meanwhile.
ReceiversEnd == \A r \in Receivers : <>(receiver[r].pc \in {"done", "failed"})

\* "Side-effect free at the protocol level: messages are received but NOT acked":
\* what a run has received is there for the next one.
SideEffectFree ==
    \A r \in Receivers : receiver[r].pc = "done"
        => \A i \in DOMAIN target[r] : queue[target[r][i]] = "visible"

=============================================================================
