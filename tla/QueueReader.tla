------------------------------ MODULE QueueReader ------------------------------
(***************************************************************************)
(* Copying a queue into its export table in the background                 *)
(* (brokers/services/elaborations/async_queue_service.py and               *)
(* queue_reader_thread.py), with the handlers of broker_queues_api.py that *)
(* start and stop the readers and use the same queue.                      *)
(*                                                                         *)
(* A reader collects what it receives and writes it only when a poll comes *)
(* back empty.  It never deletes a message: it hides what it has written   *)
(* for another five minutes.  The stop handler joins the reader on the     *)
(* event loop, so no other handler runs until the reader has ended.        *)
(*                                                                         *)
(* A reader needs the tenant in the context of its thread to connect, and  *)
(* Python 3.13 starts threads without it: there the loop is never reached. *)
(* WithContext says which readers have it; with {} the module is the code  *)
(* as it is deployed, with more it is the loop once its thread is given    *)
(* the tenant.                                                             *)
(***************************************************************************)
EXTENDS Naturals, Sequences, FiniteSets

CONSTANTS Messages,     \* messages of the queue
          QueueId,      \* id of the queue
          BrokerId,     \* id of the broker the queue belongs to
          WithContext,  \* readers, by number, that see the tenant of the
                        \* request that started them: none on Python 3.13,
                        \* where a new thread starts with an empty context
          MaxRetry,     \* MAX_RETRY_ATTEMPTS
          MaxReaders,   \* bound on readers started
          MaxCount,     \* bound on receptions of one message
          MaxFaults,    \* bound on exceptions
          None

ReaderAssumption ==
    /\ QueueId # BrokerId
    /\ MaxRetry \in Nat \ {0} /\ MaxReaders \in Nat
    /\ WithContext \subseteq 1 .. MaxReaders
    /\ MaxCount \in Nat /\ MaxFaults \in Nat

VARIABLES queue,      \* queue[m]: unsent, visible, hidden or deleted
          threads,    \* the dictionary of readers, by id
          readers,    \* every reader thread started
          joining,    \* the reader the stop handler waits for
          table,      \* rows of the export table, per reception
          received,   \* receptions by readers, per message
          resaved,    \* rows written of a batch that was kept, per reception
          faults

vars == <<queue, threads, readers, joining, table, received, resaved, faults>>

(* <<m, n>> is the n-th time that a reader gets message m.                 *)
Receptions == Messages \X (1 .. MaxCount)

Reader == [pc : {"connect", "poll", "empty", "saved", "check", "left", "died"},
           stop : BOOLEAN, retry : Nat, quiet : Nat,
           batch : SUBSET Receptions]

Fresh == [pc |-> "connect", stop |-> FALSE, retry |-> 0, quiet |-> 0,
          batch |-> {}]

Alive(r) == readers[r].pc \notin {"left", "died"}

TypeOK ==
    /\ queue \in [Messages -> {"unsent", "visible", "hidden", "deleted"}]
    /\ DOMAIN threads \subseteq {QueueId} /\ \A q \in DOMAIN threads : threads[q] \in DOMAIN readers
    /\ readers \in Seq(Reader)
    /\ joining \in DOMAIN readers \cup {None}
    /\ table \in [Receptions -> Nat] /\ resaved \in [Receptions -> Nat]
    /\ received \in [Messages -> 0 .. MaxCount] /\ faults \in 0 .. MaxFaults
    /\ \A r \in DOMAIN readers : readers[r].retry <= MaxRetry + faults

Init ==
    /\ queue = [m \in Messages |-> "unsent"]
    /\ threads = [q \in {} |-> 0]
    /\ readers = <<>>
    /\ joining = None
    /\ table = [x \in Receptions |-> 0]
    /\ received = [m \in Messages |-> 0]
    /\ resaved = [x \in Receptions |-> 0]
    /\ faults = 0

Fault == faults < MaxFaults /\ faults' = faults + 1
With(r, rec) == readers' = [readers EXCEPT ![r] = rec]
Hidden(S) == [m \in Messages |-> IF m \in S THEN "hidden" ELSE queue[m]]

(* The receptions of messages S that come next, and the counts after them. *)
Gets(S) == {<<m, received[m] + 1>> : m \in S}
Counted(S) == [m \in Messages |-> IF m \in S THEN received[m] + 1 ELSE received[m]]

(* One row more for every member of a batch.                               *)
Written(rows, batch) == [x \in Receptions |-> IF x \in batch THEN rows[x] + 1 ELSE rows[x]]

----------------------------------------------------------------------------
(* The handlers; none runs while the stop handler is joining.              *)

Publish(m) ==
    /\ joining = None /\ queue[m] = "unsent"
    /\ queue' = [queue EXCEPT ![m] = "visible"]
    /\ UNCHANGED <<threads, readers, joining, table, received, resaved, faults>>

(* receive_messages_api hides a message, ack_messages_api deletes it.      *)
Fetch(m) ==
    /\ joining = None /\ queue[m] = "visible"
    /\ queue' = [queue EXCEPT ![m] = "hidden"]
    /\ UNCHANGED <<threads, readers, joining, table, received, resaved, faults>>

AckByUser(m) ==
    /\ joining = None /\ queue[m] = "hidden"
    /\ queue' = [queue EXCEPT ![m] = "deleted"]
    /\ UNCHANGED <<threads, readers, joining, table, received, resaved, faults>>

(* start_receiving_messages looks for the broker's id among the ids of     *)
(* queues, and replaces the entry of the queue.                            *)
Start ==
    /\ joining = None
    /\ Len(readers) < MaxReaders
    /\ ~(BrokerId \in DOMAIN threads /\ Alive(threads[BrokerId]))
    /\ readers' = Append(readers, Fresh)
    /\ threads' = [q \in DOMAIN threads \cup {QueueId} |->
                       IF q = QueueId THEN Len(readers) + 1 ELSE threads[q]]
    /\ UNCHANGED <<queue, joining, table, received, resaved, faults>>

(* stop_receiving_messages sets the flag and joins; the entry is removed   *)
(* when the reader has ended.                                              *)
Stop ==
    /\ joining = None /\ QueueId \in DOMAIN threads
    /\ Alive(threads[QueueId])
    /\ With(threads[QueueId], [readers[threads[QueueId]] EXCEPT !.stop = TRUE])
    /\ joining' = threads[QueueId]
    /\ UNCHANGED <<queue, threads, table, received, resaved, faults>>

(* stop() sets the flag before it logs: when the log entry fails the        *)
(* reader still ends, but nobody joins it and its entry stays.              *)
StopLogFails ==
    /\ joining = None /\ QueueId \in DOMAIN threads
    /\ Alive(threads[QueueId])
    /\ With(threads[QueueId], [readers[threads[QueueId]] EXCEPT !.stop = TRUE])
    /\ Fault
    /\ UNCHANGED <<queue, threads, joining, table, received, resaved>>

Forget ==
    /\ QueueId \in DOMAIN threads
    /\ ~Alive(threads[QueueId])
    /\ joining \in {None, threads[QueueId]}
    /\ threads' = [q \in DOMAIN threads \ {QueueId} |-> threads[q]]
    /\ joining' = None
    /\ UNCHANGED <<queue, readers, table, received, resaved, faults>>

----------------------------------------------------------------------------
(* The loop of a reader.                                                   *)

(* Before the loop the reader connects to the queue and makes sure that    *)
(* the export table exists; an exception there ends the thread.            *)
(* test_connection loads the queue in a session of the tenant of the       *)
(* context, which raises in a thread that has none.                        *)
Connect(r) ==
    /\ readers[r].pc = "connect" /\ r \in WithContext
    /\ With(r, [readers[r] EXCEPT !.pc = "poll"])
    /\ UNCHANGED <<queue, threads, joining, table, received, resaved, faults>>

NoContext(r) ==
    /\ readers[r].pc = "connect" /\ r \notin WithContext
    /\ With(r, [readers[r] EXCEPT !.pc = "died"])
    /\ UNCHANGED <<queue, threads, joining, table, received, resaved, faults>>

ConnectFails(r) ==
    /\ readers[r].pc = "connect"
    /\ With(r, [readers[r] EXCEPT !.pc = "died"])
    /\ Fault
    /\ UNCHANGED <<queue, threads, joining, table, received, resaved>>

Leave_WhenWritten(r) ==
    /\ readers[r].pc = "poll" /\ readers[r].stop
    /\ readers[r].batch = {}
    /\ With(r, [readers[r] EXCEPT !.pc = "left"])
    /\ UNCHANGED <<queue, threads, joining, table, received, resaved, faults>>

(* The loop looks at the flag before every poll; what is in the batch then *)
(* is dropped.                                                             *)
Leave(r) ==
    /\ readers[r].pc = "poll" /\ readers[r].stop
    /\ With(r, [readers[r] EXCEPT !.pc = "left"])
    /\ UNCHANGED <<queue, threads, joining, table, received, resaved, faults>>

Poll(r, S) ==
    /\ readers[r].pc = "poll" /\ ~readers[r].stop
    /\ S # {} /\ \A m \in S : queue[m] = "visible" /\ received[m] < MaxCount
    /\ queue' = Hidden(S)
    /\ With(r, [readers[r] EXCEPT !.batch = @ \cup Gets(S), !.quiet = 0])
    /\ received' = Counted(S)
    /\ UNCHANGED <<threads, joining, table, resaved, faults>>

(* The receive call fails, or after it the log entry: the error is logged  *)
(* and the loop goes on, with the messages in the batch or without them.   *)
PollFails(r, S, kept) ==
    /\ readers[r].pc = "poll" /\ ~readers[r].stop
    /\ \A m \in S : queue[m] = "visible" /\ received[m] < MaxCount
    /\ queue' = Hidden(S)
    /\ IF kept
       THEN /\ With(r, [readers[r] EXCEPT !.batch = @ \cup Gets(S)])
            /\ received' = Counted(S)
       ELSE UNCHANGED <<readers, received>>
    /\ Fault
    /\ UNCHANGED <<threads, joining, table, resaved>>

(* No message in the answer, though there may be some in the queue: a      *)
(* short poll asks only some of the broker's servers.  retry_counter is    *)
(* never set back.                                                         *)
EmptyPoll_CheckFirst(r) ==
    /\ readers[r].pc = "poll" /\ ~readers[r].stop
    /\ With(r, [readers[r] EXCEPT !.pc = "check", !.retry = @ + 1, !.quiet = @ + 1])
    /\ UNCHANGED <<queue, threads, joining, table, received, resaved, faults>>

EmptyPoll(r) ==
    /\ readers[r].pc = "poll" /\ ~readers[r].stop
    /\ With(r, [readers[r] EXCEPT
                    !.pc = IF readers[r].batch = {} THEN "check" ELSE "empty",
                    !.retry = @ + 1, !.quiet = @ + 1])
    /\ UNCHANGED <<queue, threads, joining, table, received, resaved, faults>>

(* save_body_messages inserts the rows of the batch in one statement.      *)
Save(r) ==
    /\ readers[r].pc = "empty"
    /\ table' = Written(table, readers[r].batch)
    /\ With(r, [readers[r] EXCEPT !.pc = "saved"])
    /\ UNCHANGED <<queue, threads, joining, received, resaved, faults>>

SaveFails(r) ==
    /\ readers[r].pc = "empty"
    /\ With(r, [readers[r] EXCEPT !.pc = "poll"])
    /\ Fault
    /\ UNCHANGED <<queue, threads, joining, table, received, resaved>>

(* The written messages stay hidden for longer; only then the batch is     *)
(* emptied.  When the broker refuses, the batch is kept and written again. *)
Hide_KeepsBatch(r) ==
    /\ readers[r].pc = "saved"
    /\ With(r, [readers[r] EXCEPT !.pc = "check"])
    /\ UNCHANGED <<queue, threads, joining, table, received, resaved, faults>>

Hide(r) ==
    /\ readers[r].pc = "saved"
    /\ With(r, [readers[r] EXCEPT !.pc = "check", !.batch = {}])
    /\ UNCHANGED <<queue, threads, joining, table, received, resaved, faults>>

HideFails(r) ==
    /\ readers[r].pc = "saved"
    /\ With(r, [readers[r] EXCEPT !.pc = "poll"])
    /\ resaved' = Written(resaved, readers[r].batch)
    /\ Fault
    /\ UNCHANGED <<queue, threads, joining, table, received>>

Check_Beyond(r) ==
    /\ readers[r].pc = "check"
    /\ With(r, [readers[r] EXCEPT
                    !.pc = IF readers[r].retry > MaxRetry + MaxFaults THEN "left" ELSE "poll"])
    /\ UNCHANGED <<queue, threads, joining, table, received, resaved, faults>>

(* The reader gives up after MAX_RETRY_ATTEMPTS empty polls, or sleeps and *)
(* polls again.                                                            *)
Check(r) ==
    /\ readers[r].pc = "check"
    /\ With(r, [readers[r] EXCEPT
                    !.pc = IF readers[r].retry >= MaxRetry THEN "left" ELSE "poll"])
    /\ UNCHANGED <<queue, threads, joining, table, received, resaved, faults>>

(* The log entry about giving up fails: the except clause logs that, and   *)
(* the loop goes on.                                                       *)
CheckLogFails(r) ==
    /\ readers[r].pc = "check" /\ readers[r].retry >= MaxRetry
    /\ With(r, [readers[r] EXCEPT !.pc = "poll"])
    /\ Fault
    /\ UNCHANGED <<queue, threads, joining, table, received, resaved>>

(* A log entry of the except clause fails too: the thread ends, with what  *)
(* it had not written.                                                     *)
Die(r) ==
    /\ readers[r].pc \in {"poll", "empty", "saved"}
    /\ With(r, [readers[r] EXCEPT
                    !.pc = "died",
                    !.batch = IF readers[r].pc = "saved" THEN {} ELSE @])
    /\ Fault
    /\ UNCHANGED <<queue, threads, joining, table, received, resaved>>

(* A message that is not deleted comes back when its timeout is over.      *)
Reappear(m) ==
    /\ queue[m] = "hidden" /\ received[m] < MaxCount
    /\ queue' = [queue EXCEPT ![m] = "visible"]
    /\ UNCHANGED <<threads, readers, joining, table, received, resaved, faults>>

Loop(r) ==
    \/ Connect(r) \/ NoContext(r) \/ Leave(r) \/ EmptyPoll(r) \/ Save(r) \/ Hide(r) \/ Check(r)
    \/ \E S \in SUBSET Messages : Poll(r, S)

Next ==
    \/ \E m \in Messages : Publish(m) \/ Fetch(m) \/ AckByUser(m) \/ Reappear(m)
    \/ Start \/ Stop \/ StopLogFails \/ Forget
    \/ \E r \in DOMAIN readers :
           \/ Loop(r) \/ ConnectFails(r) \/ CheckLogFails(r) \/ SaveFails(r) \/ HideFails(r) \/ Die(r)
           \/ \E S \in SUBSET Messages, kept \in BOOLEAN : PollFails(r, S, kept)

Spec ==
    /\ Init /\ [][Next]_vars
    /\ WF_vars(Forget)
    /\ \A r \in 1 .. MaxReaders : WF_vars(r \in DOMAIN readers /\ Loop(r))

----------------------------------------------------------------------------
(* Every reception of a message is in exactly one place: a row of the      *)
(* table, or the batch of one reader, running or not.  Rows beyond that    *)
(* are those written again after the broker refused to hide the messages.  *)
Holders(x) == {r \in DOMAIN readers : readers[r].pc # "saved" /\ x \in readers[r].batch}

Accounted(x) ==
    \/ Holders(x) = {} /\ table[x] = resaved[x] + 1
    \/ (\E r \in DOMAIN readers : Holders(x) = {r}) /\ table[x] = resaved[x]

ReceptionsAccounted == \A m \in Messages : \A n \in 1 .. received[m] : Accounted(<<m, n>>)

(* A reader that sees no tenant, as all of them on Python 3.13, takes      *)
(* nothing from the queue and writes nothing, whatever the API answered.   *)
StrangersTakeNothing ==
    \A r \in DOMAIN readers :
        r \notin WithContext => readers[r].pc \in {"connect", "died"} /\ readers[r].batch = {}

(* A reader that gives up by itself has written all it had received: the   *)
(* limit of empty polls is looked at only after the batch was written.     *)
LeavesEmptyHanded ==
    \A r \in DOMAIN readers :
        readers[r].pc = "left" /\ ~readers[r].stop => readers[r].batch = {}

(* The event loop is not blocked for ever: the reader the stop handler     *)
(* joins comes to its end, whatever it was doing and whatever arrives.     *)
JoinEnds == (joining # None) ~> (joining = None)

(* "No messages received from queue ... after 5 attempts."                 *)
(* (queue_reader_thread.py): the polls before giving up were empty.        *)
GivesUpOnSilence ==
    \A r \in DOMAIN readers :
        readers[r].pc = "left" /\ ~readers[r].stop => readers[r].quiet >= MaxRetry

(* "already_running" (async_queue_service.py): a queue has one reader.     *)
OneReader ==
    Cardinality({r \in DOMAIN readers : Alive(r) /\ ~readers[r].stop}) <= 1
=============================================================================
