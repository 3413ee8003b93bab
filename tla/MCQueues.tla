------------------------------- MODULE MCQueues -------------------------------
(***************************************************************************)
(* What the program does with the queues of a broker, each part on small   *)
(* instances: the reader that exports a queue, the listeners of a mock     *)
(* server, and the queue commands of test runs.  A behaviour follows one   *)
(* part; the variables of the others are absent.                           *)
(***************************************************************************)
EXTENDS Naturals, TLC

CONSTANTS None, One, Two, Three,  \* sets of one, two and three messages
          Listeners, Named,       \* listeners; those that see a tenant
          Outbox, Unreadable, Receivers, Asked, Retry  \* of QueueCommands

VARIABLES
    part,                                                \* the part that is followed
    queue, faults, expiries,                             \* of more than one part
    threads, readers, joining, table, received, resaved, \* QueueReader
    pc, batch, stop, stored, executed,                   \* MockQueueListener
    sender, position, receiver, target                   \* QueueCommands

ofReader == <<threads, readers, joining, table, received, resaved>>
ofListener == <<pc, batch, stop, stored, executed>>
ofCommands == <<sender, position, receiver, target>>
vars == <<part, queue, faults, expiries, ofReader, ofListener, ofCommands>>

\* One message, and readers that may be stopped and started again; the first
\* sees no tenant.
Reader == INSTANCE QueueReader WITH
    Messages <- One, QueueId <- "q", BrokerId <- "k", WithContext <- {2, 3}, MaxRetry <- 2,
    MaxReaders <- 3, MaxCount <- 2, MaxFaults <- 1

\* Two messages, received alone or together.
Export == INSTANCE QueueReader WITH
    Messages <- Two, QueueId <- "q", BrokerId <- "k", WithContext <- {1}, MaxRetry <- 2,
    MaxReaders <- 1, MaxCount <- 2, MaxFaults <- 1

\* Two listeners on one queue, message by message.
Delivery == INSTANCE MockQueueListener WITH
    Messages <- Two, MaxBatch <- 1, WithContext <- Listeners, MaxCount <- 2, MaxFaults <- 1

\* Batches of messages, and a listener that sees no tenant.
Batches == INSTANCE MockQueueListener WITH
    Messages <- Three, MaxBatch <- 2, WithContext <- Named, MaxCount <- 1, MaxFaults <- 1

\* A message that cannot be read, and two runs that receive.
Commands == INSTANCE QueueCommands WITH MaxExpiries <- 1

ASSUME QueuesAssumption ==
    /\ Reader!ReaderAssumption /\ Export!ReaderAssumption
    /\ Delivery!ListenerAssumption /\ Batches!ListenerAssumption
    /\ Commands!QueueCommandsAssumption

MCOutbox == <<"a", "b", "c">>
MCAsked == "r1" :> 2 @@ "r2" :> 1
MCRetry == "r1" :> 1 @@ "r2" :> 0

-----------------------------------------------------------------------------
NoReader == /\ threads = None /\ readers = None /\ joining = None
            /\ table = None /\ received = None /\ resaved = None
NoListener == pc = None /\ batch = None /\ stop = None /\ stored = None /\ executed = None
NoCommands == sender = None /\ position = None /\ receiver = None /\ target = None

Init ==
    \/ /\ part = "reader" /\ Reader!Init
       /\ expiries = None /\ NoListener /\ NoCommands
    \/ /\ part = "export" /\ Export!Init
       /\ expiries = None /\ NoListener /\ NoCommands
    \/ part = "delivery" /\ Delivery!Init /\ NoReader /\ NoCommands
    \/ part = "batches" /\ Batches!Init /\ NoReader /\ NoCommands
    \/ part = "commands" /\ Commands!Init /\ faults = None /\ NoReader /\ NoListener

\* Step A of part p.
OfReader(p, A) == part = p /\ A /\ UNCHANGED <<part, expiries, ofListener, ofCommands>>
OfListener(p, A) == part = p /\ A /\ UNCHANGED <<part, ofReader, ofCommands>>
OfCommands(A) == part = "commands" /\ A /\ UNCHANGED <<part, faults, ofReader, ofListener>>

Next ==
    \/ OfReader("reader", Reader!Next)
    \/ OfReader("export", Export!Next)
    \/ OfListener("delivery", Delivery!Next)
    \/ OfListener("batches", Batches!Next)
    \/ OfCommands(Commands!Next)

\* The fairness of the parts' own specifications.
Fairness ==
    /\ WF_vars(OfReader("reader", Reader!Forget))
    /\ \A r \in 1 .. 3 : WF_vars(OfReader("reader", r \in DOMAIN readers /\ Reader!Loop(r)))
    /\ \A r \in Receivers : WF_vars(OfCommands(Commands!Step(r)))

Spec == Init /\ [][Next]_vars /\ Fairness

-----------------------------------------------------------------------------
\* Every reception of a message is in exactly one place, a row of the export
\* table or the batch of a reader, and a reader that gives up by itself has
\* written all it had received (queue_reader_thread.py, once its thread is given
\* a tenant); one that sees no tenant takes nothing.
ReaderKeepsAccount ==
    /\ part = "reader" => /\ Reader!TypeOK
                          /\ Reader!ReceptionsAccounted
                          /\ Reader!LeavesEmptyHanded /\ Reader!StrangersTakeNothing
    /\ part = "export" => /\ Export!TypeOK
                          /\ Export!ReceptionsAccounted
                          /\ Export!LeavesEmptyHanded /\ Export!StrangersTakeNothing

\* A message leaves the queue of a mock server only after the commands of the
\* binding were executed for it, and they are executed for it at most once more
\* than its visibility timeout expired (mock_queue_listener_thread.py).
ExecutedThenDeleted ==
    /\ part = "delivery" => /\ Delivery!TypeOK
                            /\ Delivery!DeletedWasExecuted /\ Delivery!RepeatsNeedExpiry
    /\ part = "batches" => /\ Batches!TypeOK
                           /\ Batches!DeletedWasExecuted /\ Batches!RepeatsNeedExpiry

\* Two runs that receive from one queue get a message twice only when its
\* visibility timeout ended in between (AmazonSqsConnectionService), and one
\* with fewer messages than it asked for has polled an empty queue retry + 1
\* times ("retrying up to cfg.retry times").
ReceiversAreApart ==
    part = "commands" => /\ Commands!TypeOK
                         /\ Commands!SharedOnlyByTimeout /\ Commands!GaveUpAfterRetries

\* The stop handler, which blocks the event loop, gets to join its reader.
JoinEnds == (part = "reader" /\ joining # None) ~> (part = "reader" /\ joining = None)

\* ReceiveQueueOperationExecutor: the loops end, whatever others send meanwhile.
ReceiversEnd ==
    (part = "commands") ~>
        (part = "commands" /\ \A r \in Receivers : receiver[r].pc \in {"done", "failed"})

\* What somebody waits for comes: the end of a reader that the event loop joins,
\* with a tenant or without, and the end of a receiveQueue command.
LoopsServe == JoinEnds /\ ReceiversEnd

=============================================================================
