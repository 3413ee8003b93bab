----------------------------- MODULE MCQueuesProofs -----------------------------
(***************************************************************************)
(* The queues of a broker, composed as MCQueues composes them: the proofs  *)
(* about the reader, the listeners and the queue commands hold of every    *)
(* part, for any sets of messages, listeners and runs that the parts are   *)
(* given.  The lemmas say that a part of MCQueues is the module its proofs *)
(* are about; the invariant joins the inductive invariants of the parts.   *)
(***************************************************************************)
EXTENDS MCQueues, TLAPS

\* The parts of MCQueues, with their proofs.
ReaderP == INSTANCE QueueReaderProofs WITH
    Messages <- One, QueueId <- "q", BrokerId <- "k", WithContext <- {2, 3}, MaxRetry <- 2,
    MaxReaders <- 3, MaxCount <- 2, MaxFaults <- 1

ExportP == INSTANCE QueueReaderProofs WITH
    Messages <- Two, QueueId <- "q", BrokerId <- "k", WithContext <- {1}, MaxRetry <- 2,
    MaxReaders <- 1, MaxCount <- 2, MaxFaults <- 1

DeliveryP == INSTANCE MockQueueListenerProofs WITH
    Messages <- Two, MaxBatch <- 1, WithContext <- Listeners, MaxCount <- 2, MaxFaults <- 1

BatchesP == INSTANCE MockQueueListenerProofs WITH
    Messages <- Three, MaxBatch <- 2, WithContext <- Named, MaxCount <- 1, MaxFaults <- 1

CommandsP == INSTANCE QueueCommandsProofs WITH MaxExpiries <- 1

-----------------------------------------------------------------------------
\* The readers that may be started again.
LEMMA ReaderAssumption == ReaderP!ReaderAssumption
BY QueuesAssumption
   DEF Reader!ReaderAssumption, ReaderP!ReaderAssumption

LEMMA ReaderStarts == ASSUME Reader!Init PROVE ReaderP!IInv
<1>1. ReaderP!Init
    BY DEF
       Reader!Init, ReaderP!Init, Reader!Receptions, ReaderP!Receptions
<1> QED BY <1>1, ReaderAssumption, ReaderP!InitInvariant

LEMMA ReaderGoes ==
    ASSUME ReaderP!IInv, Reader!Next \/ UNCHANGED vars
    PROVE  ReaderP!IInv'
<1>1. CASE Reader!Next
  <2>1. ReaderP!Next
      BY <1>1
      DEF
       Reader!Next, ReaderP!Next, Reader!Publish, ReaderP!Publish, Reader!Fetch, ReaderP!Fetch,
       Reader!AckByUser, ReaderP!AckByUser, Reader!Reappear, ReaderP!Reappear, Reader!Start,
       ReaderP!Start, Reader!Stop, ReaderP!Stop, Reader!StopLogFails, ReaderP!StopLogFails,
       Reader!Forget, ReaderP!Forget, Reader!Loop, ReaderP!Loop, Reader!Connect,
       ReaderP!Connect, Reader!NoContext, ReaderP!NoContext, Reader!ConnectFails, ReaderP!ConnectFails, Reader!Leave, ReaderP!Leave,
       Reader!Poll, ReaderP!Poll, Reader!PollFails, ReaderP!PollFails, Reader!EmptyPoll,
       ReaderP!EmptyPoll, Reader!Save, ReaderP!Save, Reader!SaveFails, ReaderP!SaveFails,
       Reader!Hide, ReaderP!Hide, Reader!HideFails, ReaderP!HideFails, Reader!Check,
       ReaderP!Check, Reader!CheckLogFails, ReaderP!CheckLogFails, Reader!Die, ReaderP!Die,
       Reader!Fault, ReaderP!Fault, Reader!With, ReaderP!With, Reader!Hidden, ReaderP!Hidden,
       Reader!Gets, ReaderP!Gets, Reader!Counted, ReaderP!Counted, Reader!Written,
       ReaderP!Written, Reader!Receptions, ReaderP!Receptions, Reader!Fresh, ReaderP!Fresh,
       Reader!Alive, ReaderP!Alive
  <2> QED BY <2>1, ReaderAssumption, ReaderP!InvariantStep
<1>2. CASE UNCHANGED vars
  <2>1. UNCHANGED ReaderP!vars
      BY <1>2 DEF ReaderP!vars, vars, ofReader
  <2> QED BY <2>1, ReaderAssumption, ReaderP!InvariantStep
<1> QED BY <1>1, <1>2

LEMMA ReaderKeeps ==
    ASSUME ReaderP!IInv
    PROVE  /\ Reader!TypeOK /\ Reader!ReceptionsAccounted /\ Reader!LeavesEmptyHanded
           /\ Reader!StrangersTakeNothing
BY ReaderAssumption, ReaderP!AccountsAreRight DEF
   Reader!TypeOK, ReaderP!TypeOK, Reader!Receptions, ReaderP!Receptions, Reader!Reader,
   ReaderP!Reader, Reader!ReceptionsAccounted, ReaderP!ReceptionsAccounted, Reader!Accounted,
   ReaderP!Accounted, Reader!Holders, ReaderP!Holders, Reader!LeavesEmptyHanded,
   ReaderP!LeavesEmptyHanded, Reader!StrangersTakeNothing, ReaderP!StrangersTakeNothing

\* The reader of two messages.
LEMMA ExportAssumption == ExportP!ReaderAssumption
BY QueuesAssumption
   DEF Export!ReaderAssumption, ExportP!ReaderAssumption

LEMMA ExportStarts == ASSUME Export!Init PROVE ExportP!IInv
<1>1. ExportP!Init
    BY DEF
       Export!Init, ExportP!Init, Export!Receptions, ExportP!Receptions
<1> QED BY <1>1, ExportAssumption, ExportP!InitInvariant

LEMMA ExportGoes ==
    ASSUME ExportP!IInv, Export!Next \/ UNCHANGED vars
    PROVE  ExportP!IInv'
<1>1. CASE Export!Next
  <2>1. ExportP!Next
      BY <1>1
      DEF
       Export!Next, ExportP!Next, Export!Publish, ExportP!Publish, Export!Fetch, ExportP!Fetch,
       Export!AckByUser, ExportP!AckByUser, Export!Reappear, ExportP!Reappear, Export!Start,
       ExportP!Start, Export!Stop, ExportP!Stop, Export!StopLogFails, ExportP!StopLogFails,
       Export!Forget, ExportP!Forget, Export!Loop, ExportP!Loop, Export!Connect,
       ExportP!Connect, Export!NoContext, ExportP!NoContext, Export!ConnectFails, ExportP!ConnectFails, Export!Leave, ExportP!Leave,
       Export!Poll, ExportP!Poll, Export!PollFails, ExportP!PollFails, Export!EmptyPoll,
       ExportP!EmptyPoll, Export!Save, ExportP!Save, Export!SaveFails, ExportP!SaveFails,
       Export!Hide, ExportP!Hide, Export!HideFails, ExportP!HideFails, Export!Check,
       ExportP!Check, Export!CheckLogFails, ExportP!CheckLogFails, Export!Die, ExportP!Die,
       Export!Fault, ExportP!Fault, Export!With, ExportP!With, Export!Hidden, ExportP!Hidden,
       Export!Gets, ExportP!Gets, Export!Counted, ExportP!Counted, Export!Written,
       ExportP!Written, Export!Receptions, ExportP!Receptions, Export!Fresh, ExportP!Fresh,
       Export!Alive, ExportP!Alive
  <2> QED BY <2>1, ExportAssumption, ExportP!InvariantStep
<1>2. CASE UNCHANGED vars
  <2>1. UNCHANGED ExportP!vars
      BY <1>2 DEF ExportP!vars, vars, ofReader
  <2> QED BY <2>1, ExportAssumption, ExportP!InvariantStep
<1> QED BY <1>1, <1>2

LEMMA ExportKeeps ==
    ASSUME ExportP!IInv
    PROVE  /\ Export!TypeOK /\ Export!ReceptionsAccounted /\ Export!LeavesEmptyHanded
           /\ Export!StrangersTakeNothing
BY ExportAssumption, ExportP!AccountsAreRight DEF
   Export!TypeOK, ExportP!TypeOK, Export!Receptions, ExportP!Receptions, Export!Reader,
   ExportP!Reader, Export!ReceptionsAccounted, ExportP!ReceptionsAccounted, Export!Accounted,
   ExportP!Accounted, Export!Holders, ExportP!Holders, Export!LeavesEmptyHanded,
   ExportP!LeavesEmptyHanded, Export!StrangersTakeNothing, ExportP!StrangersTakeNothing

\* The listeners that take message by message.
LEMMA DeliveryAssumption == DeliveryP!ListenerAssumption
BY QueuesAssumption
   DEF Delivery!ListenerAssumption, DeliveryP!ListenerAssumption, Delivery!IsFiniteSet, DeliveryP!IsFiniteSet

LEMMA DeliveryStarts == ASSUME Delivery!Init PROVE DeliveryP!IInv
<1>1. DeliveryP!Init
    BY DEF
       Delivery!Init, DeliveryP!Init
<1> QED BY <1>1, DeliveryAssumption, DeliveryP!InitInvariant

LEMMA DeliveryGoes ==
    ASSUME DeliveryP!IInv, Delivery!Next \/ UNCHANGED vars
    PROVE  DeliveryP!IInv'
<1>1. CASE Delivery!Next
  <2>1. DeliveryP!Next
      BY <1>1
      DEF
       Delivery!Next, DeliveryP!Next, Delivery!Send, DeliveryP!Send, Delivery!Expire,
       DeliveryP!Expire, Delivery!Round, DeliveryP!Round, Delivery!Receive, DeliveryP!Receive,
       Delivery!ReceiveFails, DeliveryP!ReceiveFails, Delivery!NoContext, DeliveryP!NoContext,
       Delivery!Store, DeliveryP!Store, Delivery!StoreFails, DeliveryP!StoreFails,
       Delivery!Execute, DeliveryP!Execute, Delivery!ExecuteLogFails, DeliveryP!ExecuteLogFails,
       Delivery!Ack, DeliveryP!Ack, Delivery!AskStop, DeliveryP!AskStop, Delivery!End,
       DeliveryP!End, Delivery!Up, DeliveryP!Up, Delivery!Hidden, DeliveryP!Hidden,
       Delivery!Deleted, DeliveryP!Deleted, Delivery!Fault, DeliveryP!Fault, Delivery!NoFault,
       DeliveryP!NoFault, Delivery!Goes, DeliveryP!Goes, Delivery!Cardinality,
       DeliveryP!Cardinality
  <2> QED BY <2>1, DeliveryAssumption, DeliveryP!InvariantStep
<1>2. CASE UNCHANGED vars
  <2>1. UNCHANGED DeliveryP!vars
      BY <1>2 DEF DeliveryP!vars, vars, ofListener
  <2> QED BY <2>1, DeliveryAssumption, DeliveryP!InvariantStep
<1> QED BY <1>1, <1>2

LEMMA DeliveryKeeps ==
    ASSUME DeliveryP!IInv
    PROVE  Delivery!TypeOK /\ Delivery!DeletedWasExecuted /\ Delivery!RepeatsNeedExpiry
BY DeliveryAssumption, DeliveryP!CountsAreRight DEF
   Delivery!TypeOK, DeliveryP!TypeOK, Delivery!Places, DeliveryP!Places,
   Delivery!DeletedWasExecuted, DeliveryP!DeletedWasExecuted, Delivery!RepeatsNeedExpiry,
   DeliveryP!RepeatsNeedExpiry, Delivery!Cardinality, DeliveryP!Cardinality

\* The listeners that take batches.
LEMMA BatchesAssumption == BatchesP!ListenerAssumption
BY QueuesAssumption
   DEF Batches!ListenerAssumption, BatchesP!ListenerAssumption, Batches!IsFiniteSet, BatchesP!IsFiniteSet

LEMMA BatchesStarts == ASSUME Batches!Init PROVE BatchesP!IInv
<1>1. BatchesP!Init
    BY DEF
       Batches!Init, BatchesP!Init
<1> QED BY <1>1, BatchesAssumption, BatchesP!InitInvariant

LEMMA BatchesGoes ==
    ASSUME BatchesP!IInv, Batches!Next \/ UNCHANGED vars
    PROVE  BatchesP!IInv'
<1>1. CASE Batches!Next
  <2>1. BatchesP!Next
      BY <1>1
      DEF
       Batches!Next, BatchesP!Next, Batches!Send, BatchesP!Send, Batches!Expire,
       BatchesP!Expire, Batches!Round, BatchesP!Round, Batches!Receive, BatchesP!Receive,
       Batches!ReceiveFails, BatchesP!ReceiveFails, Batches!NoContext, BatchesP!NoContext,
       Batches!Store, BatchesP!Store, Batches!StoreFails, BatchesP!StoreFails, Batches!Execute,
       BatchesP!Execute, Batches!ExecuteLogFails, BatchesP!ExecuteLogFails, Batches!Ack,
       BatchesP!Ack, Batches!AskStop, BatchesP!AskStop, Batches!End, BatchesP!End, Batches!Up,
       BatchesP!Up, Batches!Hidden, BatchesP!Hidden, Batches!Deleted, BatchesP!Deleted,
       Batches!Fault, BatchesP!Fault, Batches!NoFault, BatchesP!NoFault, Batches!Goes,
       BatchesP!Goes, Batches!Cardinality, BatchesP!Cardinality
  <2> QED BY <2>1, BatchesAssumption, BatchesP!InvariantStep
<1>2. CASE UNCHANGED vars
  <2>1. UNCHANGED BatchesP!vars
      BY <1>2 DEF BatchesP!vars, vars, ofListener
  <2> QED BY <2>1, BatchesAssumption, BatchesP!InvariantStep
<1> QED BY <1>1, <1>2

LEMMA BatchesKeeps ==
    ASSUME BatchesP!IInv
    PROVE  Batches!TypeOK /\ Batches!DeletedWasExecuted /\ Batches!RepeatsNeedExpiry
BY BatchesAssumption, BatchesP!CountsAreRight DEF
   Batches!TypeOK, BatchesP!TypeOK, Batches!Places, BatchesP!Places, Batches!DeletedWasExecuted,
   BatchesP!DeletedWasExecuted, Batches!RepeatsNeedExpiry, BatchesP!RepeatsNeedExpiry,
   Batches!Cardinality, BatchesP!Cardinality

\* The runs that receive.
LEMMA CommandsAssumption == CommandsP!QueueCommandsAssumption
BY QueuesAssumption
   DEF Commands!QueueCommandsAssumption, CommandsP!QueueCommandsAssumption, Commands!Messages, CommandsP!Messages, Commands!IsInjective, CommandsP!IsInjective

LEMMA CommandsStarts == ASSUME Commands!Init PROVE CommandsP!IInv
<1>1. CommandsP!Init
    BY DEF
       Commands!Init, CommandsP!Init, Commands!Messages, CommandsP!Messages, Commands!NoRows,
       CommandsP!NoRows
<1> QED BY <1>1, CommandsAssumption, CommandsP!InitInvariant

LEMMA CommandsGoes ==
    ASSUME CommandsP!IInv, Commands!Next \/ UNCHANGED vars
    PROVE  CommandsP!IInv'
<1>1. CASE Commands!Next
  <2>1. CommandsP!Next
      BY <1>1
      DEF
       Commands!Next, CommandsP!Next, Commands!SendOne, CommandsP!SendOne, Commands!SendFails,
       CommandsP!SendFails, Commands!SendDone, CommandsP!SendDone, Commands!Step,
       CommandsP!Step, Commands!Poll, CommandsP!Poll, Commands!PollFails, CommandsP!PollFails,
       Commands!EmptyPoll, CommandsP!EmptyPoll, Commands!Filled, CommandsP!Filled,
       Commands!Read, CommandsP!Read, Commands!ReadFails, CommandsP!ReadFails, Commands!Expire,
       CommandsP!Expire, Commands!Polling, CommandsP!Polling, Commands!Slots, CommandsP!Slots,
       Commands!Visible, CommandsP!Visible, Commands!Taken, CommandsP!Taken, Commands!Readable,
       CommandsP!Readable, Commands!Messages, CommandsP!Messages, Commands!SetToSeqs,
       CommandsP!SetToSeqs, Commands!Cardinality, CommandsP!Cardinality
  <2> QED BY <2>1, CommandsAssumption, CommandsP!InvariantStep
<1>2. CASE UNCHANGED vars
  <2>1. UNCHANGED CommandsP!vars
      BY <1>2 DEF CommandsP!vars, vars, ofCommands
  <2> QED BY <2>1, CommandsAssumption, CommandsP!InvariantStep
<1> QED BY <1>1, <1>2

LEMMA CommandsKeeps ==
    ASSUME CommandsP!IInv
    PROVE  Commands!TypeOK /\ Commands!SharedOnlyByTimeout /\ Commands!GaveUpAfterRetries
BY CommandsAssumption, CommandsP!CommandsAreRight DEF
   Commands!TypeOK, CommandsP!TypeOK, Commands!SharedOnlyByTimeout,
   CommandsP!SharedOnlyByTimeout, Commands!GaveUpAfterRetries, CommandsP!GaveUpAfterRetries,
   Commands!Copies, CommandsP!Copies, Commands!Messages, CommandsP!Messages,
   Commands!Cardinality, CommandsP!Cardinality

-----------------------------------------------------------------------------
(* The inductive invariant: that of the part that is followed.             *)

QueuesInv ==
    /\ part \in {"reader", "export", "delivery", "batches", "commands"}
    /\ part = "reader" => ReaderP!IInv
    /\ part = "export" => ExportP!IInv
    /\ part = "delivery" => DeliveryP!IInv
    /\ part = "batches" => BatchesP!IInv
    /\ part = "commands" => CommandsP!IInv

\* Whatever part is followed, its invariant holds and goes on to hold.
THEOREM InductiveInvariant == Spec => []QueuesInv
<1>1. Init => QueuesInv
    BY ReaderStarts, ExportStarts, DeliveryStarts, BatchesStarts, CommandsStarts DEF Init, QueuesInv
<1>2. QueuesInv /\ [Next]_vars => QueuesInv'
  <2> SUFFICES ASSUME QueuesInv, [Next]_vars PROVE QueuesInv'
      OBVIOUS
  <2>1. part' = part
      BY DEF Next, OfReader, OfListener, OfCommands, vars
  <2>2. CASE part = "reader"
    <3>1. Reader!Next \/ UNCHANGED vars
        BY <2>2 DEF Next, OfReader, OfListener, OfCommands
    <3> QED BY <2>1, <2>2, <3>1, ReaderGoes DEF QueuesInv
  <2>3. CASE part = "export"
    <3>1. Export!Next \/ UNCHANGED vars
        BY <2>3 DEF Next, OfReader, OfListener, OfCommands
    <3> QED BY <2>1, <2>3, <3>1, ExportGoes DEF QueuesInv
  <2>4. CASE part = "delivery"
    <3>1. Delivery!Next \/ UNCHANGED vars
        BY <2>4 DEF Next, OfReader, OfListener, OfCommands
    <3> QED BY <2>1, <2>4, <3>1, DeliveryGoes DEF QueuesInv
  <2>5. CASE part = "batches"
    <3>1. Batches!Next \/ UNCHANGED vars
        BY <2>5 DEF Next, OfReader, OfListener, OfCommands
    <3> QED BY <2>1, <2>5, <3>1, BatchesGoes DEF QueuesInv
  <2>6. CASE part = "commands"
    <3>1. Commands!Next \/ UNCHANGED vars
        BY <2>6 DEF Next, OfReader, OfListener, OfCommands
    <3> QED BY <2>1, <2>6, <3>1, CommandsGoes DEF QueuesInv
  <2> QED BY <2>2, <2>3, <2>4, <2>5, <2>6 DEF QueuesInv
<1> QED BY <1>1, <1>2, PTL DEF Spec

\* queue_reader_thread.py: every reception of a message is in a row of the export
\* table or in the batch of one reader, a reader that gives up by itself has
\* written all it had received, and one that sees no tenant takes nothing.
THEOREM ReadersAccount == Spec => []ReaderKeepsAccount
<1>1. QueuesInv => ReaderKeepsAccount
    BY ReaderKeeps, ExportKeeps DEF QueuesInv, ReaderKeepsAccount
<1> QED BY <1>1, InductiveInvariant, PTL

\* mock_queue_listener_thread.py: a message is deleted only after its commands ran,
\* and they run at most once more than its visibility timeout expired.
THEOREM NothingIsDropped == Spec => []ExecutedThenDeleted
<1>1. QueuesInv => ExecutedThenDeleted
    BY DeliveryKeeps, BatchesKeeps DEF QueuesInv, ExecutedThenDeleted
<1> QED BY <1>1, InductiveInvariant, PTL

\* amazon_sqs_connection_service.py and receive_queue_command_executor.py: two runs
\* share a message only by its timeout, and a run that gives up has made its retries.
THEOREM ReceiversShareByTimeout == Spec => []ReceiversAreApart
<1>1. QueuesInv => ReceiversAreApart
    BY CommandsKeeps DEF QueuesInv, ReceiversAreApart
<1> QED BY <1>1, InductiveInvariant, PTL

=============================================================================
