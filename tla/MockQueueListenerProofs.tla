------------------------ MODULE MockQueueListenerProofs ------------------------
(***************************************************************************)
(* Proofs about MockQueueListener: for any listeners, messages, sizes of a *)
(* batch and failures, nothing is deleted before its commands ran, and     *)
(* they run at most once more than the visibility timeout expired.         *)
(***************************************************************************)
EXTENDS MockQueueListener, FiniteSetTheorems, TLAPS

-----------------------------------------------------------------------------
(* The inductive invariant.                                                *)

\* The listeners that will execute the commands for m; those of them that have
\* stored the invocation already.
Pending(m) == {l \in Listeners : pc[l] \in {"received", "stored"} /\ m \in batch[l]}
Ready(m) == {l \in Listeners : pc[l] = "stored" /\ m \in batch[l]}

\* The queue has given m away once more than it took it back.
Away(m) == IF queue[m] \in {"hidden", "deleted"} THEN 1 ELSE 0

\* Every execution, done or to come, belongs to a reception of its own.
ExecutionsAreReceived(m) ==
    expiries[m] = MaxCount \/ executed[m] + Cardinality(Pending(m)) <= expiries[m] + Away(m)

\* Every execution, done or to come, belongs to an invocation of its own.
ExecutionsAreStored(m) ==
    stored[m] = MaxCount \/ executed[m] + Cardinality(Ready(m)) <= stored[m]

\* What is about to be acknowledged was executed.
AcksAreDue == \A l \in Listeners : pc[l] = "executed" => \A m \in batch[l] : executed[m] > 0

IInv ==
    /\ TypeOK
    /\ AcksAreDue
    /\ DeletedWasExecuted
    /\ \A m \in Messages : ExecutionsAreReceived(m) /\ ExecutionsAreStored(m)

-----------------------------------------------------------------------------
(* Lemmas.                                                                 *)

\* The sets of listeners are finite, and a set within another is no larger.
LEMMA CountsAreNumbers ==
    ASSUME ListenerAssumption, NEW m
    PROVE  /\ IsFiniteSet(Pending(m)) /\ IsFiniteSet(Ready(m))
           /\ Cardinality(Pending(m)) \in Nat /\ Cardinality(Ready(m)) \in Nat
<1>1. IsFiniteSet(Listeners) /\ Pending(m) \subseteq Listeners /\ Ready(m) \subseteq Listeners
    BY DEF ListenerAssumption, Pending, Ready
<1>2. IsFiniteSet(Pending(m)) /\ IsFiniteSet(Ready(m))
    BY <1>1, FS_Subset
<1> QED BY <1>2, FS_CardinalityType

LEMMA CountsAreNumbersNext ==
    ASSUME ListenerAssumption, NEW m
    PROVE  Cardinality(Pending(m))' \in Nat /\ Cardinality(Ready(m))' \in Nat
<1>1. IsFiniteSet(Listeners) /\ Pending(m)' \subseteq Listeners /\ Ready(m)' \subseteq Listeners
    BY DEF ListenerAssumption, Pending, Ready
<1> QED BY <1>1, FS_Subset, FS_CardinalityType

\* Nothing more is to be executed.
LEMMA FewerPending ==
    ASSUME ListenerAssumption, NEW m, Pending(m)' \subseteq Pending(m)
    PROVE  Cardinality(Pending(m))' <= Cardinality(Pending(m))
BY CountsAreNumbers, FS_Subset

LEMMA FewerReady ==
    ASSUME ListenerAssumption, NEW m, Ready(m)' \subseteq Ready(m)
    PROVE  Cardinality(Ready(m))' <= Cardinality(Ready(m))
BY CountsAreNumbers, FS_Subset

LEMMA UpIsCapped ==
    ASSUME ListenerAssumption, NEW n \in 0 .. MaxCount
    PROVE  /\ Up(n) \in 0 .. MaxCount /\ n <= Up(n) /\ Up(n) <= n + 1 /\ Up(n) > 0
           /\ Up(n) = MaxCount \/ Up(n) = n + 1
           /\ n = MaxCount => Up(n) = MaxCount
BY DEF ListenerAssumption, Up

LEMMA InitInvariant == ASSUME ListenerAssumption, Init PROVE IInv
<1>1. \A m \in Messages : Pending(m) = {} /\ Ready(m) = {}
    BY DEF Init, Pending, Ready
<1>2. \A m \in Messages : ExecutionsAreReceived(m) /\ ExecutionsAreStored(m)
    BY <1>1, FS_EmptySet DEF Init, ExecutionsAreReceived, ExecutionsAreStored, Away
<1>3. TypeOK
    BY DEF Init, TypeOK, Places, ListenerAssumption
<1> QED BY <1>2, <1>3 DEF IInv, Init, AcksAreDue, DeletedWasExecuted

\* What the counters of one message are.
LEMMA CountersAreNumbers ==
    ASSUME ListenerAssumption, TypeOK, NEW m \in Messages
    PROVE  /\ executed[m] \in 0 .. MaxCount /\ stored[m] \in 0 .. MaxCount
           /\ expiries[m] \in 0 .. MaxCount /\ MaxCount \in Nat /\ MaxCount > 0
           /\ Away(m) \in 0 .. 1
BY DEF TypeOK, ListenerAssumption, Away

\* A step that executes and stores nothing, takes no message back and gives
\* none to a listener keeps the counts of a message.
LEMMA CountsKept ==
    ASSUME ListenerAssumption, TypeOK, NEW m \in Messages,
           ExecutionsAreReceived(m), ExecutionsAreStored(m),
           Pending(m)' \subseteq Pending(m), Ready(m)' \subseteq Ready(m),
           UNCHANGED <<executed, stored, expiries>>,
           Away(m)' \in {0, 1}, Away(m) <= Away(m)'
    PROVE  ExecutionsAreReceived(m)' /\ ExecutionsAreStored(m)'
<1> DEFINE p == Cardinality(Pending(m))
           s == Cardinality(Ready(m))
<1>1. p \in Nat /\ s \in Nat /\ p' \in Nat /\ s' \in Nat
    BY CountsAreNumbers, CountsAreNumbersNext
<1>2. p' <= p /\ s' <= s
    BY FewerPending, FewerReady
<1> HIDE DEF p, s
<1>3. /\ expiries[m] = MaxCount \/ executed[m] + p <= expiries[m] + Away(m)
      /\ stored[m] = MaxCount \/ executed[m] + s <= stored[m]
    BY DEF ExecutionsAreReceived, ExecutionsAreStored, p, s
<1>4. /\ expiries'[m] = MaxCount \/ executed'[m] + p' <= expiries'[m] + Away(m)'
      /\ stored'[m] = MaxCount \/ executed'[m] + s' <= stored'[m]
    BY <1>1, <1>2, <1>3, CountersAreNumbers
<1> QED BY <1>4 DEF ExecutionsAreReceived, ExecutionsAreStored, p, s

-----------------------------------------------------------------------------
(* One lemma for each kind of step.                                        *)

\* A producer sends; the queue takes nothing back.
LEMMA SendStep ==
    ASSUME ListenerAssumption, IInv, NEW n \in Messages, Send(n)
    PROVE  IInv'
<1>1. TypeOK'
    BY DEF IInv, TypeOK, Send
<1>2. AcksAreDue' /\ DeletedWasExecuted'
    BY DEF IInv, TypeOK, AcksAreDue, DeletedWasExecuted, Send
<1>3. ASSUME NEW m \in Messages PROVE ExecutionsAreReceived(m)' /\ ExecutionsAreStored(m)'
  <2>1. Pending(m)' = Pending(m) /\ Ready(m)' = Ready(m)
      BY DEF Pending, Ready, Send
  <2>2. Away(m)' \in {0, 1} /\ Away(m) <= Away(m)'
      BY DEF Away, Send, IInv, TypeOK
  <2> QED BY <2>1, <2>2, CountsKept DEF IInv, Send
<1> QED BY <1>1, <1>2, <1>3 DEF IInv

\* The timeout of a message: the queue takes it back, and counts that.
LEMMA ExpireStep ==
    ASSUME ListenerAssumption, IInv, NEW n \in Messages, Expire(n)
    PROVE  IInv'
<1>1. expiries' \in [Messages -> 0 .. MaxCount] /\ expiries'[n] = Up(expiries[n])
      /\ \A m \in Messages : m # n => expiries'[m] = expiries[m]
    BY UpIsCapped DEF IInv, TypeOK, Expire
<1>2. TypeOK'
    BY <1>1 DEF IInv, TypeOK, Expire
<1>3. AcksAreDue' /\ DeletedWasExecuted'
    BY DEF IInv, TypeOK, AcksAreDue, DeletedWasExecuted, Expire
<1>4. ASSUME NEW m \in Messages PROVE ExecutionsAreReceived(m)' /\ ExecutionsAreStored(m)'
  <2> DEFINE p == Cardinality(Pending(m))
             s == Cardinality(Ready(m))
  <2>1. p' = p /\ s' = s /\ p \in Nat
      BY CountsAreNumbers DEF Pending, Ready, Expire
  <2>2. ExecutionsAreStored(m)'
      BY <2>1 DEF IInv, ExecutionsAreStored, Expire
  <2> HIDE DEF p, s
  <2>3. expiries[m] = MaxCount \/ executed[m] + p <= expiries[m] + Away(m)
      BY DEF IInv, ExecutionsAreReceived, p
  <2>4. CASE m = n
    <3>1. Away(m) = 1 /\ Away(m)' = 0 /\ executed'[m] = executed[m]
        BY <2>4 DEF Away, Expire, IInv, TypeOK
    <3>2. Up(expiries[m]) = MaxCount \/ Up(expiries[m]) = expiries[m] + 1
        BY UpIsCapped, CountersAreNumbers DEF IInv
    <3>3. expiries[m] = MaxCount => Up(expiries[m]) = MaxCount
        BY UpIsCapped, CountersAreNumbers DEF IInv
    <3>4. executed[m] \in Nat /\ expiries[m] \in Nat /\ expiries'[m] = Up(expiries[m])
        BY <1>1, <2>4, CountersAreNumbers DEF IInv
    <3>5. expiries'[m] = MaxCount \/ executed'[m] + p' <= expiries'[m] + Away(m)'
        BY <2>1, <2>3, <3>1, <3>2, <3>3, <3>4
    <3> QED BY <2>2, <3>5 DEF ExecutionsAreReceived, p
  <2>5. CASE m # n
    <3>1. Away(m)' = Away(m) /\ executed'[m] = executed[m] /\ expiries'[m] = expiries[m]
        BY <1>1, <2>5 DEF Away, Expire, IInv, TypeOK
    <3> QED BY <2>1, <2>2, <2>3, <3>1 DEF ExecutionsAreReceived, p
  <2> QED BY <2>4, <2>5
<1> QED BY <1>2, <1>3, <1>4 DEF IInv

\* A listener gets messages the queue had: each is given away once more.
LEMMA ReceiveStep ==
    ASSUME ListenerAssumption, IInv, NEW l \in Listeners, NEW S \in SUBSET Messages, Receive(l, S)
    PROVE  IInv'
<1>1. TypeOK'
    BY DEF IInv, TypeOK, Receive, Hidden, Goes, NoFault, Places
<1>2. pc' = [pc EXCEPT ![l] = "received"] /\ batch' = [batch EXCEPT ![l] = S]
      /\ pc \in [Listeners -> Places] /\ batch \in [Listeners -> SUBSET Messages]
      /\ pc[l] = "poll" /\ UNCHANGED <<executed, stored, expiries>>
    BY DEF IInv, TypeOK, Receive, Goes
<1>3. AcksAreDue' /\ DeletedWasExecuted'
  <2>1. \A k \in Listeners : pc'[k] = "executed" => pc[k] = "executed" /\ batch'[k] = batch[k]
      BY <1>2
  <2>2. \A m \in Messages : queue'[m] = "deleted" => queue[m] = "deleted"
      BY DEF Receive, Hidden
  <2> QED BY <1>2, <2>1, <2>2 DEF IInv, AcksAreDue, DeletedWasExecuted
<1>4. ASSUME NEW m \in Messages PROVE ExecutionsAreReceived(m)' /\ ExecutionsAreStored(m)'
  <2>1. Ready(m)' = Ready(m)
      BY <1>2 DEF Ready
  <2>2. CASE m \notin S
    <3>1. Pending(m)' = Pending(m)
        BY <1>2, <2>2 DEF Pending
    <3>2. Away(m)' \in {0, 1} /\ Away(m) <= Away(m)'
        BY <2>2 DEF Away, Receive, Hidden
    <3> QED BY <1>2, <2>1, <3>1, <3>2, CountsKept DEF IInv
  <2>3. CASE m \in S
    <3> DEFINE p == Cardinality(Pending(m))
    <3>1. Pending(m)' = Pending(m) \cup {l} /\ l \notin Pending(m)
        BY <1>2, <2>3 DEF Pending
    <3>2. p \in Nat /\ p' = p + 1
        BY <3>1, CountsAreNumbers, FS_AddElement
    <3>3. Away(m) = 0 /\ Away(m)' = 1
        BY <2>3 DEF Away, Receive, Hidden
    <3> HIDE DEF p
    <3>4. expiries[m] = MaxCount \/ executed[m] + p <= expiries[m] + Away(m)
        BY DEF IInv, ExecutionsAreReceived, p
    <3>5. expiries[m] = MaxCount \/ executed[m] + p' <= expiries[m] + Away(m)'
        BY <3>2, <3>3, <3>4, CountersAreNumbers DEF IInv
    <3>6. ExecutionsAreReceived(m)'
        BY <1>2, <3>5 DEF ExecutionsAreReceived, p
    <3> QED BY <1>2, <2>1, <3>6 DEF IInv, ExecutionsAreStored
  <2> QED BY <2>2, <2>3
<1> QED BY <1>1, <1>3, <1>4 DEF IInv

\* The messages are out of the queue, and no listener has them.
LEMMA ReceiveFailsStep ==
    ASSUME ListenerAssumption, IInv, NEW l \in Listeners, NEW S \in SUBSET Messages, ReceiveFails(l, S)
    PROVE  IInv'
<1>1. TypeOK'
    BY DEF IInv, TypeOK, ReceiveFails, Hidden, Fault, ListenerAssumption
<1>2. AcksAreDue' /\ DeletedWasExecuted'
  <2>1. \A m \in Messages : queue'[m] = "deleted" => queue[m] = "deleted"
      BY DEF ReceiveFails, Hidden
  <2> QED BY <2>1 DEF IInv, AcksAreDue, DeletedWasExecuted, ReceiveFails
<1>3. ASSUME NEW m \in Messages PROVE ExecutionsAreReceived(m)' /\ ExecutionsAreStored(m)'
  <2>1. Pending(m)' = Pending(m) /\ Ready(m)' = Ready(m)
      BY DEF Pending, Ready, ReceiveFails
  <2>2. Away(m)' \in {0, 1} /\ Away(m) <= Away(m)'
      BY DEF Away, ReceiveFails, Hidden
  <2> QED BY <2>1, <2>2, CountsKept DEF IInv, ReceiveFails
<1> QED BY <1>1, <1>2, <1>3 DEF IInv

\* The ends of a listener, and the request to stop.
LEMMA LeaveStep ==
    ASSUME ListenerAssumption, IInv, NEW l \in Listeners,
           NoContext(l) \/ StoreFails(l) \/ AskStop(l) \/ End(l)
    PROVE  IInv'
<1>1. /\ UNCHANGED <<queue, batch, stored, executed, expiries>> /\ (UNCHANGED faults \/ Fault)
      /\ UNCHANGED pc \/ pc' = [pc EXCEPT ![l] = "dead"] \/ pc' = [pc EXCEPT ![l] = "ended"]
      /\ stop' \subseteq Listeners
    BY DEF NoContext, StoreFails, AskStop, End, Goes, NoFault, IInv, TypeOK
<1>2. pc \in [Listeners -> Places] /\ batch \in [Listeners -> SUBSET Messages]
    BY DEF IInv, TypeOK
<1>3. \A k \in Listeners : pc'[k] \in {"received", "stored", "executed"} => pc'[k] = pc[k]
    BY <1>1, <1>2
<1>4. TypeOK'
    BY <1>1 DEF IInv, TypeOK, Fault, Places, ListenerAssumption
<1>5. AcksAreDue' /\ DeletedWasExecuted'
    BY <1>1, <1>3 DEF IInv, AcksAreDue, DeletedWasExecuted
<1>6. ASSUME NEW m \in Messages PROVE ExecutionsAreReceived(m)' /\ ExecutionsAreStored(m)'
  <2>1. Pending(m)' \subseteq Pending(m) /\ Ready(m)' \subseteq Ready(m)
      BY <1>1, <1>3 DEF Pending, Ready
  <2>2. Away(m)' \in {0, 1} /\ Away(m) <= Away(m)'
      BY <1>1 DEF Away
  <2> QED BY <1>1, <2>1, <2>2, CountsKept DEF IInv
<1> QED BY <1>4, <1>5, <1>6 DEF IInv

\* An invocation for each message of the batch.
LEMMA StoreStep ==
    ASSUME ListenerAssumption, IInv, NEW l \in Listeners, Store(l)
    PROVE  IInv'
<1>1. /\ pc' = [pc EXCEPT ![l] = "stored"] /\ pc[l] = "received"
      /\ UNCHANGED <<queue, batch, stop, executed, expiries, faults>>
      /\ pc \in [Listeners -> Places] /\ batch \in [Listeners -> SUBSET Messages]
    BY DEF IInv, TypeOK, Store, Goes, NoFault
<1>2. /\ stored' \in [Messages -> 0 .. MaxCount]
      /\ \A m \in Messages : stored'[m] = IF m \in batch[l] THEN Up(stored[m]) ELSE stored[m]
    BY UpIsCapped DEF IInv, TypeOK, Store
<1>3. TypeOK'
    BY <1>1, <1>2 DEF IInv, TypeOK, Places
<1>4. AcksAreDue' /\ DeletedWasExecuted'
  <2>1. \A k \in Listeners : pc'[k] = "executed" => pc[k] = "executed"
      BY <1>1
  <2> QED BY <1>1, <2>1 DEF IInv, AcksAreDue, DeletedWasExecuted
<1>5. ASSUME NEW m \in Messages PROVE ExecutionsAreReceived(m)' /\ ExecutionsAreStored(m)'
  <2>1. Pending(m)' = Pending(m)
      BY <1>1 DEF Pending
  <2>2. ExecutionsAreReceived(m)'
      BY <1>1, <2>1 DEF IInv, ExecutionsAreReceived, Away
  <2> DEFINE s == Cardinality(Ready(m))
  <2>3. s \in Nat /\ (stored[m] = MaxCount \/ executed[m] + s <= stored[m])
      BY CountsAreNumbers DEF IInv, ExecutionsAreStored
  <2>4. CASE m \in batch[l]
    <3>1. Ready(m)' = Ready(m) \cup {l} /\ l \notin Ready(m)
        BY <1>1, <2>4 DEF Ready
    <3>2. s' = s + 1
        BY <3>1, CountsAreNumbers, FS_AddElement
    <3> HIDE DEF s
    <3>3. Up(stored[m]) = MaxCount \/ Up(stored[m]) = stored[m] + 1
        BY UpIsCapped, CountersAreNumbers DEF IInv
    <3>4. stored[m] = MaxCount => Up(stored[m]) = MaxCount
        BY UpIsCapped, CountersAreNumbers DEF IInv
    <3>5. executed[m] \in Nat /\ stored[m] \in Nat /\ stored'[m] = Up(stored[m])
        BY <1>2, <2>4, CountersAreNumbers DEF IInv
    <3>6. stored'[m] = MaxCount \/ executed[m] + s' <= stored'[m]
        BY <2>3, <3>2, <3>3, <3>4, <3>5
    <3> QED BY <1>1, <2>2, <3>6 DEF ExecutionsAreStored, s
  <2>5. CASE m \notin batch[l]
    <3>1. Ready(m)' = Ready(m)
        BY <1>1, <2>5 DEF Ready
    <3> QED BY <1>1, <1>2, <2>2, <2>3, <2>5, <3>1 DEF ExecutionsAreStored
  <2> QED BY <2>4, <2>5
<1> QED BY <1>3, <1>4, <1>5 DEF IInv

\* The commands run for each message of the batch: one execution less to come.
LEMMA ExecuteStep ==
    ASSUME ListenerAssumption, IInv, NEW l \in Listeners,
           (\E o \in {"succeeded", "failed"} : Execute(l, o)) \/ ExecuteLogFails(l)
    PROVE  IInv'
<1>1. /\ pc' = [pc EXCEPT ![l] = "executed"] \/ pc' = [pc EXCEPT ![l] = "dead"]
      /\ pc[l] = "stored" /\ (UNCHANGED faults \/ Fault)
      /\ UNCHANGED <<queue, batch, stop, stored, expiries>>
      /\ pc \in [Listeners -> Places] /\ batch \in [Listeners -> SUBSET Messages]
    BY DEF IInv, TypeOK, Execute, ExecuteLogFails, Goes, NoFault
<1>2. /\ executed' \in [Messages -> 0 .. MaxCount]
      /\ \A m \in Messages : executed'[m] = IF m \in batch[l] THEN Up(executed[m]) ELSE executed[m]
    BY UpIsCapped DEF IInv, TypeOK, Execute, ExecuteLogFails
<1>3. \A m \in Messages : /\ executed[m] \in 0 .. MaxCount /\ executed[m] <= executed'[m]
                          /\ executed'[m] <= executed[m] + 1
                          /\ m \in batch[l] => executed'[m] > 0
                          /\ m \notin batch[l] => executed'[m] = executed[m]
  <2> SUFFICES ASSUME NEW m \in Messages
               PROVE  /\ executed[m] \in 0 .. MaxCount /\ executed[m] <= executed'[m]
                      /\ executed'[m] <= executed[m] + 1
                      /\ m \in batch[l] => executed'[m] > 0
                      /\ m \notin batch[l] => executed'[m] = executed[m]
      OBVIOUS
  <2>1. executed[m] \in 0 .. MaxCount
      BY DEF IInv, TypeOK
  <2>2. /\ executed[m] <= Up(executed[m]) /\ Up(executed[m]) <= executed[m] + 1
        /\ Up(executed[m]) > 0
      BY <2>1, UpIsCapped
  <2> QED BY <1>2, <2>1, <2>2
<1>4. TypeOK'
    BY <1>1, <1>2 DEF IInv, TypeOK, Places, Fault, ListenerAssumption
<1>5. AcksAreDue'
  <2> SUFFICES ASSUME NEW k \in Listeners, pc'[k] = "executed", NEW m \in batch[k]
               PROVE  executed'[m] > 0
      BY <1>1 DEF AcksAreDue
  <2>1. m \in Messages
      BY <1>1
  <2>2. CASE k = l
      BY <1>3, <2>1, <2>2
  <2>3. CASE k # l
    <3>1. pc[k] = "executed"
        BY <1>1, <2>3
    <3>2. executed[m] > 0
        BY <3>1 DEF IInv, AcksAreDue
    <3>3. executed[m] \in Int /\ executed'[m] \in Int /\ executed[m] <= executed'[m]
        BY <1>2, <1>3, <2>1
    <3> QED BY <3>2, <3>3
  <2> QED BY <2>2, <2>3
<1>6. DeletedWasExecuted'
  <2> SUFFICES ASSUME NEW m \in Messages, queue[m] = "deleted"
               PROVE  executed'[m] > 0
      BY <1>1 DEF DeletedWasExecuted
  <2>1. executed[m] > 0
      BY DEF IInv, DeletedWasExecuted
  <2>2. executed[m] \in Int /\ executed'[m] \in Int /\ executed[m] <= executed'[m]
      BY <1>2, <1>3
  <2> QED BY <2>1, <2>2
<1>7. ASSUME NEW m \in Messages PROVE ExecutionsAreReceived(m)' /\ ExecutionsAreStored(m)'
  <2> DEFINE p == Cardinality(Pending(m))
             s == Cardinality(Ready(m))
  <2>1. p \in Nat /\ s \in Nat /\ p' \in Nat /\ s' \in Nat
      BY CountsAreNumbers, CountsAreNumbersNext
  <2>2. /\ expiries[m] = MaxCount \/ executed[m] + p <= expiries[m] + Away(m)
        /\ stored[m] = MaxCount \/ executed[m] + s <= stored[m]
      BY DEF IInv, ExecutionsAreReceived, ExecutionsAreStored
  <2>3. Away(m)' = Away(m) /\ expiries'[m] = expiries[m] /\ stored'[m] = stored[m]
      BY <1>1 DEF Away
  <2>4. CASE m \in batch[l]
    <3>1. l \in Pending(m) /\ Pending(m)' = Pending(m) \ {l} /\ l \in Ready(m) /\ Ready(m)' = Ready(m) \ {l}
        BY <1>1, <2>4 DEF Pending, Ready
    <3>2. p' = p - 1 /\ s' = s - 1
        BY <3>1, CountsAreNumbers, FS_RemoveElement
    <3> HIDE DEF p, s
    <3>3. executed[m] \in Int /\ executed'[m] \in Int /\ executed'[m] <= executed[m] + 1
        BY <1>2, <1>3
    <3>4. executed'[m] + p' <= executed[m] + p /\ executed'[m] + s' <= executed[m] + s
        BY <2>1, <3>2, <3>3
    <3>5. /\ expiries'[m] = MaxCount \/ executed'[m] + p' <= expiries'[m] + Away(m)'
          /\ stored'[m] = MaxCount \/ executed'[m] + s' <= stored'[m]
      <4>1. expiries[m] \in Int /\ stored[m] \in Int /\ Away(m) \in Int
          BY CountersAreNumbers DEF IInv
      <4> QED BY <2>1, <2>2, <2>3, <3>3, <3>4, <4>1
    <3> QED BY <3>5 DEF ExecutionsAreReceived, ExecutionsAreStored, p, s
  <2>5. CASE m \notin batch[l]
    <3>1. Pending(m)' = Pending(m) /\ Ready(m)' = Ready(m) /\ executed'[m] = executed[m]
        BY <1>1, <1>3, <2>5 DEF Pending, Ready
    <3> QED BY <2>2, <2>3, <3>1 DEF ExecutionsAreReceived, ExecutionsAreStored
  <2> QED BY <2>4, <2>5
<1> QED BY <1>4, <1>5, <1>6, <1>7 DEF IInv

\* The broker deletes what was executed.
LEMMA AckStep ==
    ASSUME ListenerAssumption, IInv, NEW l \in Listeners, NEW S \in SUBSET batch[l], Ack(l, S)
    PROVE  IInv'
<1>1. /\ pc' = [pc EXCEPT ![l] = "poll"] /\ pc[l] = "executed" /\ (UNCHANGED faults \/ Fault)
      /\ batch' = [batch EXCEPT ![l] = {}]
      /\ UNCHANGED <<stop, executed, stored, expiries>>
      /\ pc \in [Listeners -> Places] /\ batch \in [Listeners -> SUBSET Messages]
    BY DEF IInv, TypeOK, Ack, Goes, NoFault
<1>2. queue' \in [Messages -> {"unsent", "visible", "hidden", "deleted"}]
      /\ \A m \in Messages : queue'[m] = IF m \in S THEN "deleted" ELSE queue[m]
    BY DEF IInv, TypeOK, Ack, Deleted
<1>3. TypeOK'
    BY <1>1, <1>2 DEF IInv, TypeOK, Places, Fault, ListenerAssumption
<1>4. AcksAreDue'
  <2>1. \A k \in Listeners : pc'[k] = "executed" => pc[k] = "executed" /\ batch'[k] = batch[k]
      BY <1>1
  <2> QED BY <1>1, <2>1 DEF IInv, AcksAreDue
<1>5. DeletedWasExecuted'
    BY <1>1, <1>2 DEF IInv, AcksAreDue, DeletedWasExecuted
<1>6. ASSUME NEW m \in Messages PROVE ExecutionsAreReceived(m)' /\ ExecutionsAreStored(m)'
  <2>1. Pending(m)' = Pending(m) /\ Ready(m)' = Ready(m)
      BY <1>1 DEF Pending, Ready
  <2>2. Away(m)' \in {0, 1} /\ Away(m) <= Away(m)'
      BY <1>2 DEF Away
  <2> QED BY <1>1, <2>1, <2>2, CountsKept DEF IInv
<1> QED BY <1>3, <1>4, <1>5, <1>6 DEF IInv

-----------------------------------------------------------------------------
(* The theorems.                                                           *)

LEMMA InvariantStep == ASSUME ListenerAssumption, IInv, [Next]_vars PROVE IInv'
<1>1. ASSUME NEW m \in Messages, Send(m) \/ Expire(m)
      PROVE  IInv'
    BY <1>1, SendStep, ExpireStep
<1>2. ASSUME NEW l \in Listeners, NEW S \in SUBSET Messages, Receive(l, S) \/ ReceiveFails(l, S)
      PROVE  IInv'
    BY <1>2, ReceiveStep, ReceiveFailsStep
<1>3. ASSUME NEW l \in Listeners,
             NoContext(l) \/ StoreFails(l) \/ AskStop(l) \/ End(l) \/ Store(l) \/ ExecuteLogFails(l)
      PROVE  IInv'
    BY <1>3, LeaveStep, StoreStep, ExecuteStep
<1>4. ASSUME NEW l \in Listeners, NEW o \in {"succeeded", "failed"}, Execute(l, o)
      PROVE  IInv'
    BY <1>4, ExecuteStep
<1>5. ASSUME NEW l \in Listeners, NEW S \in SUBSET batch[l], Ack(l, S)
      PROVE  IInv'
    BY <1>5, AckStep
<1>6. CASE UNCHANGED vars
  <2>1. UNCHANGED <<queue, pc, batch, stop, stored, executed, expiries, faults>>
      BY <1>6 DEF vars
  <2>2. TypeOK' /\ AcksAreDue' /\ DeletedWasExecuted'
      BY <2>1 DEF IInv, TypeOK, AcksAreDue, DeletedWasExecuted
  <2>3. \A m \in Messages : ExecutionsAreReceived(m)' /\ ExecutionsAreStored(m)'
      BY <2>1 DEF IInv, ExecutionsAreReceived, ExecutionsAreStored, Pending, Ready, Away
  <2> QED BY <2>2, <2>3 DEF IInv
<1> QED BY <1>1, <1>2, <1>3, <1>4, <1>5, <1>6 DEF Next, Round

\* What the counts say about a state.
LEMMA CountsAreRight ==
    ASSUME ListenerAssumption, IInv
    PROVE  TypeOK /\ DeletedWasExecuted /\ RepeatsNeedExpiry
<1>1. RepeatsNeedExpiry
  <2> SUFFICES ASSUME NEW m \in Messages
               PROVE  executed[m] <= expiries[m] + 1 /\ executed[m] <= stored[m]
      BY DEF RepeatsNeedExpiry
  <2>1. Cardinality(Pending(m)) \in Nat /\ Cardinality(Ready(m)) \in Nat
      BY CountsAreNumbers
  <2>2. ExecutionsAreReceived(m) /\ ExecutionsAreStored(m)
      BY DEF IInv
  <2> QED BY <2>1, <2>2, CountersAreNumbers DEF IInv, ExecutionsAreReceived, ExecutionsAreStored
<1> QED BY <1>1 DEF IInv

\* Each execution of the commands, done or to come, belongs to one reception
\* and one invocation of its message.
THEOREM InductiveInvariant == ASSUME ListenerAssumption PROVE Spec => []IInv
<1>1. Init => IInv
    BY InitInvariant
<1>2. IInv /\ [Next]_vars => IInv'
    BY InvariantStep
<1> QED BY <1>1, <1>2, PTL DEF Spec

\* Types of the variables.
THEOREM TypeCorrect == ASSUME ListenerAssumption PROVE Spec => []TypeOK
<1>1. IInv => TypeOK
    BY CountsAreRight
<1> QED BY <1>1, InductiveInvariant, PTL

\* No message is deleted for which the commands were not executed
\* (mock_queue_listener_thread.py), whatever fails.
THEOREM NothingIsDroppedUnseen == ASSUME ListenerAssumption PROVE Spec => []DeletedWasExecuted
<1>1. IInv => DeletedWasExecuted
    BY CountsAreRight
<1> QED BY <1>1, InductiveInvariant, PTL

\* The commands run for a message at most once more than its visibility timeout
\* expired, with any number of listeners on the queue.
THEOREM RepeatsAreByTimeout == ASSUME ListenerAssumption PROVE Spec => []RepeatsNeedExpiry
<1>1. IInv => RepeatsNeedExpiry
    BY CountsAreRight
<1> QED BY <1>1, InductiveInvariant, PTL
=============================================================================
