-------------------------- MODULE QueueCommandsProofs --------------------------
(***************************************************************************)
(* Proofs about QueueCommands: for any messages, any runs that receive     *)
(* them, whatever each asks for, two runs share a message only after its   *)
(* visibility timeout, and one that gives up has made all its retries.     *)
(***************************************************************************)
EXTENDS QueueCommands, FiniteSetTheorems, TLAPS

-----------------------------------------------------------------------------
(* The inductive invariant.                                                *)

Receiver == [pc : {"poll", "read", "done", "failed"}, left : Nat, collected : Seq(Messages), empty : Nat]

\* The queue has given m away once more than it took it back.
Away(m) == IF queue[m] = "hidden" THEN 1 ELSE 0

\* Every copy of a message that a run holds was given away on its own.
CopiesAreReceived(m) == IsFiniteSet(Copies(m)) /\ Cardinality(Copies(m)) <= expiries[m] + Away(m)

\* What the sender has not come to was never sent.
RestUnsent == \A i \in DOMAIN Outbox : i > position => queue[Outbox[i]] = "unsent"

\* A run has counted its empty polls; it reads when it has what it asked for,
\* or after one empty poll more than there are retries.
PollsAreCounted(r) ==
    /\ receiver[r].left <= Retry[r] /\ Len(receiver[r].collected) <= Asked[r]
    /\ receiver[r].pc = "poll" => receiver[r].left + receiver[r].empty = Retry[r]
    /\ receiver[r].pc \in {"read", "done"} =>
           Len(receiver[r].collected) >= Asked[r] \/ receiver[r].empty = Retry[r] + 1
    /\ receiver[r].pc = "done" => target[r] = receiver[r].collected

IInv ==
    /\ queue \in [Messages -> {"unsent", "visible", "hidden"}]
    /\ sender \in {"sending", "done", "failed"} /\ position \in 0 .. Len(Outbox)
    /\ receiver \in [Receivers -> Receiver]
    /\ DOMAIN target = Receivers
    /\ expiries \in [Messages -> 0 .. MaxExpiries]
    /\ RestUnsent
    /\ \A r \in Receivers : PollsAreCounted(r)
    /\ \A m \in Messages : CopiesAreReceived(m)

-----------------------------------------------------------------------------
(* Lemmas.                                                                 *)

LEMMA OutboxIsTyped ==
    ASSUME QueueCommandsAssumption
    PROVE  /\ Outbox \in Seq(Messages) /\ DOMAIN Outbox = 1 .. Len(Outbox) /\ Len(Outbox) \in Nat
           /\ \A i, j \in DOMAIN Outbox : Outbox[i] = Outbox[j] => i = j
           /\ \A i \in DOMAIN Outbox : Outbox[i] \in Messages
           /\ IsFiniteSet(Messages)
<1>1. Outbox \in Seq(Messages) /\ \A i, j \in DOMAIN Outbox : Outbox[i] = Outbox[j] => i = j
    BY DEF QueueCommandsAssumption, IsInjective
<1>2. DOMAIN Outbox = 1 .. Len(Outbox) /\ Len(Outbox) \in Nat
      /\ \A i \in DOMAIN Outbox : Outbox[i] \in Messages
    BY <1>1 DEF Messages
<1>3. Outbox \in Surjection(1 .. Len(Outbox), Messages)
    BY <1>1, <1>2 DEF Surjection, Messages
<1>4. IsFiniteSet(Messages)
    BY <1>2, <1>3, FS_NatSurjection DEF ExistsSurjection
<1> QED BY <1>1, <1>2, <1>4

\* The copies of m are places in what the runs have collected.
LEMMA CopiesAre ==
    ASSUME NEW m, NEW r, NEW i
    PROVE  <<r, i>> \in Copies(m)
               <=> /\ r \in Receivers /\ i \in DOMAIN receiver[r].collected
                   /\ receiver[r].collected[i] = m
BY DEF Copies

LEMMA CopiesAreNext ==
    ASSUME NEW m, NEW r, NEW i
    PROVE  <<r, i>> \in Copies(m)'
               <=> /\ r \in Receivers /\ i \in DOMAIN receiver'[r].collected
                   /\ receiver'[r].collected[i] = m
BY DEF Copies

LEMMA CopiesArePairs ==
    ASSUME NEW m
    PROVE  \A x \in Copies(m) \cup Copies(m)' : \E r, i : x = <<r, i>>
BY DEF Copies

\* The places of two sequences in their concatenation.
LEMMA JoinedPlaces ==
    ASSUME NEW T, NEW a \in Seq(T), NEW b \in Seq(T)
    PROVE  /\ a \o b \in Seq(T) /\ Len(a \o b) = Len(a) + Len(b)
           /\ \A i \in DOMAIN a : i \in DOMAIN (a \o b) /\ (a \o b)[i] = a[i]
           /\ \A k \in DOMAIN b : /\ Len(a) + k \in DOMAIN (a \o b) \ DOMAIN a
                                  /\ (a \o b)[Len(a) + k] = b[k]
           /\ \A i \in DOMAIN (a \o b) : i \in DOMAIN a \/ \E k \in DOMAIN b : i = Len(a) + k
<1>1. /\ Len(a) \in Nat /\ Len(b) \in Nat /\ a \o b \in Seq(T) /\ Len(a \o b) = Len(a) + Len(b)
      /\ DOMAIN a = 1 .. Len(a) /\ DOMAIN b = 1 .. Len(b) /\ DOMAIN (a \o b) = 1 .. Len(a) + Len(b)
    OBVIOUS
<1>2. ASSUME NEW i \in DOMAIN (a \o b), i \notin DOMAIN a
      PROVE  \E k \in DOMAIN b : i = Len(a) + k
  <2>1. i - Len(a) \in 1 .. Len(b) /\ i = Len(a) + (i - Len(a))
      BY <1>1, <1>2
  <2> QED BY <1>1, <2>1
<1>3. \A i \in DOMAIN a : i \in DOMAIN (a \o b) /\ (a \o b)[i] = a[i]
    BY <1>1
<1>4. ASSUME NEW k \in DOMAIN b
      PROVE  Len(a) + k \in DOMAIN (a \o b) \ DOMAIN a /\ (a \o b)[Len(a) + k] = b[k]
    BY <1>1, <1>4
<1> QED BY <1>1, <1>2, <1>3, <1>4

\* What is the same for every run, is the same for the copies.
LEMMA CopiesRest ==
    ASSUME NEW m, \A r \in Receivers : receiver'[r].collected = receiver[r].collected
    PROVE  Copies(m)' = Copies(m)
BY DEF Copies

LEMMA CopiesKept ==
    ASSUME NEW m \in Messages, CopiesAreReceived(m), Copies(m)' = Copies(m),
           expiries \in [Messages -> 0 .. MaxExpiries], MaxExpiries \in Nat,
           expiries'[m] = expiries[m], Away(m)' \in {0, 1}, Away(m) <= Away(m)'
    PROVE  CopiesAreReceived(m)'
<1>1. Cardinality(Copies(m)) \in Nat
    BY FS_CardinalityType DEF CopiesAreReceived
<1>2. expiries[m] \in Nat /\ Away(m) \in {0, 1}
    BY DEF Away
<1> DEFINE c == Cardinality(Copies(m))
<1>3. c' = c /\ c \in Nat /\ c <= expiries[m] + Away(m)
    BY <1>1 DEF CopiesAreReceived
<1> HIDE DEF c
<1>4. c' <= expiries'[m] + Away(m)'
    BY <1>2, <1>3
<1>5. IsFiniteSet(Copies(m))'
    BY DEF CopiesAreReceived
<1> QED BY <1>4, <1>5 DEF c, CopiesAreReceived

\* An order of messages has each of them once.
LEMMA OrderOfMessages ==
    ASSUME QueueCommandsAssumption, NEW T \in SUBSET Messages, NEW order \in SetToSeqs(T)
    PROVE  LET S == {order[i] : i \in DOMAIN order}
           IN  /\ order \in Seq(Messages) /\ S \subseteq Messages
               /\ Len(order) = Cardinality(S) /\ Len(order) \in Nat
               /\ \A i, j \in DOMAIN order : order[i] = order[j] => i = j
<1> DEFINE S == {order[i] : i \in DOMAIN order}
           n == Cardinality(T)
<1>1. IsFiniteSet(T) /\ n \in Nat
    BY OutboxIsTyped, FS_Subset, FS_CardinalityType
<1>2. order \in [1 .. n -> T] /\ \A i, j \in 1 .. n : i # j => order[i] # order[j]
    BY DEF SetToSeqs
<1>3. order \in Seq(Messages) /\ Len(order) = n /\ DOMAIN order = 1 .. n /\ S \subseteq Messages
    BY <1>1, <1>2
<1>4. order \in Bijection(1 .. n, S)
    BY <1>2, <1>3 DEF Bijection, Injection, Surjection, IsInjective
<1>5. Cardinality(S) = n
    BY <1>1, <1>4, FS_CountingElements DEF ExistsBijection
<1> QED BY <1>1, <1>2, <1>3, <1>5

LEMMA InitInvariant == ASSUME QueueCommandsAssumption, Init PROVE IInv
<1>1. receiver \in [Receivers -> Receiver]
  <2>1. <<>> \in Seq(Messages) /\ \A r \in Receivers : Retry[r] \in Nat
      BY DEF QueueCommandsAssumption
  <2>2. ASSUME NEW r \in Receivers
        PROVE  receiver[r] \in Receiver
    <3> DEFINE n == Retry[r]  none == <<>>
    <3>1. n \in Nat /\ none \in Seq(Messages)
        BY <2>1
    <3> HIDE DEF n, none
    <3>2. [pc |-> "poll", left |-> n, collected |-> none, empty |-> 0] \in Receiver
        BY <3>1 DEF Receiver
    <3> QED BY <3>2 DEF Init, n, none
  <2> QED BY <2>2 DEF Init
<1>2. ASSUME NEW r \in Receivers
      PROVE  PollsAreCounted(r)
  <2>1. /\ receiver[r].pc = "poll" /\ receiver[r].left = Retry[r]
        /\ receiver[r].collected = <<>> /\ receiver[r].empty = 0
      BY DEF Init
  <2>2. Retry[r] \in Nat /\ Asked[r] \in Nat /\ Len(<<>>) = 0
      BY DEF QueueCommandsAssumption
  <2> QED BY <2>1, <2>2 DEF PollsAreCounted
<1>3. \A m : Copies(m) = {}
    BY DEF Init, Copies
<1>4. ASSUME NEW m \in Messages PROVE CopiesAreReceived(m)
  <2>1. Copies(m) = {} /\ IsFiniteSet(Copies(m)) /\ Cardinality(Copies(m)) = 0
      BY <1>3, FS_EmptySet
  <2>2. expiries[m] = 0 /\ Away(m) = 0
      BY DEF Init, Away
  <2> QED BY <2>1, <2>2 DEF CopiesAreReceived
<1>5. RestUnsent
    BY OutboxIsTyped DEF Init, RestUnsent
<1> QED BY <1>1, <1>2, <1>4, <1>5, OutboxIsTyped DEF Init, IInv, QueueCommandsAssumption

-----------------------------------------------------------------------------
(* One lemma for each kind of step.                                        *)

\* The sender's next message was never sent before.
LEMMA SendOneStep == ASSUME QueueCommandsAssumption, IInv, SendOne PROVE IInv'
<1> DEFINE k == position + 1
<1>a. /\ position \in 0 .. Len(Outbox) /\ Len(Outbox) \in Nat /\ position < Len(Outbox)
      /\ DOMAIN Outbox = 1 .. Len(Outbox)
    BY OutboxIsTyped DEF IInv, SendOne
<1>b. k \in 1 .. Len(Outbox) /\ k > position /\ \A i \in 1 .. Len(Outbox) : i > k => i > position /\ i # k
    BY <1>a
<1>1. k \in DOMAIN Outbox /\ position' = k /\ Outbox[k] \in Messages
    BY <1>a, <1>b, OutboxIsTyped DEF SendOne
<1>2. queue' = [queue EXCEPT ![Outbox[k]] = "visible"] /\ queue[Outbox[k]] = "unsent"
  <2>1. RestUnsent
      BY DEF IInv
  <2>2. queue[Outbox[k]] = "unsent"
      BY <1>b, <1>1, <2>1 DEF RestUnsent
  <2> QED BY <2>2 DEF SendOne
<1> HIDE DEF k
<1>3. RestUnsent'
  <2> SUFFICES ASSUME NEW i \in DOMAIN Outbox, i > k PROVE queue'[Outbox[i]] = "unsent"
      BY <1>1 DEF RestUnsent
  <2>1. i > position /\ i # k
      BY <1>a, <1>b
  <2>2. Outbox[i] # Outbox[k] /\ Outbox[i] \in Messages
      BY <1>1, <2>1, OutboxIsTyped
  <2>3. queue[Outbox[i]] = "unsent"
      BY <2>1 DEF IInv, RestUnsent
  <2> QED BY <1>2, <2>2, <2>3 DEF IInv
<1>4. \A m \in Messages : CopiesAreReceived(m)'
  <2> SUFFICES ASSUME NEW m \in Messages PROVE CopiesAreReceived(m)'
      OBVIOUS
  <2>1. Away(m)' \in {0, 1} /\ Away(m) <= Away(m)'
      BY <1>1, <1>2 DEF Away, IInv
  <2> QED BY <2>1, CopiesRest, CopiesKept DEF IInv, SendOne, QueueCommandsAssumption
<1>5. \A r \in Receivers : PollsAreCounted(r)'
    BY DEF IInv, PollsAreCounted, SendOne
<1>6. queue' \in [Messages -> {"unsent", "visible", "hidden"}] /\ position' \in 0 .. Len(Outbox)
    BY <1>1, <1>2, OutboxIsTyped DEF IInv
<1> QED BY <1>3, <1>4, <1>5, <1>6 DEF IInv, SendOne

LEMMA SendEndsStep == ASSUME QueueCommandsAssumption, IInv, SendFails \/ SendDone PROVE IInv'
<1>1. UNCHANGED <<queue, position, receiver, target, expiries>> /\ sender' \in {"done", "failed"}
    BY DEF SendFails, SendDone
<1> QED BY <1>1 DEF IInv, RestUnsent, PollsAreCounted, CopiesAreReceived, Copies, Away

\* The queue takes a message back, and counts that.
LEMMA ExpireStep == ASSUME QueueCommandsAssumption, IInv, NEW n \in Messages, Expire(n) PROVE IInv'
<1>1. /\ queue' = [queue EXCEPT ![n] = "visible"] /\ queue[n] = "hidden"
      /\ expiries' = [expiries EXCEPT ![n] = @ + 1] /\ expiries[n] < MaxExpiries
      /\ UNCHANGED <<sender, position, receiver, target>>
    BY DEF Expire
<1>2. /\ queue' \in [Messages -> {"unsent", "visible", "hidden"}]
      /\ expiries' \in [Messages -> 0 .. MaxExpiries]
    BY <1>1 DEF IInv, QueueCommandsAssumption
<1>3. RestUnsent'
    BY <1>1, OutboxIsTyped DEF IInv, RestUnsent
<1>4. \A r \in Receivers : PollsAreCounted(r)'
    BY <1>1 DEF IInv, PollsAreCounted
<1>5. \A m \in Messages : CopiesAreReceived(m)'
  <2> SUFFICES ASSUME NEW m \in Messages PROVE CopiesAreReceived(m)'
      OBVIOUS
  <2>1. Copies(m)' = Copies(m)
      BY <1>1, CopiesRest
  <2>2. CASE m # n
    <3>1. Away(m)' = Away(m) /\ expiries'[m] = expiries[m]
        BY <1>1, <2>2 DEF Away, IInv
    <3> QED BY <2>1, <3>1 DEF IInv, CopiesAreReceived
  <2>3. CASE m = n
    <3>1. Away(m) = 1 /\ Away(m)' = 0 /\ expiries'[m] = expiries[m] + 1 /\ expiries[m] \in Nat
        BY <1>1, <2>3 DEF Away, IInv
    <3> DEFINE c == Cardinality(Copies(m))
    <3>2. c' = c /\ c \in Nat /\ c <= expiries[m] + Away(m) /\ IsFiniteSet(Copies(m))
        BY <2>1, FS_CardinalityType DEF IInv, CopiesAreReceived
    <3> HIDE DEF c
    <3>3. c' <= expiries'[m] + Away(m)'
        BY <3>1, <3>2
    <3> QED BY <2>1, <3>2, <3>3 DEF c, CopiesAreReceived
  <2> QED BY <2>2, <2>3
<1> QED BY <1>1, <1>2, <1>3, <1>4, <1>5 DEF IInv

\* A run whose collected messages stay is replaced by another state of it.
LEMMA RunStep ==
    ASSUME QueueCommandsAssumption, IInv, NEW r \in Receivers, NEW rec \in Receiver,
           receiver' = [receiver EXCEPT ![r] = rec], rec.collected = receiver[r].collected,
           queue' \in [Messages -> {"unsent", "visible", "hidden"}],
           \A m \in Messages : queue'[m] = queue[m] \/ (queue[m] = "visible" /\ queue'[m] = "hidden"),
           UNCHANGED <<sender, position, expiries>>,
           DOMAIN target' = Receivers, \A q \in Receivers : q # r => target'[q] = target[q],
           PollsAreCounted(r)'
    PROVE  IInv'
<1>1. receiver' \in [Receivers -> Receiver] /\ receiver'[r] = rec
      /\ \A q \in Receivers : q # r => receiver'[q] = receiver[q]
    BY DEF IInv
<1>2. \A q \in Receivers : PollsAreCounted(q)'
  <2> SUFFICES ASSUME NEW q \in Receivers, q # r PROVE PollsAreCounted(q)'
      OBVIOUS
  <2> QED BY <1>1 DEF IInv, PollsAreCounted
<1>3. RestUnsent'
    BY OutboxIsTyped DEF IInv, RestUnsent
<1>4. \A m \in Messages : CopiesAreReceived(m)'
  <2> SUFFICES ASSUME NEW m \in Messages PROVE CopiesAreReceived(m)'
      OBVIOUS
  <2>1. Copies(m)' = Copies(m)
      BY <1>1, CopiesRest
  <2>2. Away(m)' \in {0, 1} /\ Away(m) <= Away(m)'
      BY DEF Away
  <2> QED BY <2>1, <2>2, CopiesKept DEF IInv, QueueCommandsAssumption
<1> QED BY <1>1, <1>2, <1>3, <1>4 DEF IInv

\* A run gets messages that nobody else has: the queue has them, and hides them.
LEMMA PollStep ==
    ASSUME QueueCommandsAssumption, IInv, NEW r \in Receivers,
           NEW T \in SUBSET Messages, NEW order \in SetToSeqs(T), Poll(r, order)
    PROVE  IInv'
<1> DEFINE S == {order[i] : i \in DOMAIN order}
           old == receiver[r].collected
           rec == [receiver[r] EXCEPT !.collected = @ \o order]
<1>1. /\ order \in Seq(Messages) /\ S \subseteq Messages /\ Len(order) = Cardinality(S)
      /\ Len(order) \in Nat /\ \A i, j \in DOMAIN order : order[i] = order[j] => i = j
    BY OrderOfMessages
<1>2. /\ Polling(r) /\ S \subseteq Visible /\ Cardinality(S) <= Slots(r) /\ queue' = Taken(S)
      /\ receiver' = [receiver EXCEPT ![r].collected = @ \o order]
      /\ UNCHANGED <<sender, position, target, expiries>>
    BY DEF Poll
<1>3. receiver[r] \in Receiver /\ old \in Seq(Messages) /\ Len(old) \in Nat
  <2>1. receiver[r] \in Receiver
      BY DEF IInv
  <2> QED BY <2>1 DEF Receiver
<1> DEFINE all == old \o order
<1>4. /\ all \in Seq(Messages) /\ Len(all) = Len(old) + Len(order)
      /\ \A i \in DOMAIN old : i \in DOMAIN all /\ all[i] = old[i]
      /\ \A k \in DOMAIN order : Len(old) + k \in DOMAIN all \ DOMAIN old /\ all[Len(old) + k] = order[k]
      /\ \A i \in DOMAIN all : i \in DOMAIN old \/ \E k \in DOMAIN order : i = Len(old) + k
    BY <1>1, <1>3, JoinedPlaces
<1> HIDE DEF all
<1>5. /\ rec \in Receiver /\ rec.collected = all /\ rec.pc = receiver[r].pc
      /\ rec.left = receiver[r].left /\ rec.empty = receiver[r].empty
      /\ receiver' = [receiver EXCEPT ![r] = rec]
  <2>1. rec = [receiver[r] EXCEPT !.collected = all] /\ receiver' = [receiver EXCEPT ![r] = rec]
      BY <1>2 DEF all
  <2> HIDE DEF rec
  <2> QED BY <1>3, <1>4, <2>1 DEF Receiver
<1> HIDE DEF rec
<1>6. /\ receiver' \in [Receivers -> Receiver] /\ receiver'[r] = rec
      /\ \A q \in Receivers : q # r => receiver'[q] = receiver[q]
    BY <1>5 DEF IInv
<1>7. /\ queue' \in [Messages -> {"unsent", "visible", "hidden"}]
      /\ \A m \in Messages : m \in S => queue[m] = "visible" /\ queue'[m] = "hidden"
      /\ \A m \in Messages : m \notin S => queue'[m] = queue[m]
    BY <1>2 DEF IInv, Taken, Visible
<1>8. RestUnsent'
    BY <1>2, <1>7, OutboxIsTyped DEF IInv, RestUnsent
<1>9. \A q \in Receivers : PollsAreCounted(q)'
  <2> SUFFICES ASSUME NEW q \in Receivers PROVE PollsAreCounted(q)'
      OBVIOUS
  <2>1. CASE q # r
      BY <1>2, <1>6, <2>1 DEF IInv, PollsAreCounted
  <2>2. CASE q = r
    <3>1. Len(old) + Len(order) <= Asked[r]
      <4>1. Asked[r] \in Nat
          BY DEF QueueCommandsAssumption
      <4> HIDE DEF S, old
      <4> QED BY <1>1, <1>2, <1>3, <4>1 DEF Slots, old
    <3>2. rec.pc = "poll" /\ PollsAreCounted(r)
        BY <1>2, <1>5 DEF Polling, IInv
    <3>3. Len(rec.collected) <= Asked[r]
        BY <1>4, <1>5, <3>1
    <3> QED BY <1>5, <1>6, <2>2, <3>2, <3>3 DEF PollsAreCounted
  <2> QED BY <2>1, <2>2
<1>10. \A m \in Messages : CopiesAreReceived(m)'
  <2> SUFFICES ASSUME NEW m \in Messages PROVE CopiesAreReceived(m)'
      OBVIOUS
  <2>1. CASE m \notin S
    <3>1. Copies(m)' = Copies(m)
      <4>1. ASSUME NEW q, NEW i PROVE <<q, i>> \in Copies(m)' <=> <<q, i>> \in Copies(m)
        <5>1. CASE q # r
            BY <1>6, <5>1, CopiesAre, CopiesAreNext
        <5>2. CASE q = r
          <6>1. \A j \in DOMAIN order : order[j] # m
              BY <2>1
          <6>2. i \in DOMAIN all /\ all[i] = m <=> i \in DOMAIN old /\ old[i] = m
              BY <1>4, <6>1
          <6> QED BY <1>5, <1>6, <5>2, <6>2, CopiesAre, CopiesAreNext
        <5> QED BY <5>1, <5>2
      <4> QED BY <4>1, CopiesArePairs
    <3>2. Away(m)' \in {0, 1} /\ Away(m) <= Away(m)'
        BY <1>7, <2>1 DEF Away
    <3> QED BY <1>2, <3>1, <3>2, CopiesKept DEF IInv, QueueCommandsAssumption
  <2>2. CASE m \in S
    <3>1. PICK k \in DOMAIN order : order[k] = m
        BY <2>2, Zenon
    <3> DEFINE p == Len(old) + k
    <3>2. p \in DOMAIN all /\ p \notin DOMAIN old /\ all[p] = m
        BY <1>4, <3>1
    <3>3. ASSUME NEW i \in DOMAIN all, i \notin DOMAIN old, all[i] = m
          PROVE  i = p
      <4>1. PICK l \in DOMAIN order : i = Len(old) + l
          BY <1>4, <3>3
      <4>2. order[l] = order[k]
          BY <1>4, <3>1, <3>3, <4>1
      <4> QED BY <1>1, <3>1, <4>1, <4>2
    <3> HIDE DEF p
    <3>4. <<r, p>> \notin Copies(m)
        BY <3>2, CopiesAre
    <3>5. Copies(m)' = Copies(m) \cup {<<r, p>>}
      <4>1. ASSUME NEW q, NEW i
            PROVE  <<q, i>> \in Copies(m)' <=> <<q, i>> \in Copies(m) \/ (q = r /\ i = p)
        <5>1. CASE q # r
            BY <1>6, <5>1, CopiesAre, CopiesAreNext
        <5>2. CASE q = r
          <6>1. i \in DOMAIN all /\ all[i] = m <=> (i \in DOMAIN old /\ old[i] = m) \/ i = p
              BY <1>4, <3>2, <3>3
          <6> QED BY <1>5, <1>6, <5>2, <6>1, CopiesAre, CopiesAreNext
        <5> QED BY <5>1, <5>2
      <4> QED BY <4>1, CopiesArePairs
    <3> DEFINE c == Cardinality(Copies(m))
    <3>a. IsFiniteSet(Copies(m)) /\ c <= expiries[m] + Away(m)
        BY DEF IInv, CopiesAreReceived
    <3>b. /\ IsFiniteSet(Copies(m) \cup {<<r, p>>})
          /\ Cardinality(Copies(m) \cup {<<r, p>>}) = c + 1
        BY <3>4, <3>a, FS_AddElement
    <3>6. /\ c \in Nat /\ c' = c + 1 /\ c <= expiries[m] + Away(m)
          /\ IsFiniteSet(Copies(m)) /\ IsFiniteSet(Copies(m))'
        BY <3>5, <3>a, <3>b, FS_CardinalityType
    <3>c. queue[m] = "visible" /\ queue'[m] = "hidden"
        BY <1>7, <2>2
    <3>7. Away(m) = 0 /\ Away(m)' = 1 /\ expiries'[m] = expiries[m] /\ expiries[m] \in Nat
      <4>1. expiries'[m] = expiries[m] /\ expiries[m] \in Nat
          BY <1>2 DEF IInv, QueueCommandsAssumption
      <4> QED BY <3>c, <4>1 DEF Away
    <3> HIDE DEF c
    <3>8. c' <= expiries'[m] + Away(m)'
        BY <3>6, <3>7
    <3> QED BY <3>6, <3>8 DEF c, CopiesAreReceived
  <2> QED BY <2>1, <2>2
<1> QED BY <1>2, <1>6, <1>7, <1>8, <1>9, <1>10 DEF IInv

\* An empty poll takes one retry; after the last of them the run goes on.
LEMMA EmptyPollStep ==
    ASSUME QueueCommandsAssumption, IInv, NEW r \in Receivers, EmptyPoll(r)
    PROVE  IInv'
<1> DEFINE old == receiver[r]
           pc == IF old.left = 0 THEN "read" ELSE old.pc
           left == IF old.left = 0 THEN 0 ELSE old.left - 1
           empty == old.empty + 1
           rec == [old EXCEPT !.empty = empty, !.pc = pc, !.left = left]
<1>1. /\ old \in Receiver /\ old.pc = "poll" /\ PollsAreCounted(r) /\ Retry[r] \in Nat
      /\ receiver' = [receiver EXCEPT ![r] = rec]
      /\ UNCHANGED <<queue, sender, position, target, expiries>>
    BY DEF IInv, EmptyPoll, Polling, QueueCommandsAssumption
<1>2. /\ old.left \in Nat /\ old.empty \in Nat /\ old.left + old.empty = Retry[r]
      /\ Len(old.collected) <= Asked[r]
    BY <1>1 DEF Receiver, PollsAreCounted
<1>3. /\ rec \in Receiver /\ rec.collected = old.collected /\ rec.empty = old.empty + 1
      /\ rec.pc = (IF old.left = 0 THEN "read" ELSE "poll")
      /\ rec.left = (IF old.left = 0 THEN 0 ELSE old.left - 1)
  <2>1. pc \in {"read", "poll"} /\ left \in Nat /\ empty \in Nat
      BY <1>1, <1>2
  <2> HIDE DEF pc, left, empty
  <2>2. /\ rec \in Receiver /\ rec.collected = old.collected
        /\ rec.empty = empty /\ rec.pc = pc /\ rec.left = left
      BY <1>1, <2>1 DEF Receiver
  <2> QED BY <1>1, <2>2 DEF pc, left, empty
<1>4. receiver'[r] = rec
    BY <1>1 DEF IInv
<1> HIDE DEF rec, old
<1>5. /\ rec.left <= Retry[r]
      /\ rec.pc = "poll" => rec.left + rec.empty = Retry[r]
      /\ rec.pc \in {"read", "done"} => rec.empty = Retry[r] + 1
      /\ rec.pc # "done" /\ Len(rec.collected) <= Asked[r]
    BY <1>1, <1>2, <1>3
<1>6. PollsAreCounted(r)'
    BY <1>1, <1>4, <1>5 DEF PollsAreCounted
<1> QED BY <1>1, <1>3, <1>6, RunStep DEF IInv, old

\* The steps that only end the loop, or the command.
LEMMA EndStep ==
    ASSUME QueueCommandsAssumption, IInv, NEW r \in Receivers,
           Filled(r) \/ ReadFails(r) \/ \E S \in SUBSET Messages : PollFails(r, S)
    PROVE  IInv'
<1> DEFINE old == receiver[r]
<1>1. old \in Receiver /\ PollsAreCounted(r)
    BY DEF IInv
<1>2. CASE Filled(r)
  <2> DEFINE rec == [old EXCEPT !.pc = "read"]
  <2>1. /\ receiver' = [receiver EXCEPT ![r] = rec] /\ Len(old.collected) >= Asked[r]
        /\ UNCHANGED <<queue, sender, position, target, expiries>>
      BY <1>2 DEF Filled
  <2>2. /\ rec \in Receiver /\ rec.pc = "read" /\ rec.left = old.left
        /\ rec.collected = old.collected /\ rec.empty = old.empty
      BY <1>1 DEF Receiver
  <2>3. receiver'[r] = rec
      BY <2>1 DEF IInv
  <2> HIDE DEF rec
  <2>4. PollsAreCounted(r)'
      BY <1>1, <2>1, <2>2, <2>3 DEF PollsAreCounted
  <2> QED BY <2>1, <2>2, <2>4, RunStep DEF IInv
<1>3. ASSUME receiver' = [receiver EXCEPT ![r].pc = "failed"],
             UNCHANGED <<sender, position, target, expiries>>,
             queue' \in [Messages -> {"unsent", "visible", "hidden"}],
             \A m \in Messages : queue'[m] = queue[m] \/ (queue[m] = "visible" /\ queue'[m] = "hidden")
      PROVE  IInv'
  <2> DEFINE rec == [old EXCEPT !.pc = "failed"]
  <2>1. receiver' = [receiver EXCEPT ![r] = rec]
      BY <1>3
  <2>2. /\ rec \in Receiver /\ rec.pc = "failed" /\ rec.left = old.left
        /\ rec.collected = old.collected /\ rec.empty = old.empty
      BY <1>1 DEF Receiver
  <2>3. receiver'[r] = rec
      BY <2>1 DEF IInv
  <2> HIDE DEF rec
  <2>4. PollsAreCounted(r)'
      BY <1>1, <2>2, <2>3 DEF PollsAreCounted
  <2> QED BY <1>3, <2>1, <2>2, <2>4, RunStep DEF IInv
<1>4. CASE ReadFails(r)
    BY <1>3, <1>4 DEF ReadFails, IInv
<1>5. ASSUME NEW S \in SUBSET Messages, PollFails(r, S)
      PROVE  IInv'
  <2>1. /\ receiver' = [receiver EXCEPT ![r].pc = "failed"]
        /\ UNCHANGED <<sender, position, target, expiries>>
        /\ queue' = [m \in Messages |-> IF m \in S THEN "hidden" ELSE queue[m]]
        /\ \A m \in S : queue[m] = "visible"
      BY <1>5 DEF PollFails, Visible
  <2> QED BY <1>3, <2>1 DEF IInv
<1> QED BY <1>2, <1>4, <1>5

\* What a run has read is what it writes.
LEMMA ReadStep ==
    ASSUME QueueCommandsAssumption, IInv, NEW r \in Receivers, Read(r)
    PROVE  IInv'
<1> DEFINE old == receiver[r]
           rec == [old EXCEPT !.pc = "done"]
<1>1. /\ old \in Receiver /\ PollsAreCounted(r) /\ old.pc = "read"
      /\ receiver' = [receiver EXCEPT ![r] = rec] /\ target' = [target EXCEPT ![r] = old.collected]
      /\ UNCHANGED <<queue, sender, position, expiries>>
    BY DEF IInv, Read
<1>2. /\ rec \in Receiver /\ rec.pc = "done" /\ rec.left = old.left
      /\ rec.collected = old.collected /\ rec.empty = old.empty
    BY <1>1 DEF Receiver
<1>3. receiver'[r] = rec /\ target'[r] = rec.collected
    BY <1>1, <1>2 DEF IInv
<1> HIDE DEF rec
<1>4. PollsAreCounted(r)'
    BY <1>1, <1>2, <1>3 DEF PollsAreCounted
<1>5. DOMAIN target' = Receivers /\ \A q \in Receivers : q # r => target'[q] = target[q]
    BY <1>1 DEF IInv
<1> QED BY <1>1, <1>2, <1>4, <1>5, RunStep DEF IInv

LEMMA InvariantStep == ASSUME QueueCommandsAssumption, IInv, [Next]_vars PROVE IInv'
<1>1. CASE SendOne
    BY <1>1, SendOneStep
<1>2. CASE SendFails \/ SendDone
    BY <1>2, SendEndsStep
<1>3. ASSUME NEW r \in Receivers, Step(r) PROVE IInv'
  <2>1. CASE EmptyPoll(r)
      BY <2>1, EmptyPollStep
  <2>2. CASE Filled(r) \/ ReadFails(r)
      BY <2>2, EndStep
  <2>3. CASE Read(r)
      BY <2>3, ReadStep
  <2>4. ASSUME NEW T \in SUBSET Messages, NEW order \in SetToSeqs(T), Poll(r, order) PROVE IInv'
      BY <2>4, PollStep
  <2> QED BY <1>3, <2>1, <2>2, <2>3, <2>4 DEF Step
<1>4. ASSUME NEW r \in Receivers, NEW S \in SUBSET Messages, PollFails(r, S) PROVE IInv'
    BY <1>4, EndStep
<1>5. ASSUME NEW n \in Messages, Expire(n) PROVE IInv'
    BY <1>5, ExpireStep
<1>6. CASE UNCHANGED vars
    BY <1>6 DEF vars, IInv, RestUnsent, PollsAreCounted, CopiesAreReceived, Copies, Away
<1> QED BY <1>1, <1>2, <1>3, <1>4, <1>5, <1>6 DEF Next

-----------------------------------------------------------------------------
(* What the invariant says about the commands.                             *)

\* What the invariant says about a state.
LEMMA CommandsAreRight ==
    ASSUME QueueCommandsAssumption, IInv
    PROVE  TypeOK /\ SharedOnlyByTimeout /\ GaveUpAfterRetries
<1>1. TypeOK
  <2>1. ASSUME NEW r \in Receivers
        PROVE  /\ receiver[r].pc \in {"poll", "read", "done", "failed"}
               /\ receiver[r].left \in 0 .. Retry[r] /\ Len(receiver[r].collected) <= Asked[r]
    <3>1. receiver[r] \in Receiver /\ PollsAreCounted(r) /\ Retry[r] \in Nat
        BY DEF IInv, QueueCommandsAssumption
    <3> QED BY <3>1 DEF Receiver, PollsAreCounted
  <2> QED BY <2>1 DEF IInv, TypeOK
<1>2. SharedOnlyByTimeout
  <2> SUFFICES ASSUME NEW m \in Messages PROVE Cardinality(Copies(m)) <= 1 + expiries[m]
      BY DEF SharedOnlyByTimeout
  <2> DEFINE c == Cardinality(Copies(m))
  <2>1. c \in Nat /\ c <= expiries[m] + Away(m)
      BY FS_CardinalityType DEF IInv, CopiesAreReceived
  <2>2. expiries[m] \in Nat /\ Away(m) \in {0, 1}
      BY DEF IInv, Away, QueueCommandsAssumption
  <2> HIDE DEF c
  <2>3. c <= 1 + expiries[m]
      BY <2>1, <2>2
  <2> QED BY <2>3 DEF c
<1>3. GaveUpAfterRetries
  <2> SUFFICES ASSUME NEW r \in Receivers, receiver[r].pc = "done", Len(target[r]) < Asked[r]
               PROVE  receiver[r].empty = Retry[r] + 1
      BY DEF GaveUpAfterRetries
  <2>1. PollsAreCounted(r) /\ receiver[r] \in Receiver /\ Asked[r] \in Nat
      BY DEF IInv, QueueCommandsAssumption
  <2>2. Len(receiver[r].collected) \in Nat
      BY <2>1 DEF Receiver
  <2> QED BY <2>1, <2>2 DEF PollsAreCounted
<1> QED BY <1>1, <1>2, <1>3

\* The invariant holds in every state that sending, polling, failing and
\* visibility timeouts reach, in any order.
THEOREM InductiveInvariant == ASSUME QueueCommandsAssumption PROVE Spec => []IInv
<1>1. Init => IInv
    BY InitInvariant
<1>2. IInv /\ [Next]_vars => IInv'
    BY InvariantStep
<1> QED BY <1>1, <1>2, PTL DEF Spec

\* The types: among them, no run collects more than max_messages.
THEOREM TypeCorrect == ASSUME QueueCommandsAssumption PROVE Spec => []TypeOK
<1>1. IInv => TypeOK
    BY CommandsAreRight
<1> QED BY <1>1, InductiveInvariant, PTL

\* AmazonSqsConnectionService.receive_messages hides what it returns: however many
\* runs receive from one queue, a message is collected at most once more than its
\* visibility timed out.
THEOREM SharedMessagesTimedOut == ASSUME QueueCommandsAssumption PROVE Spec => []SharedOnlyByTimeout
<1>1. IInv => SharedOnlyByTimeout
    BY CommandsAreRight
<1> QED BY <1>1, InductiveInvariant, PTL

\* ReceiveQueueOperationExecutor: a run that ends with fewer messages than it asked
\* for has polled an empty queue once more than it has retries, whatever it got
\* in between.
THEOREM GivesUpAfterItsRetries == ASSUME QueueCommandsAssumption PROVE Spec => []GaveUpAfterRetries
<1>1. IInv => GaveUpAfterRetries
    BY CommandsAreRight
<1> QED BY <1>1, InductiveInvariant, PTL

=============================================================================
