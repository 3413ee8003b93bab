----------------------- MODULE ExecutionListenerProofs -----------------------
(***************************************************************************)
(* What the event bus guarantees for any number of streams and frames and  *)
(* for any size of the history and of the queues; and, from it, that what  *)
(* the user is told of a run is true of it, for any number of tests, log   *)
(* entries and broken connections, whatever the bus loses.                 *)
(***************************************************************************)
EXTENDS ExecutionListener, EventBusRefinement, TLAPS

(***************************************************************************)
(* The event bus.                                                          *)
(***************************************************************************)

Below(p, q) == \A i \in 1..Len(p), j \in 1..Len(q) : p[i] < q[j]

AllBelow(p, n) == \A i \in 1..Len(p) : p[i] < n

-----------------------------------------------------------------------------
(* Sequences of frame numbers.                                             *)

\* Appending a frame to a queue leaves the frames before it where they were.
LEMMA AppendFacts ==
    ASSUME NEW q \in Seq(Nat), NEW n \in Nat
    PROVE  /\ Append(q, n) \in Seq(Nat)
           /\ Len(Append(q, n)) = Len(q) + 1
           /\ \A i \in 1..Len(q) : Append(q, n)[i] = q[i]
           /\ Append(q, n)[Len(q) + 1] = n
  OBVIOUS

\* Taking the first frame moves the others up by one place.
LEMMA TailFacts ==
    ASSUME NEW q \in Seq(Nat), q # <<>>
    PROVE  /\ Tail(q) \in Seq(Nat)
           /\ Len(q) \in Nat \ {0}
           /\ Len(Tail(q)) = Len(q) - 1
           /\ Head(q) = q[1]
           /\ Head(q) \in Nat
           /\ \A i \in 1..Len(Tail(q)) : Tail(q)[i] = q[i + 1]
  OBVIOUS

\* A frame later than all the others keeps a sequence in order.
LEMMA AppendKeepsOrder ==
    ASSUME NEW q \in Seq(Nat), NEW n \in Nat, Increasing(q), AllBelow(q, n)
    PROVE  Increasing(Append(q, n))
  <1> SUFFICES ASSUME NEW i \in 1..Len(Append(q, n)), NEW j \in 1..Len(Append(q, n)),
                      i < j
               PROVE  Append(q, n)[i] < Append(q, n)[j]
    BY DEF Increasing
  <1>1. i \in 1..Len(q) /\ Append(q, n)[i] = q[i]
    BY AppendFacts
  <1>2. CASE j \in 1..Len(q)
    BY <1>1, <1>2, AppendFacts DEF Increasing
  <1>3. CASE j = Len(q) + 1
    BY <1>1, <1>3, AppendFacts DEF AllBelow
  <1> QED
    BY <1>2, <1>3, AppendFacts

\* A frame later than all the others can be put at the end of a queue.
LEMMA PutKeepsOrder ==
    ASSUME NEW p \in Seq(Nat), NEW q \in Seq(Nat), NEW n \in Nat,
           Increasing(q), Below(p, q), AllBelow(p, n), AllBelow(q, n)
    PROVE  Increasing(Append(q, n)) /\ Below(p, Append(q, n))
  <1>1. Increasing(Append(q, n))
    BY AppendKeepsOrder
  <1>2. ASSUME NEW i \in 1..Len(p), NEW j \in 1..Len(Append(q, n))
        PROVE  p[i] < Append(q, n)[j]
    <2>1. CASE j \in 1..Len(q)
      BY <2>1, AppendFacts DEF Below
    <2>2. CASE j = Len(q) + 1
      BY <2>2, AppendFacts DEF AllBelow
    <2> QED
      BY <2>1, <2>2, AppendFacts
  <1> QED
    BY <1>1, <1>2 DEF Below

\* Yielding the first waiting frame keeps the yielded frames in order and
\* before the ones that still wait.
LEMMA YieldKeepsOrder ==
    ASSUME NEW p \in Seq(Nat), NEW q \in Seq(Nat), q # <<>>,
           Increasing(p), Increasing(q), Below(p, q)
    PROVE  /\ Increasing(Append(p, Head(q)))
           /\ Increasing(Tail(q))
           /\ Below(Append(p, Head(q)), Tail(q))
  <1>1. AllBelow(p, Head(q))
    BY TailFacts DEF AllBelow, Below
  <1>2. Increasing(Append(p, Head(q)))
    BY <1>1, TailFacts, AppendKeepsOrder
  <1>3. Increasing(Tail(q))
    BY TailFacts DEF Increasing
  <1>4. Below(Append(p, Head(q)), Tail(q))
    <2> SUFFICES ASSUME NEW i \in 1..Len(Append(p, Head(q))), NEW j \in 1..Len(Tail(q))
                 PROVE  Append(p, Head(q))[i] < Tail(q)[j]
      BY DEF Below
    <2>1. Tail(q)[j] = q[j + 1] /\ j + 1 \in 1..Len(q) /\ 1 \in 1..Len(q)
      BY TailFacts
    <2>2. CASE i \in 1..Len(p)
      BY <2>1, <2>2, TailFacts, AppendFacts DEF Below
    <2>3. CASE i = Len(p) + 1
      BY <2>1, <2>3, TailFacts, AppendFacts DEF Increasing
    <2> QED
      BY <2>2, <2>3, TailFacts, AppendFacts
  <1> QED
    BY <1>2, <1>3, <1>4

\* Yielding a frame does not disturb what lies after both sequences.
LEMMA YieldStaysBelow ==
    ASSUME NEW p \in Seq(Nat), NEW q \in Seq(Nat), NEW r \in Seq(Nat), q # <<>>,
           Below(p, r), Below(q, r)
    PROVE  Below(Append(p, Head(q)), r) /\ Below(Tail(q), r)
  <1>1. ASSUME NEW i \in 1..Len(Append(p, Head(q))), NEW j \in 1..Len(r)
        PROVE  Append(p, Head(q))[i] < r[j]
    <2>1. CASE i \in 1..Len(p)
      BY <2>1, TailFacts, AppendFacts DEF Below
    <2>2. CASE i = Len(p) + 1
      BY <2>2, TailFacts, AppendFacts DEF Below
    <2> QED
      BY <2>1, <2>2, TailFacts, AppendFacts
  <1>2. Below(Tail(q), r)
    BY TailFacts DEF Below
  <1> QED
    BY <1>1, <1>2 DEF Below

\* ... nor any bound on both.
LEMMA YieldStaysBounded ==
    ASSUME NEW p \in Seq(Nat), NEW q \in Seq(Nat), q # <<>>,
           NEW n \in Nat, AllBelow(p, n), AllBelow(q, n)
    PROVE  AllBelow(Append(p, Head(q)), n) /\ AllBelow(Tail(q), n)
  <1>1. AllBelow(Append(p, Head(q)), n)
    BY TailFacts, AppendFacts DEF AllBelow
  <1>2. AllBelow(Tail(q), n)
    BY TailFacts DEF AllBelow
  <1> QED
    BY <1>1, <1>2

-----------------------------------------------------------------------------
(* The inductive invariant.                                                *)

\* The history deque holds the latest frames, and all of them until it is full.
HistoryIsSuffix ==
    /\ Len(history) <= Len(published)
    /\ Len(history) < HistorySize => Len(history) = Len(published)
    /\ \A i \in 1..Len(history) : history[i] = Len(published) - Len(history) + i

\* Which streams the bus knows, by the point their generator has reached.
Registration(s) ==
    /\ phase[s] \in {"replaying", "live"} => s \in subscribers
    /\ phase[s] = "closed" => s \notin subscribers
    /\ phase[s] = "idle" => /\ s \notin subscribers /\ s \notin pending
                            /\ replay[s] = <<>> /\ queue[s] = <<>> /\ sent[s] = <<>>
    /\ phase[s] = "live" => replay[s] = <<>>

\* The frames yielded, then those to replay, then those in the queue are in
\* the order of publication, and the frame being handed over comes last.
Ordered(s) ==
    /\ Increasing(sent[s]) /\ Increasing(replay[s]) /\ Increasing(queue[s])
    /\ Below(sent[s], replay[s])
    /\ Below(sent[s], queue[s])
    /\ Below(replay[s], queue[s])
    /\ LET limit == IF s \in pending THEN Len(published) ELSE Len(published) + 1
       IN  AllBelow(sent[s], limit) /\ AllBelow(replay[s], limit) /\ AllBelow(queue[s], limit)

IInv ==
    /\ TypeOK
    /\ HistoryIsSuffix
    /\ \A s \in Streams : Registration(s) /\ Ordered(s)
    /\ NoSilentLoss
    /\ ReplaysFromTheStart

-----------------------------------------------------------------------------
(* Type correctness.                                                       *)

\* The bounded append of the history deque stays within its maxlen.
LEMMA AppendBoundedFacts ==
    ASSUME NEW d \in Seq(Nat), Len(d) <= HistorySize, NEW n \in Nat
    PROVE  /\ AppendBounded(d, n) \in Seq(Nat)
           /\ Len(AppendBounded(d, n)) = IF Len(d) < HistorySize THEN Len(d) + 1 ELSE Len(d)
           /\ Len(AppendBounded(d, n)) <= HistorySize
           /\ AppendBounded(d, n)[Len(AppendBounded(d, n))] = n
           /\ \A i \in 1..(Len(AppendBounded(d, n)) - 1) :
                AppendBounded(d, n)[i] = IF Len(d) < HistorySize THEN d[i] ELSE d[i + 1]
  <1>1. CASE Len(d) < HistorySize
    BY <1>1, AppendFacts, BusAssumption DEF AppendBounded
  <1>2. CASE ~(Len(d) < HistorySize)
    <2>1. d # <<>>
      BY <1>2, BusAssumption
    <2>2. /\ Tail(d) \in Seq(Nat) /\ Len(Tail(d)) = Len(d) - 1 /\ Len(d) \in Nat \ {0}
          /\ \A i \in 1..Len(Tail(d)) : Tail(d)[i] = d[i + 1]
      BY <2>1, TailFacts
    <2> DEFINE t == Tail(d)
    <2>3. AppendBounded(d, n) = Append(t, n)
      BY <1>2 DEF AppendBounded
    <2>4. /\ Append(t, n) \in Seq(Nat) /\ Len(Append(t, n)) = Len(t) + 1
          /\ \A i \in 1..Len(t) : Append(t, n)[i] = t[i]
          /\ Append(t, n)[Len(t) + 1] = n
      BY <2>2, AppendFacts
    <2> QED
      BY <1>2, <2>2, <2>3, <2>4, BusAssumption
  <1> QED
    BY <1>1, <1>2

\* One step of the bus or of a stream keeps every variable in its type.
LEMMA TypeStep ==
    ASSUME TypeOK, HistoryIsSuffix, [Next]_vars
    PROVE  TypeOK'
  <1> USE DEF TypeOK
  <1>1. ASSUME NEW f \in Frame, Publish(f) PROVE TypeOK'
    <2>1. Len(published) + 1 \in Nat
      OBVIOUS
    <2>2. history' \in Seq(Nat) /\ Len(history') <= HistorySize
      BY <1>1, <2>1, AppendBoundedFacts DEF Publish
    <2>3. published' \in Seq(Frame)
      BY <1>1 DEF Publish
    <2> QED
      BY <1>1, <2>2, <2>3 DEF Publish, streamVars
  <1>2. ASSUME NEW s \in Streams, Put(s) PROVE TypeOK'
    <2>1. Len(published) \in Nat
      OBVIOUS
    <2>2. CASE Len(queue[s]) < QueueSize
      <3>1. /\ Append(queue[s], Len(published)) \in Seq(Nat)
            /\ Len(Append(queue[s], Len(published))) <= QueueSize
        BY <2>1, <2>2, AppendFacts, BusAssumption
      <3>2. queue' = [queue EXCEPT ![s] = Append(queue[s], Len(published))]
        BY <1>2, <2>2 DEF Put
      <3>3. /\ queue' \in [Streams -> Seq(Nat)]
            /\ \A t \in Streams : Len(queue'[t]) <= QueueSize
        BY <3>1, <3>2
      <3> QED
        BY <1>2, <2>2, <3>3 DEF Put
    <2>3. CASE ~(Len(queue[s]) < QueueSize)
      <3>1. dropped' = [dropped EXCEPT ![s] = dropped[s] \cup {Len(published)}] /\ queue' = queue
        BY <1>2, <2>3 DEF Put
      <3>2. dropped' \in [Streams -> SUBSET Nat]
        BY <2>1, <3>1
      <3> QED
        BY <1>2, <3>1, <3>2 DEF Put
    <2> QED
      BY <2>2, <2>3
  <1>3. ASSUME NEW s \in Streams, Subscribe(s) PROVE TypeOK'
    <2>1. phase' \in [Streams -> Phases]
      BY <1>3 DEF Subscribe, Phases
    <2>2. Len(published) + 1 - Len(history) \in Nat
      BY DEF HistoryIsSuffix
    <2> QED
      BY <1>3, <2>1, <2>2 DEF Subscribe
  <1>4. ASSUME NEW s \in Streams, ReplayFrame(s) PROVE TypeOK'
    <2>1. /\ Tail(replay[s]) \in Seq(Nat)
          /\ Append(sent[s], Head(replay[s])) \in Seq(Nat)
      BY <1>4, TailFacts, AppendFacts DEF ReplayFrame
    <2>2. (finished[s] \/ Finishes(Head(replay[s]))) \in BOOLEAN
      BY DEF Finishes
    <2> QED
      BY <1>4, <2>1, <2>2 DEF ReplayFrame, busVars
  <1>5. ASSUME NEW s \in Streams, ReplayDone(s) PROVE TypeOK'
    BY <1>5 DEF ReplayDone, busVars, Phases
  <1>6. ASSUME NEW s \in Streams, LiveFrame(s) PROVE TypeOK'
    <2>1. /\ Tail(queue[s]) \in Seq(Nat) /\ Len(Tail(queue[s])) <= Len(queue[s])
          /\ Append(sent[s], Head(queue[s])) \in Seq(Nat)
      BY <1>6, TailFacts, AppendFacts DEF LiveFrame
    <2>2. phase' \in [Streams -> Phases]
      BY <1>6 DEF LiveFrame, Phases
    <2>3. /\ queue' \in [Streams -> Seq(Nat)] /\ sent' \in [Streams -> Seq(Nat)]
          /\ \A t \in Streams : Len(queue'[t]) <= QueueSize
      BY <1>6, <2>1, BusAssumption DEF LiveFrame
    <2> QED
      BY <1>6, <2>2, <2>3 DEF LiveFrame, busVars
  <1>7. ASSUME NEW s \in Streams, Disconnect(s) PROVE TypeOK'
    BY <1>7 DEF Disconnect, busVars, Phases
  <1>8. ASSUME NEW s \in Streams, Unsubscribe(s) PROVE TypeOK'
    BY <1>8 DEF Unsubscribe, Phases
  <1>9. CASE UNCHANGED vars
    BY <1>9 DEF vars, busVars, streamVars
  <1> QED
    BY <1>1, <1>2, <1>3, <1>4, <1>5, <1>6, <1>7, <1>8, <1>9 DEF Next, Heartbeat

\* The history deque goes on holding exactly the latest frames.
LEMMA HistoryStep ==
    ASSUME TypeOK, HistoryIsSuffix, [Next]_vars
    PROVE  HistoryIsSuffix'
  <1>1. CASE \E f \in Frame : Publish(f)
    <2>1. PICK f \in Frame : Publish(f)
      BY <1>1
    <2>2. /\ published' = Append(published, f) /\ published \in Seq(Frame)
          /\ history' = AppendBounded(history, Len(published) + 1)
          /\ history \in Seq(Nat) /\ Len(history) <= HistorySize
      BY <2>1 DEF Publish, TypeOK
    <2>3. Len(published') = Len(published) + 1 /\ Len(published) \in Nat
      BY <2>2
    <2>4. /\ Len(history') = IF Len(history) < HistorySize THEN Len(history) + 1 ELSE Len(history)
          /\ history'[Len(history')] = Len(published) + 1
          /\ \A i \in 1..(Len(history') - 1) :
                history'[i] = IF Len(history) < HistorySize THEN history[i] ELSE history[i + 1]
      <3> DEFINE h == AppendBounded(history, Len(published) + 1)
      <3>1. Len(published) + 1 \in Nat
        BY <2>3
      <3>2. /\ Len(h) = IF Len(history) < HistorySize THEN Len(history) + 1 ELSE Len(history)
            /\ h[Len(h)] = Len(published) + 1
            /\ \A i \in 1..(Len(h) - 1) :
                  h[i] = IF Len(history) < HistorySize THEN history[i] ELSE history[i + 1]
        BY <2>2, <3>1, AppendBoundedFacts
      <3>3. history' = h
        BY <2>2
      <3> HIDE DEF h
      <3> QED
        BY <3>2, <3>3
    <2>5. Len(history) \in Nat /\ HistorySize \in Nat \ {0}
      BY <2>2, BusAssumption
    <2>6. ASSUME NEW i \in 1..Len(history')
          PROVE  history'[i] = Len(published') - Len(history') + i
      <3>1. CASE i = Len(history')
        BY <2>3, <2>4, <2>5, <3>1
      <3>2. CASE i \in 1..(Len(history') - 1) /\ Len(history) < HistorySize
        BY <2>3, <2>4, <2>5, <3>2 DEF HistoryIsSuffix
      <3>3. CASE i \in 1..(Len(history') - 1) /\ ~(Len(history) < HistorySize)
        <4>1. i + 1 \in 1..Len(history) /\ history'[i] = history[i + 1]
          BY <2>4, <2>5, <3>3
        <4> QED
          BY <2>3, <2>4, <2>5, <3>3, <4>1 DEF HistoryIsSuffix
      <3>4. Len(history') \in Nat
        BY <2>4, <2>5
      <3> QED
        BY <3>1, <3>2, <3>3, <3>4
    <2>7. Len(history') <= Len(published') /\ (Len(history') < HistorySize => Len(history') = Len(published'))
      BY <2>3, <2>4, <2>5 DEF HistoryIsSuffix
    <2> QED
      BY <2>6, <2>7 DEF HistoryIsSuffix
  <1>2. CASE UNCHANGED <<history, published>>
    BY <1>2 DEF HistoryIsSuffix
  <1> QED
    BY <1>1, <1>2 DEF Next, Put, Subscribe, ReplayFrame, ReplayDone, LiveFrame,
                      Heartbeat, Disconnect, Unsubscribe, vars, busVars, streamVars

\* Every variable of the bus has the shape the code gives it, whatever the
\* sizes; the deque and the queues never exceed maxlen and maxsize.
THEOREM TypeCorrect == Spec => []TypeOK
  <1>1. Init => TypeOK /\ HistoryIsSuffix
    BY BusAssumption DEF Init, TypeOK, HistoryIsSuffix, Phases
  <1>2. TypeOK /\ HistoryIsSuffix /\ [Next]_vars => (TypeOK /\ HistoryIsSuffix)'
    BY TypeStep, HistoryStep
  <1> QED
    BY <1>1, <1>2, PTL DEF Spec

-----------------------------------------------------------------------------
(* Ordering.                                                               *)

\* A stream is known to the bus exactly while its generator runs.
LEMMA RegistrationStep ==
    ASSUME TypeOK, \A s \in Streams : Registration(s), [Next]_vars
    PROVE  \A s \in Streams : Registration(s)'
  <1> SUFFICES ASSUME NEW t \in Streams PROVE Registration(t)'
    OBVIOUS
  <1> USE DEF Registration
  <1>0. phase[t] \in Phases
    BY DEF TypeOK
  <1>1. ASSUME NEW f \in Frame, Publish(f) PROVE Registration(t)'
    BY <1>1 DEF Publish, streamVars
  <1>2. ASSUME NEW s \in Streams, Put(s) PROVE Registration(t)'
    BY <1>2 DEF Put, TypeOK
  <1>3. ASSUME NEW s \in Streams, Subscribe(s) PROVE Registration(t)'
    BY <1>3 DEF Subscribe, TypeOK
  <1>4. ASSUME NEW s \in Streams, ReplayFrame(s) PROVE Registration(t)'
    BY <1>4 DEF ReplayFrame, busVars, TypeOK
  <1>5. ASSUME NEW s \in Streams, ReplayDone(s) PROVE Registration(t)'
    BY <1>5 DEF ReplayDone, busVars, TypeOK
  <1>6. ASSUME NEW s \in Streams, LiveFrame(s) PROVE Registration(t)'
    BY <1>6 DEF LiveFrame, busVars, TypeOK
  <1>7. ASSUME NEW s \in Streams, Disconnect(s) PROVE Registration(t)'
    BY <1>7 DEF Disconnect, busVars, TypeOK
  <1>8. ASSUME NEW s \in Streams, Unsubscribe(s) PROVE Registration(t)'
    BY <1>8 DEF Unsubscribe, TypeOK
  <1>9. CASE UNCHANGED vars
    BY <1>9 DEF vars, busVars, streamVars
  <1> QED
    BY <1>1, <1>2, <1>3, <1>4, <1>5, <1>6, <1>7, <1>8, <1>9 DEF Next, Heartbeat

\* A bound on the frames of a sequence can be raised.
LEMMA AllBelowWeaken ==
    ASSUME NEW p \in Seq(Nat), NEW m \in Nat, NEW n \in Nat, m <= n, AllBelow(p, m)
    PROVE  AllBelow(p, n)
  BY DEF AllBelow

\* A stream's frames stay in the order of publication along its three stages.
LEMMA OrderedStep ==
    ASSUME TypeOK, HistoryIsSuffix,
           \A s \in Streams : Registration(s) /\ Ordered(s), [Next]_vars
    PROVE  \A s \in Streams : Ordered(s)'
  <1> SUFFICES ASSUME NEW t \in Streams PROVE Ordered(t)'
    OBVIOUS
  <1> DEFINE P == sent[t]
             R == replay[t]
             Q == queue[t]
             N == Len(published)
             Bounded(n) == AllBelow(P, n) /\ AllBelow(R, n) /\ AllBelow(Q, n)
  <1>0. /\ P \in Seq(Nat) /\ R \in Seq(Nat) /\ Q \in Seq(Nat) /\ N \in Nat
        /\ Increasing(P) /\ Increasing(R) /\ Increasing(Q)
        /\ Below(P, R) /\ Below(P, Q) /\ Below(R, Q)
        /\ t \in pending => Bounded(N)
        /\ t \notin pending => Bounded(N + 1)
    BY DEF Ordered, TypeOK
  <1>1. ASSUME NEW f \in Frame, Publish(f) PROVE Ordered(t)'
    <2>1. /\ pending = {} /\ Len(published') = N + 1
          /\ sent' = sent /\ replay' = replay /\ queue' = queue
      BY <1>1 DEF Publish, streamVars, TypeOK
    <2>2. Bounded(N + 1)
      BY <1>0, <2>1
    <2>3. Bounded(N + 2)
      BY <1>0, <2>2, AllBelowWeaken
    <2> QED
      BY <1>0, <2>1, <2>2, <2>3 DEF Ordered
  <1>2. ASSUME NEW s \in Streams, Put(s) PROVE Ordered(t)'
    <2>0. /\ sent' = sent /\ replay' = replay /\ published' = published
          /\ pending' = pending \ {s}
      BY <1>2 DEF Put
    <2>1. CASE s # t
      <3>1. queue'[t] = Q /\ (t \in pending' <=> t \in pending)
        BY <1>2, <2>1 DEF Put, TypeOK
      <3> QED
        BY <1>0, <2>0, <3>1 DEF Ordered
    <2>2. CASE s = t
      <3>1. t \in pending /\ t \notin pending'
        BY <1>2, <2>0, <2>2 DEF Put
      <3>2. Bounded(N) /\ Bounded(N + 1)
        BY <1>0, <3>1, AllBelowWeaken
      <3>3. queue'[t] = Append(Q, N) \/ queue'[t] = Q
        BY <1>2, <2>2 DEF Put, TypeOK
      <3>4. CASE queue'[t] = Append(Q, N)
        <4>1. Increasing(Append(Q, N)) /\ Below(P, Append(Q, N))
          BY <1>0, <3>2, PutKeepsOrder
        <4>2. Below(R, Append(Q, N))
          BY <1>0, <3>2, PutKeepsOrder
        <4>3. AllBelow(Append(Q, N), N + 1)
          <5> SUFFICES ASSUME NEW i \in 1..Len(Append(Q, N)) PROVE Append(Q, N)[i] < N + 1
            BY DEF AllBelow
          <5>0. /\ Len(Append(Q, N)) = Len(Q) + 1
                /\ \A j \in 1..Len(Q) : Append(Q, N)[j] = Q[j]
                /\ Append(Q, N)[Len(Q) + 1] = N
            BY <1>0, AppendFacts
          <5>1. CASE i \in 1..Len(Q)
            BY <3>2, <5>0, <5>1 DEF AllBelow
          <5>2. CASE i = Len(Q) + 1
            BY <1>0, <5>0, <5>2
          <5> QED
            BY <1>0, <5>0, <5>1, <5>2
        <4> QED
          BY <1>0, <2>0, <3>1, <3>2, <3>4, <4>1, <4>2, <4>3 DEF Ordered
      <3>5. CASE queue'[t] = Q
        BY <1>0, <2>0, <3>1, <3>2, <3>5 DEF Ordered
      <3> QED
        BY <3>3, <3>4, <3>5
    <2> QED
      BY <2>1, <2>2
  <1>3. ASSUME NEW s \in Streams, Subscribe(s) PROVE Ordered(t)'
    <2>0. /\ sent' = sent /\ queue' = queue /\ published' = published /\ pending' = pending
      BY <1>3 DEF Subscribe
    <2>1. CASE s # t
      <3>1. replay'[t] = R
        BY <1>3, <2>1 DEF Subscribe, TypeOK
      <3> QED
        BY <1>0, <2>0, <3>1 DEF Ordered
    <2>2. CASE s = t
      <3>1. replay'[t] = history /\ P = <<>> /\ Q = <<>> /\ t \notin pending
        BY <1>3, <2>2 DEF Subscribe, TypeOK, Registration
      <3>2. /\ Increasing(history) /\ AllBelow(history, N + 1)
        <4>1. Len(history) \in Nat /\ N \in Nat /\ Len(history) <= N
              /\ \A i \in 1..Len(history) : history[i] = N - Len(history) + i
          BY DEF HistoryIsSuffix, TypeOK
        <4>2. Increasing(history)
          BY <4>1 DEF Increasing
        <4>3. AllBelow(history, N + 1)
          BY <4>1 DEF AllBelow
        <4> QED
          BY <4>2, <4>3
      <3>3. Below(P, history) /\ Below(history, Q)
        BY <3>1 DEF Below
      <3> QED
        BY <1>0, <2>0, <3>1, <3>2, <3>3 DEF Ordered
    <2> QED
      BY <2>1, <2>2
  <1>4. ASSUME NEW s \in Streams, ReplayFrame(s) PROVE Ordered(t)'
    <2>0. /\ queue' = queue /\ published' = published /\ pending' = pending
      BY <1>4 DEF ReplayFrame, busVars
    <2>1. CASE s # t
      <3>1. replay'[t] = R /\ sent'[t] = P
        BY <1>4, <2>1 DEF ReplayFrame, TypeOK
      <3> QED
        BY <1>0, <2>0, <3>1 DEF Ordered
    <2>2. CASE s = t
      <3>1. R # <<>> /\ replay'[t] = Tail(R) /\ sent'[t] = Append(P, Head(R))
        BY <1>4, <2>2 DEF ReplayFrame, TypeOK
      <3>2. /\ Increasing(Append(P, Head(R))) /\ Increasing(Tail(R))
            /\ Below(Append(P, Head(R)), Tail(R))
        BY <1>0, <3>1, YieldKeepsOrder
      <3>3. Below(Append(P, Head(R)), Q) /\ Below(Tail(R), Q)
        BY <1>0, <3>1, YieldStaysBelow
      <3>4. ASSUME NEW n \in Nat, AllBelow(P, n), AllBelow(R, n)
            PROVE  AllBelow(Append(P, Head(R)), n) /\ AllBelow(Tail(R), n)
        BY <1>0, <3>1, <3>4, YieldStaysBounded
      <3> QED
        BY <1>0, <2>0, <3>1, <3>2, <3>3, <3>4 DEF Ordered
    <2> QED
      BY <2>1, <2>2
  <1>5. ASSUME NEW s \in Streams, LiveFrame(s) PROVE Ordered(t)'
    <2>0. /\ replay' = replay /\ published' = published /\ pending' = pending
      BY <1>5 DEF LiveFrame, busVars
    <2>1. CASE s # t
      <3>1. queue'[t] = Q /\ sent'[t] = P
        BY <1>5, <2>1 DEF LiveFrame, TypeOK
      <3> QED
        BY <1>0, <2>0, <3>1 DEF Ordered
    <2>2. CASE s = t
      <3>1. /\ Q # <<>> /\ queue'[t] = Tail(Q) /\ sent'[t] = Append(P, Head(Q)) /\ R = <<>>
        BY <1>5, <2>2 DEF LiveFrame, TypeOK, Registration
      <3>2. /\ Increasing(Append(P, Head(Q))) /\ Increasing(Tail(Q))
            /\ Below(Append(P, Head(Q)), Tail(Q))
        BY <1>0, <3>1, YieldKeepsOrder
      <3>3. Below(Append(P, Head(Q)), R) /\ Below(R, Tail(Q))
        BY <3>1 DEF Below
      <3>4. ASSUME NEW n \in Nat, AllBelow(P, n), AllBelow(Q, n)
            PROVE  AllBelow(Append(P, Head(Q)), n) /\ AllBelow(Tail(Q), n)
        BY <1>0, <3>1, <3>4, YieldStaysBounded
      <3> QED
        BY <1>0, <2>0, <3>1, <3>2, <3>3, <3>4 DEF Ordered
    <2> QED
      BY <2>1, <2>2
  <1>6. CASE UNCHANGED <<sent, replay, queue, published, pending>>
    BY <1>6 DEF Ordered
  <1> QED
    BY <1>1, <1>2, <1>3, <1>4, <1>5, <1>6
       DEF Next, ReplayDone, Heartbeat, Disconnect, Unsubscribe, vars, busVars, streamVars

-----------------------------------------------------------------------------
(* No silent loss.                                                         *)

\* Appending a frame adds it to the frames of a queue.
LEMMA ElemsAppend ==
    ASSUME NEW q \in Seq(Nat), NEW n \in Nat
    PROVE  Elems(q) \cup {n} \subseteq Elems(Append(q, n))
  <1>1. ASSUME NEW i \in 1..Len(q) PROVE q[i] \in Elems(Append(q, n))
    <2>1. i \in 1..Len(Append(q, n)) /\ Append(q, n)[i] = q[i]
      BY AppendFacts
    <2> QED
      BY <2>1 DEF Elems
  <1>2. n \in Elems(Append(q, n))
    <2>1. Len(q) + 1 \in 1..Len(Append(q, n)) /\ Append(q, n)[Len(q) + 1] = n
      BY AppendFacts
    <2> QED
      BY <2>1 DEF Elems
  <1> QED
    BY <1>1, <1>2 DEF Elems

\* Moving the first frame of one sequence to the end of another loses none.
LEMMA ElemsYield ==
    ASSUME NEW p \in Seq(Nat), NEW q \in Seq(Nat), q # <<>>
    PROVE  Elems(p) \cup Elems(q) \subseteq Elems(Append(p, Head(q))) \cup Elems(Tail(q))
  <1>1. Elems(p) \cup {Head(q)} \subseteq Elems(Append(p, Head(q)))
    BY TailFacts, ElemsAppend
  <1>2. ASSUME NEW i \in 1..Len(q), i # 1 PROVE q[i] \in Elems(Tail(q))
    <2>1. i - 1 \in 1..Len(Tail(q)) /\ Tail(q)[i - 1] = q[i]
      BY <1>2, TailFacts
    <2> QED
      BY <2>1 DEF Elems
  <1>3. q[1] = Head(q)
    BY TailFacts
  <1> QED
    BY <1>1, <1>2, <1>3 DEF Elems

\* No step loses a frame of a stream that still reads, except by a full queue.
LEMMA LossStep ==
    ASSUME TypeOK, HistoryIsSuffix, \A s \in Streams : Registration(s),
           NoSilentLoss, [Next]_vars
    PROVE  NoSilentLoss'
  <1> SUFFICES ASSUME NEW t \in Streams, phase'[t] \in {"replaying", "live"},
                      NEW n \in from'[t]..Len(published')
               PROVE  \/ n \in Elems(sent'[t]) \cup Elems(replay'[t]) \cup Elems(queue'[t])
                      \/ n \in dropped'[t]
                      \/ t \in pending' /\ n = Len(published')
    BY DEF NoSilentLoss, Elems
  <1> DEFINE Kept == Elems(sent[t]) \cup Elems(replay[t]) \cup Elems(queue[t])
             There == Elems(sent'[t]) \cup Elems(replay'[t]) \cup Elems(queue'[t])
             N == Len(published)
  <1>0. /\ sent[t] \in Seq(Nat) /\ replay[t] \in Seq(Nat) /\ queue[t] \in Seq(Nat)
        /\ N \in Nat /\ from[t] \in Nat /\ Len(history) \in Nat
    BY DEF TypeOK
  <1>a. ASSUME phase[t] \in {"replaying", "live"}, n \in from[t]..N
        PROVE  n \in Kept \/ n \in dropped[t] \/ (t \in pending /\ n = N)
    BY <1>a DEF NoSilentLoss
  <1>1. ASSUME NEW f \in Frame, Publish(f)
        PROVE  n \in There \/ n \in dropped'[t] \/ (t \in pending' /\ n = Len(published'))
    <2>1. /\ pending = {} /\ pending' = subscribers /\ Len(published') = N + 1
          /\ UNCHANGED <<phase, sent, replay, queue, dropped, from>>
      BY <1>1 DEF Publish, streamVars, TypeOK
    <2>2. t \in subscribers
      BY <2>1 DEF Registration
    <2>3. n = N + 1 \/ n \in from[t]..N
      BY <1>0, <2>1
    <2> QED
      BY <1>a, <2>1, <2>2, <2>3
  <1>2. ASSUME NEW s \in Streams, Put(s)
        PROVE  n \in There \/ n \in dropped'[t] \/ (t \in pending' /\ n = Len(published'))
    <2>0. UNCHANGED <<phase, sent, replay, from, published>> /\ pending' = pending \ {s}
      BY <1>2 DEF Put
    <2>1. CASE s # t
      <3>1. queue'[t] = queue[t] /\ dropped'[t] = dropped[t] /\ (t \in pending' <=> t \in pending)
        BY <1>2, <2>1 DEF Put, TypeOK
      <3> QED
        BY <1>a, <2>0, <3>1
    <2>2. CASE s = t /\ Len(queue[t]) < QueueSize
      <3>1. queue'[t] = Append(queue[t], N) /\ dropped' = dropped
        BY <1>2, <2>2 DEF Put, TypeOK
      <3>2. Elems(queue[t]) \cup {N} \subseteq Elems(queue'[t])
        BY <1>0, <3>1, ElemsAppend
      <3> QED
        BY <1>a, <2>0, <3>1, <3>2
    <2>3. CASE s = t /\ ~(Len(queue[t]) < QueueSize)
      <3>1. queue' = queue /\ dropped'[t] = dropped[t] \cup {N}
        BY <1>2, <2>3 DEF Put, TypeOK
      <3> QED
        BY <1>a, <2>0, <3>1
    <2> QED
      BY <2>1, <2>2, <2>3
  <1>3. ASSUME NEW s \in Streams, Subscribe(s)
        PROVE  n \in There \/ n \in dropped'[t] \/ (t \in pending' /\ n = Len(published'))
    <2>0. UNCHANGED <<published, pending, queue, sent, dropped>>
      BY <1>3 DEF Subscribe
    <2>1. CASE s # t
      <3>1. phase'[t] = phase[t] /\ replay'[t] = replay[t] /\ from'[t] = from[t]
        BY <1>3, <2>1 DEF Subscribe, TypeOK
      <3> QED
        BY <1>a, <2>0, <3>1
    <2>2. CASE s = t
      <3>1. replay'[t] = history /\ from'[t] = N + 1 - Len(history)
        BY <1>3, <2>2 DEF Subscribe, TypeOK
      <3>2. n \in (N + 1 - Len(history))..N
        BY <2>0, <3>1
      <3> DEFINE i == n - N + Len(history)
      <3>3. i \in 1..Len(history) /\ history[i] = n
        BY <1>0, <3>2 DEF HistoryIsSuffix
      <3> QED
        BY <3>1, <3>3 DEF Elems
    <2> QED
      BY <2>1, <2>2
  <1>4. ASSUME NEW s \in Streams, ReplayFrame(s)
        PROVE  n \in There \/ n \in dropped'[t] \/ (t \in pending' /\ n = Len(published'))
    <2>0. UNCHANGED <<published, pending, phase, queue, dropped, from>>
      BY <1>4 DEF ReplayFrame, busVars
    <2>1. CASE s # t
      <3>1. sent'[t] = sent[t] /\ replay'[t] = replay[t]
        BY <1>4, <2>1 DEF ReplayFrame, TypeOK
      <3> QED
        BY <1>a, <2>0, <3>1
    <2>2. CASE s = t
      <3>1. /\ replay[t] # <<>> /\ replay'[t] = Tail(replay[t])
            /\ sent'[t] = Append(sent[t], Head(replay[t]))
        BY <1>4, <2>2 DEF ReplayFrame, TypeOK
      <3>2. Elems(sent[t]) \cup Elems(replay[t]) \subseteq Elems(sent'[t]) \cup Elems(replay'[t])
        BY <1>0, <3>1, ElemsYield
      <3> QED
        BY <1>a, <2>0, <3>2
    <2> QED
      BY <2>1, <2>2
  <1>5. ASSUME NEW s \in Streams, LiveFrame(s)
        PROVE  n \in There \/ n \in dropped'[t] \/ (t \in pending' /\ n = Len(published'))
    <2>0. UNCHANGED <<published, pending, replay, dropped, from>>
      BY <1>5 DEF LiveFrame, busVars
    <2>1. CASE s # t
      <3>1. phase'[t] = phase[t] /\ sent'[t] = sent[t] /\ queue'[t] = queue[t]
        BY <1>5, <2>1 DEF LiveFrame, TypeOK
      <3> QED
        BY <1>a, <2>0, <3>1
    <2>2. CASE s = t
      <3>1. /\ queue[t] # <<>> /\ queue'[t] = Tail(queue[t]) /\ phase[t] = "live"
            /\ sent'[t] = Append(sent[t], Head(queue[t]))
        BY <1>5, <2>2 DEF LiveFrame, TypeOK
      <3>2. Elems(sent[t]) \cup Elems(queue[t]) \subseteq Elems(sent'[t]) \cup Elems(queue'[t])
        BY <1>0, <3>1, ElemsYield
      <3> QED
        BY <1>a, <2>0, <3>1, <3>2
    <2> QED
      BY <2>1, <2>2
  <1>6. ASSUME NEW s \in Streams, ReplayDone(s) \/ Disconnect(s) \/ Unsubscribe(s)
        PROVE  n \in There \/ n \in dropped'[t] \/ (t \in pending' /\ n = Len(published'))
    <2>1. /\ UNCHANGED <<published, pending, replay, queue, sent, dropped, from>>
          /\ phase'[t] # phase[t] => phase[t] = "replaying"
      BY <1>6 DEF ReplayDone, Disconnect, Unsubscribe, busVars, TypeOK
    <2> QED
      BY <1>a, <2>1
  <1>7. ASSUME UNCHANGED vars
        PROVE  n \in There \/ n \in dropped'[t] \/ (t \in pending' /\ n = Len(published'))
    BY <1>a, <1>7 DEF vars, busVars, streamVars
  <1> QED
    BY <1>1, <1>2, <1>3, <1>4, <1>5, <1>6, <1>7 DEF Next, Heartbeat

\* Where a stream's replay starts is settled when it subscribes.
LEMMA ReplayStartStep ==
    ASSUME TypeOK, HistoryIsSuffix, ReplaysFromTheStart, [Next]_vars
    PROVE  ReplaysFromTheStart'
  <1> SUFFICES ASSUME NEW t \in Streams, phase'[t] # "idle"
               PROVE  \/ from'[t] = 1
                      \/ from'[t] > 1 /\ Len(published') >= from'[t] + HistorySize - 1
    BY DEF ReplaysFromTheStart
  <1>0. /\ Len(published) \in Nat /\ Len(history) \in Nat /\ from[t] \in Nat
        /\ HistorySize \in Nat /\ Len(history) <= HistorySize
    BY BusAssumption DEF TypeOK
  <1>1. CASE \E f \in Frame : Publish(f)
    <2>1. phase' = phase /\ from' = from /\ Len(published') = Len(published) + 1
      BY <1>1 DEF Publish, streamVars, TypeOK
    <2> QED
      BY <1>0, <2>1 DEF ReplaysFromTheStart
  <1>2. CASE \E s \in Streams : Subscribe(s)
    <2>1. PICK s \in Streams : Subscribe(s)
      BY <1>2
    <2>2. CASE s # t
      BY <2>1, <2>2 DEF Subscribe, TypeOK, ReplaysFromTheStart
    <2>3. CASE s = t
      <3>1. from'[t] = Len(published) + 1 - Len(history) /\ published' = published
        BY <2>1, <2>3 DEF Subscribe, TypeOK
      <3> QED
        BY <1>0, <3>1 DEF HistoryIsSuffix
    <2> QED
      BY <2>2, <2>3
  <1>3. ASSUME NEW s \in Streams, \/ ReplayDone(s) \/ LiveFrame(s)
                                  \/ Disconnect(s) \/ Unsubscribe(s)
        PROVE  phase[t] # "idle" /\ from' = from /\ published' = published
    BY <1>3 DEF ReplayDone, LiveFrame, Disconnect, Unsubscribe, TypeOK, busVars
  <1>4. CASE UNCHANGED <<phase, from, published>>
    BY <1>4 DEF ReplaysFromTheStart
  <1>5. CASE phase[t] # "idle" /\ from' = from /\ published' = published
    BY <1>5 DEF ReplaysFromTheStart
  <1> QED
    BY <1>1, <1>2, <1>3, <1>4, <1>5
       DEF Next, Put, ReplayFrame, Heartbeat, vars, busVars, streamVars

-----------------------------------------------------------------------------
(* The theorems.                                                           *)

\* The invariant holds before the first frame, and every step keeps it.
LEMMA InitInvariant == Init => IInv
  BY BusAssumption DEF Init, IInv, TypeOK, HistoryIsSuffix, Registration, Ordered, NoSilentLoss,
     ReplaysFromTheStart, Increasing, Below, AllBelow, Phases

LEMMA InvariantStep == IInv /\ [Next]_vars => IInv'
  BY TypeStep, HistoryStep, RegistrationStep, OrderedStep, LossStep, ReplayStartStep DEF IInv

\* The inductive invariant holds in every reachable state of the bus.
THEOREM InductiveInvariant == Spec => []IInv
  BY InitInvariant, InvariantStep, PTL DEF Spec

\* No client sees a frame twice or out of the order of publication, however
\* its subscription interleaves with publish_execution_event.
THEOREM OrderedDelivery == Spec => []InOrder
  <1>1. IInv => InOrder
    BY DEF IInv, Ordered, InOrder
  <1> QED
    BY <1>1, InductiveInvariant, PTL

\* A reading stream misses no frame from the start of its history copy on,
\* unless its queue was full when the frame came.
THEOREM LossOnlyByFullQueue == Spec => []NoSilentLoss
  <1>1. IInv => NoSilentLoss
    BY DEF IInv
  <1> QED
    BY <1>1, InductiveInvariant, PTL

\* A stream that subscribes before the history deque overflows replays the
\* execution from its first frame.
THEOREM CompleteReplay == Spec => []ReplaysFromTheStart
  <1>1. IInv => ReplaysFromTheStart
    BY DEF IInv
  <1> QED
    BY <1>1, InductiveInvariant, PTL

\* After its finally clause no publication serves a stream again.
THEOREM QuietAfterClose == Spec => ClosedIsQuiet
  <1>1. IInv /\ [Next]_vars =>
          [\A s \in Streams : phase[s] = "closed" /\ s \notin pending => s \notin pending']_vars
    <2> SUFFICES ASSUME IInv, Next, NEW s \in Streams, phase[s] = "closed", s \notin pending
                 PROVE  s \notin pending'
      BY DEF vars
    <2>1. s \notin subscribers
      BY DEF IInv, Registration
    <2> QED
      BY <2>1 DEF Next, Publish, Put, Subscribe, ReplayFrame, ReplayDone, LiveFrame,
                  Heartbeat, Disconnect, Unsubscribe, vars, busVars
  <1> QED
    BY <1>1, InductiveInvariant, PTL DEF Spec, ClosedIsQuiet

-----------------------------------------------------------------------------
(* The bus implements the ordered feed.                                    *)

\* A frame of a stream: yielded, to be replayed or waiting in its queue.
Holds(s, n) == n \in Elems(sent[s]) \cup Elems(replay[s]) \cup Elems(queue[s])

(* What refinement needs beyond IInv: a stream holds no frame from before  *)
(* its history copy, and none that it dropped.                             *)
FeedInv(s) ==
    /\ pending # {} => published # <<>>
    /\ phase[s] = "idle" => dropped[s] = {}
    /\ phase[s] # "idle" => from[s] \in 1..(Len(published) + 1)
    /\ s \in pending => from[s] <= Len(published) /\ Len(published) \notin dropped[s]
    /\ dropped[s] \subseteq 1..Len(published)
    /\ \A n \in Nat : Holds(s, n) => n >= from[s] /\ n \notin dropped[s]

\* Nothing but the frame appended, and nothing new in a tail.
LEMMA ElemsExact ==
    ASSUME NEW p \in Seq(Nat), NEW q \in Seq(Nat), q # <<>>, NEW n \in Nat
    PROVE  /\ Elems(Append(p, n)) = Elems(p) \cup {n}
           /\ Elems(Tail(q)) \subseteq Elems(q)
           /\ Head(q) \in Elems(q)
           /\ Elems(p) \subseteq Nat
  <1>1. Elems(Append(p, n)) \subseteq Elems(p) \cup {n}
    <2>1. ASSUME NEW i \in 1..Len(Append(p, n))
          PROVE  Append(p, n)[i] \in Elems(p) \cup {n}
      <3>1. i \in 1..Len(p) \/ i = Len(p) + 1
        BY AppendFacts
      <3> QED
        BY <3>1, AppendFacts DEF Elems
    <2> QED
      BY <2>1 DEF Elems
  <1>2. Elems(Tail(q)) \subseteq Elems(q)
    <2>1. ASSUME NEW i \in 1..Len(Tail(q))
          PROVE  Tail(q)[i] \in Elems(q)
      <3>1. i + 1 \in 1..Len(q) /\ Tail(q)[i] = q[i + 1]
        BY TailFacts
      <3> QED
        BY <3>1 DEF Elems
    <2> QED
      BY <2>1 DEF Elems
  <1>3. Head(q) \in Elems(q)
    <2>1. 1 \in 1..Len(q) /\ Head(q) = q[1]
      BY TailFacts
    <2> QED
      BY <2>1 DEF Elems
  <1>4. Elems(p) \subseteq Nat
    BY DEF Elems
  <1> QED
    BY <1>1, <1>2, <1>3, <1>4, ElemsAppend

\* The frames of the history copy are the latest ones.
LEMMA HistoryElems ==
    ASSUME TypeOK, HistoryIsSuffix
    PROVE  Elems(history) \subseteq (Len(published) + 1 - Len(history))..Len(published)
  <1>1. Len(history) \in Nat /\ Len(published) \in Nat
    BY DEF TypeOK
  <1>2. \A i \in 1..Len(history) : history[i] = Len(published) - Len(history) + i
    BY DEF HistoryIsSuffix
  <1> QED
    BY <1>1, <1>2 DEF Elems

LEMMA FeedInvStep ==
    ASSUME IInv, \A s \in Streams : FeedInv(s), [Next]_vars
    PROVE  \A s \in Streams : FeedInv(s)'
  <1> SUFFICES ASSUME NEW t \in Streams
               PROVE  FeedInv(t)'
    OBVIOUS
  <1> DEFINE N == Len(published)
             Held(n) == n \in Elems(sent'[t]) \cup Elems(replay'[t]) \cup Elems(queue'[t])
  <1>0. /\ TypeOK /\ HistoryIsSuffix /\ Registration(t) /\ Ordered(t) /\ FeedInv(t)
        /\ sent[t] \in Seq(Nat) /\ replay[t] \in Seq(Nat) /\ queue[t] \in Seq(Nat)
        /\ N \in Nat /\ from[t] \in Nat /\ Len(history) \in Nat /\ Len(history) <= N
        /\ dropped[t] \subseteq 1..N
    BY DEF IInv, TypeOK, HistoryIsSuffix, FeedInv
  <1>1. ASSUME NEW f \in Frame, Publish(f)
        PROVE  FeedInv(t)'
    <2>0. /\ pending = {} /\ pending' = subscribers
          /\ published' = Append(published, f)
          /\ UNCHANGED <<phase, sent, replay, queue, dropped, from>>
      BY <1>1 DEF Publish, streamVars
    <2>a. published \in Seq(Frame) /\ f \in Frame
      BY <1>0, <1>1 DEF TypeOK
    <2>b. Len(published') = N + 1 /\ published' # <<>>
      BY <2>0, <2>a
    <2>1. /\ pending = {} /\ pending' = subscribers /\ Len(published') = N + 1
          /\ published' # <<>>
          /\ UNCHANGED <<phase, sent, replay, queue, dropped, from>>
      BY <2>0, <2>b
    <2>2. t \in pending' => phase[t] # "idle"
      BY <1>0, <2>1 DEF Registration
    <2>3. dropped[t] \subseteq 1..(N + 1) /\ N + 1 \notin dropped[t]
      BY <1>0
    <2>4. phase[t] # "idle" => from[t] \in 1..(N + 1 + 1) /\ from[t] <= N + 1
      BY <1>0 DEF FeedInv
    <2>5. \A n \in Nat : Held(n) => n >= from'[t] /\ n \notin dropped'[t]
      BY <1>0, <2>1 DEF FeedInv, Holds
    <2> QED
      BY <1>0, <2>1, <2>2, <2>3, <2>4, <2>5 DEF FeedInv, Holds, Elems
  <1>2. ASSUME NEW s \in Streams, Put(s)
        PROVE  FeedInv(t)'
    <2>1. /\ UNCHANGED <<phase, sent, replay, from, published>> /\ pending' = pending \ {s}
          /\ s \in pending
      BY <1>2 DEF Put
    <2>2. CASE s # t
      <3>1. queue'[t] = queue[t] /\ dropped'[t] = dropped[t] /\ (t \in pending' <=> t \in pending)
        BY <1>2, <1>0, <2>1, <2>2 DEF Put, TypeOK
      <3> QED
        BY <1>0, <2>1, <3>1 DEF FeedInv, Holds, Elems
    <2>3. CASE s = t /\ Len(queue[t]) < QueueSize
      <3>1. queue'[t] = Append(queue[t], N) /\ dropped' = dropped /\ t \notin pending'
        BY <1>2, <1>0, <2>1, <2>3 DEF Put, TypeOK
      <3>2. Elems(queue'[t]) = Elems(queue[t]) \cup {N}
        BY <1>0, <3>1, ElemsExact, ElemsAppend
      <3>3. from[t] <= N /\ N \notin dropped[t]
        BY <1>0, <2>1, <2>3 DEF FeedInv
      <3>4. \A n \in Nat : Held(n) => n >= from'[t] /\ n \notin dropped'[t]
        BY <1>0, <2>1, <3>1, <3>2, <3>3 DEF FeedInv, Holds
      <3> QED
        BY <1>0, <2>1, <3>1, <3>4 DEF FeedInv, Holds, Elems
    <2>4. CASE s = t /\ ~(Len(queue[t]) < QueueSize)
      <3>1. queue' = queue /\ dropped'[t] = dropped[t] \cup {N} /\ t \notin pending'
        BY <1>2, <1>0, <2>1, <2>4 DEF Put, TypeOK
      <3>2. N \in 1..N /\ phase[t] # "idle"
        <4>1. published # <<>> => N # 0
          BY <1>0 DEF TypeOK
        <4> QED
          BY <1>0, <2>1, <2>4, <4>1 DEF FeedInv, Registration
      <3>3. ASSUME NEW n \in Nat, Holds(t, n)
            PROVE  n # N
        <4>1. AllBelow(sent[t], N) /\ AllBelow(replay[t], N) /\ AllBelow(queue[t], N)
          BY <1>0, <2>1, <2>4 DEF Ordered
        <4> QED
          BY <1>0, <4>1, <3>3 DEF Holds, Elems, AllBelow
      <3>4. \A n \in Nat : Held(n) => n >= from'[t] /\ n \notin dropped'[t]
        BY <1>0, <2>1, <3>1, <3>3 DEF FeedInv, Holds
      <3> QED
        BY <1>0, <2>1, <3>1, <3>2, <3>4 DEF FeedInv, Holds, Elems
    <2> QED
      BY <2>2, <2>3, <2>4
  <1>3. ASSUME NEW s \in Streams, Subscribe(s)
        PROVE  FeedInv(t)'
    <2>1. UNCHANGED <<published, pending, queue, sent, dropped>>
      BY <1>3 DEF Subscribe
    <2>2. CASE s # t
      <3>1. phase'[t] = phase[t] /\ replay'[t] = replay[t] /\ from'[t] = from[t]
        BY <1>3, <1>0, <2>2 DEF Subscribe, TypeOK
      <3> QED
        BY <1>0, <2>1, <3>1 DEF FeedInv, Holds, Elems
    <2>3. CASE s = t
      <3>1. /\ replay'[t] = history /\ from'[t] = N + 1 - Len(history)
            /\ phase[t] = "idle" /\ phase'[t] = "replaying"
        BY <1>3, <1>0, <2>3 DEF Subscribe, TypeOK
      <3>2. /\ t \notin pending /\ dropped[t] = {} /\ sent[t] = <<>> /\ queue[t] = <<>>
            /\ pending # {} => published # <<>>
        BY <1>0, <3>1 DEF Registration, FeedInv
      <3>3. from'[t] \in 1..(N + 1)
        BY <1>0, <3>1
      <3>4. \A n \in Nat : Held(n) => n >= from'[t] /\ n \notin dropped'[t]
        <4>1. Elems(history) \subseteq (N + 1 - Len(history))..N
          BY <1>0, HistoryElems
        <4>2. Elems(<<>>) = {}
          BY DEF Elems
        <4> QED
          BY <1>0, <2>1, <3>1, <3>2, <4>1, <4>2
      <3> QED
        BY <1>0, <2>1, <3>1, <3>2, <3>3, <3>4 DEF FeedInv, Holds, Elems
    <2> QED
      BY <2>2, <2>3
  <1>4. ASSUME NEW s \in Streams, ReplayFrame(s) \/ LiveFrame(s)
        PROVE  FeedInv(t)'
    <2>1. UNCHANGED <<published, pending, dropped, from>>
      BY <1>4 DEF ReplayFrame, LiveFrame, busVars
    <2>2. phase'[t] = "idle" <=> phase[t] = "idle"
      BY <1>4, <1>0 DEF ReplayFrame, LiveFrame, TypeOK
    <2>3. \A n \in Nat : Held(n) => Holds(t, n)
      <3>1. CASE s # t
        <4>1. sent'[t] = sent[t] /\ replay'[t] = replay[t] /\ queue'[t] = queue[t]
          BY <1>4, <1>0, <3>1 DEF ReplayFrame, LiveFrame, TypeOK
        <4> QED
          BY <4>1 DEF Holds
      <3>2. CASE s = t /\ ReplayFrame(s)
        <4>1. /\ replay[t] # <<>> /\ replay'[t] = Tail(replay[t]) /\ queue'[t] = queue[t]
              /\ sent'[t] = Append(sent[t], Head(replay[t]))
          BY <1>0, <3>2 DEF ReplayFrame, TypeOK
        <4>2. Head(replay[t]) \in Nat
          BY <1>0, <4>1, TailFacts
        <4> QED
          BY <1>0, <4>1, <4>2, ElemsExact DEF Holds
      <3>3. CASE s = t /\ LiveFrame(s)
        <4>1. /\ queue[t] # <<>> /\ queue'[t] = Tail(queue[t]) /\ replay'[t] = replay[t]
              /\ sent'[t] = Append(sent[t], Head(queue[t]))
          BY <1>0, <3>3 DEF LiveFrame, TypeOK
        <4>2. Head(queue[t]) \in Nat
          BY <1>0, <4>1, TailFacts
        <4> QED
          BY <1>0, <4>1, <4>2, ElemsExact DEF Holds
      <3> QED
        BY <1>4, <3>1, <3>2, <3>3
    <2> QED
      BY <1>0, <2>1, <2>2, <2>3 DEF FeedInv, Holds, Elems
  <1>5. ASSUME NEW s \in Streams, ReplayDone(s) \/ Disconnect(s) \/ Unsubscribe(s)
        PROVE  FeedInv(t)'
    <2>1. /\ UNCHANGED <<published, pending, replay, queue, sent, dropped, from>>
          /\ phase'[t] = "idle" <=> phase[t] = "idle"
      BY <1>5, <1>0 DEF ReplayDone, Disconnect, Unsubscribe, busVars, TypeOK
    <2> QED
      BY <1>0, <2>1 DEF FeedInv, Holds, Elems
  <1>6. CASE UNCHANGED vars
    BY <1>0, <1>6 DEF vars, busVars, streamVars, FeedInv, Holds, Elems
  <1> QED
    BY <1>1, <1>2, <1>3, <1>4, <1>5, <1>6 DEF Next, Heartbeat


\* A frame a stream still holds is due to it when all earlier ones it holds
\* have been yielded: what lies between was dropped.
LEMMA DueFirst ==
    ASSUME NEW s \in Streams, TypeOK, NoSilentLoss, Ordered(s), FeedInv(s),
           phase[s] \in {"replaying", "live"},
           NEW n \in Nat, Holds(s, n), n <= Len(published), AllBelow(sent[s], n),
           \A m \in Nat : Holds(s, m) /\ m < n => m \in Elems(sent[s])
    PROVE  Feed!Due(s, n)
  <1> DEFINE prior == Feed!Last(s)
             N == Len(published)
  <1>0. /\ sent[s] \in Seq(Nat) /\ Len(sent[s]) \in Nat /\ N \in Nat
        /\ from[s] \in Nat /\ from[s] >= 1 /\ n >= from[s] /\ n \notin dropped[s]
        /\ Increasing(sent[s])
    BY DEF TypeOK, FeedInv, Ordered
  <1>1. /\ prior \in Nat /\ prior < n /\ prior + 1 >= from[s]
        /\ \A i \in 1..Len(sent[s]) : sent[s][i] <= prior
    <2>1. CASE sent[s] = <<>>
      <3>1. prior = from[s] - 1
        BY <2>1 DEF Feed!Last
      <3> QED
        BY <1>0, <2>1, <3>1
    <2>2. CASE sent[s] # <<>>
      <3>1. prior = sent[s][Len(sent[s])]
        BY <2>2 DEF Feed!Last
      <3>2. Len(sent[s]) \in 1..Len(sent[s]) /\ prior \in Nat
        BY <1>0, <2>2, <3>1
      <3>3. prior < n
        BY <3>1, <3>2 DEF AllBelow
      <3>4. Holds(s, prior)
        BY <3>1, <3>2 DEF Holds, Elems
      <3>5. prior >= from[s]
        BY <3>2, <3>4 DEF FeedInv
      <3>6. ASSUME NEW i \in 1..Len(sent[s])
            PROVE  sent[s][i] <= prior
        <4>1. CASE i = Len(sent[s])
          BY <3>1, <3>2, <4>1
        <4>2. CASE i < Len(sent[s])
          BY <1>0, <3>1, <3>2, <4>2 DEF Increasing
        <4> QED
          BY <1>0, <4>1, <4>2
      <3> QED
        BY <1>0, <3>2, <3>3, <3>5, <3>6
    <2> QED
      BY <2>1, <2>2
  <1>2. ASSUME NEW k \in (prior + 1)..(n - 1)
        PROVE  k \in dropped[s]
    <2>1. k \in Nat /\ k \in from[s]..N /\ k # N /\ k < n /\ k > prior
      BY <1>0, <1>1
    <2>2. ~Holds(s, k)
      <3> SUFFICES ASSUME Holds(s, k)
                   PROVE  FALSE
        OBVIOUS
      <3>1. k \in Elems(sent[s])
        BY <2>1
      <3>2. PICK i \in 1..Len(sent[s]) : k = sent[s][i]
        BY <3>1 DEF Elems
      <3> QED
        BY <1>1, <2>1, <3>2
    <2> QED
      BY <2>1, <2>2 DEF NoSilentLoss, Holds
  <1>3. n \in (prior + 1)..N
    BY <1>0, <1>1
  <1> QED
    BY <1>0, <1>2, <1>3 DEF Feed!Due

\* The frame a generator yields next is the one it is due.
LEMMA DueReplay ==
    ASSUME NEW s \in Streams, IInv, FeedInv(s), phase[s] = "replaying", replay[s] # <<>>
    PROVE  Feed!Due(s, Head(replay[s])) /\ Head(replay[s]) \in 1..Len(published)
  <1> DEFINE n == Head(replay[s])
             N == Len(published)
  <1>0. /\ TypeOK /\ NoSilentLoss /\ Ordered(s) /\ N \in Nat
        /\ sent[s] \in Seq(Nat) /\ replay[s] \in Seq(Nat) /\ queue[s] \in Seq(Nat)
    <2>1. TypeOK /\ NoSilentLoss /\ Ordered(s)
      BY DEF IInv
    <2> QED
      BY <2>1 DEF TypeOK
  <1>1. n \in Nat /\ n = replay[s][1] /\ 1 \in 1..Len(replay[s]) /\ Holds(s, n)
    BY <1>0, TailFacts DEF Holds, Elems
  <1>2. n <= N
    BY <1>0, <1>1 DEF Ordered, AllBelow
  <1>3. AllBelow(sent[s], n)
    BY <1>0, <1>1 DEF Ordered, Below, AllBelow
  <1>4. ASSUME NEW m \in Nat, Holds(s, m), m < n
        PROVE  m \in Elems(sent[s])
    <2>1. ASSUME NEW i \in 1..Len(replay[s]), m = replay[s][i]
          PROVE  FALSE
      <3>1. Increasing(replay[s])
        BY <1>0 DEF Ordered
      <3>2. CASE i = 1
        BY <1>1, <1>4, <2>1, <3>2
      <3>3. CASE 1 < i
        <4>1. replay[s][1] < replay[s][i]
          BY <1>1, <3>1, <3>3 DEF Increasing
        <4> QED
          BY <1>1, <1>4, <2>1, <4>1
      <3> QED
        BY <1>0, <3>2, <3>3
    <2>2. ASSUME NEW i \in 1..Len(queue[s]), m = queue[s][i]
          PROVE  FALSE
      <3>1. replay[s][1] < queue[s][i]
        BY <1>0, <1>1 DEF Ordered, Below
      <3> QED
        BY <1>1, <1>4, <2>2, <3>1
    <2> QED
      BY <1>4, <2>1, <2>2 DEF Holds, Elems
  <1>5. n >= 1
    BY <1>1 DEF FeedInv
  <1>6. Feed!Due(s, n)
    <2> HIDE DEF n
    <2> QED
      BY <1>0, <1>1, <1>2, <1>3, <1>4, DueFirst
  <1> QED
    BY <1>0, <1>1, <1>2, <1>5, <1>6

LEMMA DueLive ==
    ASSUME NEW s \in Streams, IInv, FeedInv(s), phase[s] = "live", queue[s] # <<>>
    PROVE  Feed!Due(s, Head(queue[s])) /\ Head(queue[s]) \in 1..Len(published)
  <1> DEFINE n == Head(queue[s])
             N == Len(published)
  <1>0. /\ TypeOK /\ NoSilentLoss /\ Ordered(s) /\ N \in Nat /\ replay[s] = <<>>
        /\ sent[s] \in Seq(Nat) /\ queue[s] \in Seq(Nat)
    <2>1. TypeOK /\ NoSilentLoss /\ Ordered(s) /\ Registration(s)
      BY DEF IInv
    <2>2. replay[s] = <<>>
      BY <2>1 DEF Registration
    <2>3. /\ N \in Nat /\ sent[s] \in Seq(Nat) /\ queue[s] \in Seq(Nat)
      BY <2>1 DEF TypeOK
    <2> QED
      BY <2>1, <2>2, <2>3
  <1>1. n \in Nat /\ n = queue[s][1] /\ 1 \in 1..Len(queue[s]) /\ Holds(s, n)
    BY <1>0, TailFacts DEF Holds, Elems
  <1>2. n <= N
    BY <1>0, <1>1 DEF Ordered, AllBelow
  <1>3. AllBelow(sent[s], n)
    BY <1>0, <1>1 DEF Ordered, Below, AllBelow
  <1>4. ASSUME NEW m \in Nat, Holds(s, m), m < n
        PROVE  m \in Elems(sent[s])
    <2>1. ASSUME NEW i \in 1..Len(queue[s]), m = queue[s][i]
          PROVE  FALSE
      <3>1. Increasing(queue[s])
        BY <1>0 DEF Ordered
      <3>2. CASE i = 1
        BY <1>1, <1>4, <2>1, <3>2
      <3>3. CASE 1 < i
        <4>1. queue[s][1] < queue[s][i]
          BY <1>1, <3>1, <3>3 DEF Increasing
        <4> QED
          BY <1>1, <1>4, <2>1, <4>1
      <3> QED
        BY <1>0, <3>2, <3>3
    <2>2. Elems(replay[s]) = {}
      BY <1>0 DEF Elems
    <2> QED
      BY <1>4, <2>1, <2>2 DEF Holds, Elems
  <1>5. n >= 1
    BY <1>1 DEF FeedInv
  <1>6. Feed!Due(s, n)
    <2> HIDE DEF n
    <2> QED
      BY <1>0, <1>1, <1>2, <1>3, <1>4, DueFirst
  <1> QED
    BY <1>0, <1>1, <1>2, <1>5, <1>6

\* Where a reader of the feed stands, from the phase of its generator.
Stands(p) == CASE p = "idle" -> "out"
               [] p \in {"replaying", "live"} -> "in"
               [] p \in {"closing", "closed"} -> "gone"

\* A generator that changes its phase moves its own reader only.
LEMMA AtStep ==
    ASSUME TypeOK, NEW s \in Streams, NEW p \in Phases, phase' = [phase EXCEPT ![s] = p]
    PROVE  /\ [t \in Streams |-> At(t)]' = [[t \in Streams |-> At(t)] EXCEPT ![s] = Stands(p)]
           /\ At(s) = Stands(phase[s])
  <1>1. ASSUME NEW t \in Streams
        PROVE  phase'[t] = IF t = s THEN p ELSE phase[t]
    BY DEF TypeOK
  <1>2. ASSUME NEW t \in Streams
        PROVE  At(t)' = IF t = s THEN Stands(p) ELSE At(t)
    <2>1. CASE t = s
      <3>1. phase'[t] = p
        BY <1>1, <2>1
      <3> QED
        BY <2>1, <3>1 DEF At, Stands, Phases
    <2>2. CASE t # s
      <3>1. phase'[t] = phase[t] /\ phase[t] \in Phases
        BY <1>1, <2>2 DEF TypeOK
      <3> QED
        BY <2>2, <3>1 DEF At, Phases
    <2> QED
      BY <2>1, <2>2
  <1>3. [t \in Streams |-> At(t)]' = [t \in Streams |-> At(t)']
    OBVIOUS
  <1>4. [t \in Streams |-> At(t)'] = [[t \in Streams |-> At(t)] EXCEPT ![s] = Stands(p)]
    BY <1>2, Zenon
  <1> QED
    BY <1>3, <1>4, Zenon DEF At, Stands

\* Every step of the bus is a step of the feed, or changes nothing the feed
\* tells.
LEMMA FeedStep ==
    ASSUME IInv, \A s \in Streams : FeedInv(s), [Next]_vars
    PROVE  [Feed!Next]_(Feed!feed)
  <1> DEFINE at == [s \in Streams |-> At(s)]
             N == Len(published)
  <1>0. TypeOK /\ N \in Nat /\ HistoryIsSuffix
    BY DEF IInv, TypeOK
  <1>a. ASSUME NEW s \in Streams
        PROVE  /\ at[s] = At(s) /\ at'[s] = At(s)'
               /\ at \in [Streams -> {"out", "in", "gone"}]
               /\ at' \in [Streams -> {"out", "in", "gone"}]
    BY <1>0, TypeStep DEF At, IInv, TypeOK, Phases
  <1>1. ASSUME NEW f \in Frame, Publish(f)
        PROVE  Feed!Next
    <2>1. at' = at
      BY <1>1 DEF Publish, streamVars, At
    <2>2. Feed!Write(f)
      BY <1>1, <2>1 DEF Publish, streamVars, Feed!Write
    <2> QED
      BY <2>2 DEF Feed!Next
  <1>2. ASSUME NEW s \in Streams, Put(s)
        PROVE  [Feed!Next]_(Feed!feed)
    <2>1. at' = at /\ UNCHANGED <<published, from, sent>>
      BY <1>2 DEF Put, At
    <2>2. CASE Len(queue[s]) < QueueSize
      BY <1>2, <2>1, <2>2 DEF Put, Feed!feed
    <2>3. CASE ~(Len(queue[s]) < QueueSize)
      <3>1. dropped' = [dropped EXCEPT ![s] = dropped[s] \cup {N}] /\ s \in pending
        BY <1>2, <2>3 DEF Put
      <3>2. published # <<>> /\ phase[s] # "idle"
        BY <3>1 DEF IInv, Registration, FeedInv
      <3>3. at[s] # "out"
        BY <1>0, <3>2 DEF At, TypeOK, Phases
      <3>4. Feed!Lose(s)
        BY <2>1, <3>1, <3>2, <3>3 DEF Feed!Lose
      <3> QED
        BY <3>4 DEF Feed!Next
    <2> QED
      BY <2>2, <2>3
  <1>3. ASSUME NEW s \in Streams, Subscribe(s)
        PROVE  Feed!Next
    <2> DEFINE n == N + 1 - Len(history)
    <2>1. n \in 1..(N + 1)
      <3>1. Len(history) \in Nat /\ Len(history) <= N
        BY <1>0 DEF TypeOK, HistoryIsSuffix
      <3> QED
        BY <1>0, <3>1
    <2>2. /\ phase[s] = "idle" /\ phase' = [phase EXCEPT ![s] = "replaying"]
          /\ from' = [from EXCEPT ![s] = n] /\ UNCHANGED <<published, sent, dropped>>
      BY <1>3 DEF Subscribe
    <2>3. at[s] = "out" /\ at' = [at EXCEPT ![s] = "in"]
      <3>1. at' = [at EXCEPT ![s] = Stands("replaying")] /\ at[s] = Stands("idle")
        BY <1>0, <2>2, AtStep DEF Phases
      <3> QED
        BY <3>1 DEF Stands
    <2>4. Feed!Join(s, n)
      BY <2>2, <2>3 DEF Feed!Join
    <2> QED
      BY <2>1, <2>4 DEF Feed!Next
  <1>4. ASSUME NEW s \in Streams, ReplayFrame(s)
        PROVE  Feed!Next
    <2> DEFINE n == Head(replay[s])
    <2>1. /\ phase[s] = "replaying" /\ replay[s] # <<>>
          /\ sent' = [sent EXCEPT ![s] = Append(sent[s], n)]
          /\ UNCHANGED <<published, from, dropped, phase>>
      BY <1>4 DEF ReplayFrame, busVars
    <2>2. Feed!Due(s, n) /\ n \in 1..(N + 1)
      BY <1>0, <2>1, DueReplay
    <2>3. at[s] = "in" /\ at' = at
      BY <2>1 DEF At
    <2>4. Feed!Give(s, n)
      BY <2>1, <2>2, <2>3 DEF Feed!Give
    <2> QED
      BY <2>2, <2>4 DEF Feed!Next
  <1>5. ASSUME NEW s \in Streams, LiveFrame(s)
        PROVE  Feed!Next
    <2> DEFINE n == Head(queue[s])
    <2>1. /\ phase[s] = "live" /\ queue[s] # <<>>
          /\ sent' = [sent EXCEPT ![s] = Append(sent[s], n)]
          /\ phase' = [phase EXCEPT ![s] = IF published[n] \in Marked THEN "closing" ELSE "live"]
          /\ UNCHANGED <<published, from, dropped>>
      BY <1>5 DEF LiveFrame, busVars, Finishes
    <2>2. Feed!Due(s, n) /\ n \in 1..(N + 1)
      BY <1>0, <2>1, DueLive
    <2> DEFINE p == IF published[n] \in Marked THEN "closing" ELSE "live"
    <2>3. /\ at[s] = "in"
          /\ at' = [at EXCEPT ![s] = IF published[n] \in Marked THEN "gone" ELSE at[s]]
      <3>1. at' = [at EXCEPT ![s] = Stands(p)] /\ at[s] = Stands("live")
        <4>1. p \in Phases
          BY DEF Phases
        <4> QED
          BY <1>0, <2>1, <4>1, AtStep
      <3>2. Stands(p) = IF published[n] \in Marked THEN "gone" ELSE "in"
        BY DEF Stands
      <3>3. Stands("live") = "in"
        BY DEF Stands
      <3> QED
        BY <3>1, <3>2, <3>3
    <2>4. Feed!Give(s, n)
      BY <2>1, <2>2, <2>3 DEF Feed!Give
    <2> QED
      BY <2>2, <2>4 DEF Feed!Next
  <1>6. ASSUME NEW s \in Streams, ReplayDone(s) \/ Disconnect(s)
        PROVE  [Feed!Next]_(Feed!feed)
    <2>1. /\ phase[s] \in {"replaying", "live"}
          /\ phase' = [phase EXCEPT ![s] = "closing"] \/ phase' = [phase EXCEPT ![s] = "live"]
          /\ UNCHANGED <<published, from, sent, dropped>>
      BY <1>6 DEF ReplayDone, Disconnect, busVars
    <2>2. at[s] = "in"
      BY <2>1 DEF At
    <2>3. CASE phase' = [phase EXCEPT ![s] = "live"]
      <3>1. at' = [at EXCEPT ![s] = Stands("live")]
        BY <1>0, <2>3, AtStep DEF Phases
      <3>2. Stands("live") = "in"
        BY DEF Stands
      <3>3. at' = at
        BY <1>a, <2>2, <3>1, <3>2
      <3> QED
        BY <2>1, <3>3 DEF Feed!feed
    <2>4. CASE phase' = [phase EXCEPT ![s] = "closing"]
      <3>1. at' = [at EXCEPT ![s] = Stands("closing")]
        BY <1>0, <2>4, AtStep DEF Phases
      <3>2. Stands("closing") = "gone"
        BY DEF Stands
      <3>3. Feed!Depart(s)
        BY <2>1, <2>2, <3>1, <3>2 DEF Feed!Depart
      <3> QED
        BY <3>3 DEF Feed!Next
    <2> QED
      BY <2>1, <2>3, <2>4
  <1>7. ASSUME NEW s \in Streams, Unsubscribe(s)
        PROVE  UNCHANGED Feed!feed
    <2>1. /\ phase[s] = "closing" /\ phase' = [phase EXCEPT ![s] = "closed"]
          /\ UNCHANGED <<published, from, sent, dropped>>
      BY <1>7 DEF Unsubscribe
    <2>2. at' = [at EXCEPT ![s] = Stands("closed")] /\ at[s] = Stands("closing")
      BY <1>0, <2>1, AtStep DEF Phases
    <2>3. at' = at
      <3>1. Stands("closed") = Stands("closing")
        BY DEF Stands
      <3> QED
        BY <1>a, <2>2, <3>1
    <2> QED
      BY <2>1, <2>3 DEF Feed!feed
  <1>8. CASE UNCHANGED vars
    BY <1>8 DEF vars, busVars, streamVars, At, Feed!feed
  <1> QED
    BY <1>1, <1>2, <1>3, <1>4, <1>5, <1>6, <1>7, <1>8 DEF Next, Heartbeat

\* Both hold in every reachable state of the bus.
THEOREM FeedInvariant == Spec => [](IInv /\ \A s \in Streams : FeedInv(s))
  <1> DEFINE FInv == IInv /\ \A s \in Streams : FeedInv(s)
  <1>1. Init => FInv
    <2> SUFFICES ASSUME Init
                 PROVE  \A s \in Streams : FeedInv(s)
      BY InitInvariant
    <2>1. ASSUME NEW s \in Streams
          PROVE  FeedInv(s)
      <3>1. /\ pending = {} /\ phase[s] = "idle" /\ sent[s] = <<>> /\ replay[s] = <<>>
            /\ queue[s] = <<>> /\ dropped[s] = {}
        BY DEF Init
      <3>2. Elems(<<>>) = {}
        BY DEF Elems
      <3> QED
        BY <3>1, <3>2 DEF FeedInv, Holds
    <2> QED
      BY <2>1
  <1>2. FInv /\ [Next]_vars => FInv'
    BY InvariantStep, FeedInvStep
  <1> QED
    BY <1>1, <1>2, PTL DEF Spec

\* The bus implements the ordered feed: whatever publishers, generators and
\* disconnecting clients do, each client is given the frames from the one it
\* joined at, one after the other, without a gap other than the frames that
\* found its queue full.
THEOREM BusImplementsFeed == Spec => BusIsFeed
  <1>1. Init => Feed!Init
    BY DEF Init, Feed!Init, At
  <1>2. IInv /\ (\A s \in Streams : FeedInv(s)) /\ [Next]_vars => [Feed!Next]_(Feed!feed)
    BY FeedStep
  <1> QED
    BY <1>1, <1>2, FeedInvariant, PTL DEF Spec, BusIsFeed, Feed!Spec

(***************************************************************************)
(* The listener of the page.                                               *)
(***************************************************************************)

-----------------------------------------------------------------------------
(* The inductive invariant.                                                *)

\* What the bus is known to guarantee to its only stream.
BusInv == IInv /\ FeedInv(Stream)

\* Without a drop the stream yields every frame from its first one on.
Unbroken ==
    from[Stream] >= 1 /\ dropped[Stream] = {} =>
        \A j \in 1..Len(sent[Stream]) : sent[Stream][j] = from[Stream] + j - 1

Stages == {"idle", "begin", "progress", "end", "close", "commit", "over"} \cup ItemStages

Rows == [item : ItemIds, turn : 0..Items, status : Status]

\* The tests up to the k-th are closed; item x was started; it was closed with st.
Closed(k) == \A i \in 1..k : \E r \in 1..Len(verdict) : verdict[r].item = Test(i)
Ended(x, st) == \E r \in 1..Len(verdict) : verdict[r].item = x /\ verdict[r].status = st
Begun(x) == open = x \/ \E r \in 1..Len(verdict) : verdict[r].item = x

\* One item is open at a time, that of the place where the executor stands, and
\* the tests are closed one after the other.
RunInv ==
    /\ hooks \in SUBSET HookPhases /\ stage \in Stages /\ index \in 0..Items
    /\ verdict \in Seq(Rows) /\ open \in ItemIds \cup {NoItem}
    /\ stage \in {"idle", "begin"} => verdict = <<>> /\ index = 0
    /\ stage \in {"before_each", "test", "after_each"} => index \in 1..Items
    /\ stage \in ItemStages /\ open # NoItem => open = Here /\ stage \in hooks \cup {"test"}
    /\ stage \notin ItemStages \cup {"over"} => open = NoItem
    /\ stage \in {"progress", "after_each"} => Closed(index)
    /\ stage \in {"before_each", "test"} => Closed(index - 1)

\* Frame n says what the executor had stored when it was published, and that
\* has not changed since.
FrameIsTrue(n) ==
    LET e == published[n]
    IN  /\ e \in Frames
        /\ stage \notin {"idle", "begin"}
        /\ e.kind = "suite_progress" => Closed(e.item[2])
        /\ e.kind = "started" => Begun(e.item)
        /\ e.kind = "finished" => Ended(e.item, e.status)
        /\ e.kind = "suite_finished" => /\ stage \in {"close", "commit", "over"}
                                        /\ open = NoItem /\ e.status = Overall

About(n, x) == published[n].kind \in {"started", "finished"} /\ published[n].item = x

\* Every row has its frame, and the frame of the last row of an item is the last
\* one about it, until the item starts again.
Told(r) ==
    \E n \in 1..Len(published) :
        /\ published[n].kind = "finished" /\ published[n].item = verdict[r].item
        /\ LastRow(r) /\ open # verdict[r].item =>
              /\ published[n].status = verdict[r].status
              /\ \A m \in n + 1 .. Len(published) : ~About(m, verdict[r].item)

EveryVerdictTold == \A r \in 1..Len(verdict) : Told(r)

\* The run starts with its first frame, and no item follows its end.
InSequence ==
    \A m, n \in 1..Len(published) : m < n =>
        /\ published[n].kind # "suite_started"
        /\ published[m].kind = "suite_finished" => published[n].kind \notin {"started", "finished"}

FrameInv ==
    /\ \A n \in 1..Len(published) : FrameIsTrue(n)
    /\ EveryVerdictTold
    /\ InSequence

\* The items in the listener's state have been started, those it shows as closed
\* were closed like that, and the tests it counts are closed.
ItemsFollow ==
    /\ \A x \in DOMAIN client.item :
           \/ client.item[x] = "running" /\ Begun(x)
           \/ Ended(x, client.item[x])
    /\ Closed(client.done)

\* A state that says the suite is over was made by a suite_finished frame, the
\* last one the thread read.
EndWasHeard ==
    ~client.running =>
        /\ conn = "ended"
        /\ ~client.error =>
               /\ read \in 1..Len(sent[Stream])
               /\ published[sent[Stream][read]].kind = "suite_finished"
               /\ published[sent[Stream][read]].status = client.status

\* Without a loss, an item that was heard to finish is in the state, as it
\* finished, until another frame about it is read.
HeardStays ==
    from[Stream] = 1 /\ dropped[Stream] = {} =>
        \A n \in 1..read : published[n].kind = "finished" =>
            /\ published[n].item \in DOMAIN client.item
            /\ (\A m \in n + 1 .. read : ~About(m, published[n].item))
                  => client.item[published[n].item] = published[n].status

Clients == [running : BOOLEAN, status : Status \cup {"running"}, done : Nat,
            item : UNION {[D -> Status \cup {"running"}] : D \in SUBSET ItemIds},
            error : BOOLEAN]

ClientInv ==
    /\ conn \in {"none", "open", "ended"} /\ client \in Clients
    /\ read \in Nat /\ read <= Len(sent[Stream])
    /\ stage = "idle" => conn = "none"
    /\ conn = "none" => read = 0
    /\ ItemsFollow
    /\ EndWasHeard
    /\ HeardStays

LInv == Unbroken /\ RunInv /\ FrameInv /\ ClientInv

-----------------------------------------------------------------------------
(* The executor.                                                           *)

\* What an executor step does that publishes frame e.
Moves(e) ==
    /\ Publish(e) /\ e \in Frames
    /\ UNCHANGED <<conn, read, client>>
    /\ stage \notin {"idle", "over"} /\ stage' \notin {"idle", "begin"}
    /\ stage \in {"close", "commit"} => stage' \in {"close", "commit"}
    /\ e.kind = "suite_started" => stage = "begin"
    /\ e.kind = "suite_progress" => Closed(e.item[2])
    /\ e.kind = "started" => stage \in ItemStages /\ open = NoItem /\ open' = e.item
    /\ e.kind = "finished" => /\ stage \in ItemStages /\ open = e.item /\ open' = NoItem
                              /\ \E row \in Rows : /\ row.item = e.item /\ row.status = e.status
                                                   /\ verdict' = Append(verdict, row)
    /\ e.kind = "suite_finished" => stage' = "close" /\ open = NoItem /\ e.status = Overall
    /\ e.kind # "finished" => verdict' = verdict
    /\ e.kind \notin {"started", "finished"} => open' = open

\* What an executor step does that publishes nothing.
Passes ==
    /\ UNCHANGED <<vars, verdict, open, conn, read, client>>
    /\ stage \notin {"idle", "begin", "over"} \/ stage' = "over"
    /\ stage # "idle" /\ stage' \notin {"idle", "begin"}
    /\ stage \in {"close", "commit", "over"} => stage' \in {"close", "commit", "over"}

\* One row more.
LEMMA VerdictAppend ==
    ASSUME NEW v \in Seq(Rows), NEW row \in Rows
    PROVE  /\ Append(v, row) \in Seq(Rows) /\ Len(v) \in Nat
           /\ Len(Append(v, row)) = Len(v) + 1
           /\ \A r \in 1..Len(v) : Append(v, row)[r] = v[r]
           /\ Append(v, row)[Len(v) + 1] = row
  OBVIOUS

\* Frames are records of the executor.
LEMMA FrameParts ==
    ASSUME NEW k, NEW x, NEW st
    PROVE  /\ Event(k, x, st).kind = k
           /\ Event(k, x, st).item = x
           /\ Event(k, x, st).status = st
  BY DEF Event

\* No item is the absence of one, and a place of the suite has one item.
LEMMA ItemFacts ==
    /\ NoItem \notin ItemIds
    /\ RunInv /\ stage \in ItemStages => Here \in ItemIds
  <1>1. ASSUME NoItem \in ItemIds
        PROVE  FALSE
    <2>1. PICK t : t \in HookPhases \cup {"test"} /\ NoItem[1] = t
      BY <1>1 DEF ItemIds, Hook, Test
    <2>2. NoItem[1] = "none"
      BY DEF NoItem
    <2> QED
      BY <2>1, <2>2 DEF HookPhases
  <1>2. ASSUME RunInv, stage \in ItemStages
        PROVE  Here \in ItemIds
    BY <1>2 DEF RunInv, ItemStages, Here, ItemIds
  <1> QED
    BY <1>1, <1>2

\* Where the executor can go from where it stands.
Follows(s, i, t, j) ==
    \/ s = "begin" /\ t = "progress" /\ j = 0
    \/ s = "progress" /\ i = 0 /\ t = "before_all" /\ j = 0
    \/ s = "progress" /\ i # 0 /\ t = "after_each" /\ j = i
    \/ s = "before_all" /\ t = "after_all" /\ j = 0
    \/ s = "before_all" /\ t = "before_each" /\ j = 1 /\ Items # 0
    \/ s = "before_each" /\ t = "test" /\ j = i
    \/ s = "test" /\ t = "progress" /\ j = i
    \/ s = "after_each" /\ t = "before_each" /\ j = i + 1 /\ i < Items
    \/ s = "after_each" /\ t = "after_all" /\ j = 0
    \/ s = "after_all" /\ t = "end" /\ j = 0
    \/ s = "end" /\ t = "close" /\ j = 0
    \/ s = "close" /\ t = "commit" /\ j = 0

LEMMA OnwardsFacts ==
    ASSUME RunInv, stage \notin {"idle", "commit", "over"}, NEW v, NEW place \in Onwards(v)
    PROVE  Follows(stage, index, place[1], place[2])
  <1>1. stage \in {"begin", "progress", "before_all", "before_each", "test", "after_each",
                   "after_all", "end", "close"}
    BY DEF RunInv, Stages, ItemStages, HookPhases
  <1>2. CASE stage = "begin" \/ stage = "progress" \/ stage = "before_each" \/ stage = "test"
    BY <1>2 DEF Onwards, Follows
  <1>3. CASE stage = "before_all"
    BY <1>3 DEF Onwards, Follows
  <1>4. CASE stage = "after_each"
    BY <1>4 DEF Onwards, Follows
  <1>5. CASE stage = "after_all" \/ stage = "end" \/ stage = "close"
    BY <1>5 DEF Onwards, Follows
  <1> QED
    BY <1>1, <1>2, <1>3, <1>4, <1>5

\* The executor closes an item before it goes on, and a test with a row.
LEMMA PlaceStep ==
    ASSUME RunInv, Follows(stage, index, stage', index'),
           hooks' = hooks, verdict' \in Seq(Rows), open' = NoItem,
           \A i \in 1..Items : (\E r \in 1..Len(verdict) : verdict[r].item = Test(i)) =>
                                   \E r \in 1..Len(verdict') : verdict'[r].item = Test(i),
           stage = "test" => \E r \in 1..Len(verdict') : verdict'[r].item = Test(index)
    PROVE  RunInv'
  <1> DEFINE Old(k) == \A i \in 1..k : \E r \in 1..Len(verdict) : verdict[r].item = Test(i)
             New(k) == \A i \in 1..k : \E r \in 1..Len(verdict') : verdict'[r].item = Test(i)
  <1>0. /\ stage \in Stages /\ index \in 0..Items /\ Items \in Nat
        /\ stage \in {"before_each", "test", "after_each"} => index \in 1..Items
        /\ stage \in {"progress", "after_each"} => Old(index)
        /\ stage \in {"before_each", "test"} => Old(index - 1)
    BY ListenerAssumption DEF RunInv, Closed
  <1>1. /\ stage' \in Stages \ {"idle", "begin", "over"} /\ index' \in 0..Items
        /\ stage' \in {"before_each", "test", "after_each"} => index' \in 1..Items
    BY <1>0 DEF Follows, Stages, ItemStages, HookPhases
  <1>2. \A k \in 0..Items : Old(k) => New(k)
    <2> SUFFICES ASSUME NEW k \in 0..Items, Old(k), NEW i \in 1..k
                 PROVE  \E r \in 1..Len(verdict') : verdict'[r].item = Test(i)
      OBVIOUS
    <2>1. i \in 1..Items
      BY <1>0
    <2> QED
      BY <2>1
  <1>3. stage' \in {"progress", "after_each"} => New(index')
    <2>1. CASE stage = "begin"
      <3>1. index' = 0
        BY <2>1 DEF Follows
      <3> QED
        BY <3>1
    <2>2. CASE stage = "progress"
      <3>1. stage' = "after_each" => index' = index
        BY <2>2 DEF Follows
      <3>2. stage' # "progress"
        BY <2>2 DEF Follows
      <3>3. New(index)
        BY <1>0, <1>2, <2>2
      <3> QED
        BY <3>1, <3>2, <3>3
    <2>3. CASE stage = "test"
      <3>1. index' = index /\ index \in 1..Items /\ Old(index - 1)
        BY <1>0, <2>3 DEF Follows
      <3>2. index - 1 \in 0..Items
        BY <1>0, <3>1
      <3>3. New(index - 1)
        BY <1>2, <3>1, <3>2
      <3>4. ASSUME NEW i \in 1..index
            PROVE  \E r \in 1..Len(verdict') : verdict'[r].item = Test(i)
        <4>1. CASE i = index
          BY <2>3, <4>1
        <4>2. CASE i # index
          <5>1. i \in 1..(index - 1)
            BY <1>0, <3>1, <4>2
          <5> QED
            BY <3>3, <5>1
        <4> QED
          BY <4>1, <4>2
      <3> QED
        BY <3>1, <3>4
    <2>4. CASE stage \notin {"begin", "progress", "test"}
      BY <2>4 DEF Follows
    <2> QED
      BY <2>1, <2>2, <2>3, <2>4
  <1>4. stage' \in {"before_each", "test"} => New(index' - 1)
    <2>1. CASE stage = "before_all"
      <3>1. stage' \in {"before_each", "test"} => index' - 1 = 0
        BY <2>1 DEF Follows
      <3>2. New(0)
        OBVIOUS
      <3> QED
        BY <3>1, <3>2
    <2>2. CASE stage = "before_each"
      <3>1. index' = index /\ Old(index - 1) /\ index - 1 \in 0..Items
        BY <1>0, <2>2 DEF Follows
      <3>2. New(index - 1)
        BY <1>2, <3>1
      <3> QED
        BY <3>1, <3>2
    <2>3. CASE stage = "after_each"
      <3>1. stage' = "before_each" => index' - 1 = index
        BY <1>0, <2>3 DEF Follows
      <3>2. stage' # "test" /\ New(index)
        BY <1>0, <1>2, <2>3 DEF Follows
      <3> QED
        BY <3>1, <3>2
    <2>4. CASE stage \notin {"before_all", "before_each", "after_each"}
      BY <2>4 DEF Follows
    <2> QED
      BY <2>1, <2>2, <2>3, <2>4
  <1> QED
    BY <1>1, <1>3, <1>4 DEF RunInv, Closed

\* An executor step publishes one frame that tells what it did, or nothing.
LEMMA ExecutorStep ==
    ASSUME RunInv, Executor
    PROVE  RunInv' /\ ((\E e \in Frames : Moves(e)) \/ Passes)
  <1>0. /\ stage \in Stages /\ index \in 0..Items /\ Items \in Nat /\ verdict \in Seq(Rows)
        /\ open \in ItemIds \cup {NoItem}
        /\ stage \in ItemStages /\ open # NoItem => open = Here /\ stage \in hooks \cup {"test"}
        /\ stage \notin ItemStages \cup {"over"} => open = NoItem
    BY ListenerAssumption DEF RunInv
  <1>a. ASSUME NEW v, MovesOn(v), stage \notin {"idle", "commit", "over"}
        PROVE  Follows(stage, index, stage', index')
    BY <1>a, OnwardsFacts DEF MovesOn
  <1>b. ASSUME Follows(stage, index, stage', index')
        PROVE  /\ stage \notin {"idle", "over"} /\ stage' \notin {"idle", "begin", "over"}
               /\ stage \in {"close", "commit"} => stage' = "commit"
    BY <1>b DEF Follows
  <1>c. \A p \in HookPhases : p \notin {"idle", "begin", "commit", "over", "close", "test"}
    BY DEF HookPhases
  <1>1. CASE SuiteStarts
    <2> DEFINE e == Event("suite_started", NoItem, None)
    <2>1. /\ stage = "begin" /\ verdict' = verdict /\ open' = open /\ MovesOn(verdict)
          /\ Publish(e) /\ UNCHANGED <<hooks, conn, read, client>>
      BY <1>1 DEF SuiteStarts, Says, clientVars
    <2>2. /\ e.kind = "suite_started" /\ e \in Frames
      BY FrameParts DEF Frames
    <2>3. Follows(stage, index, stage', index')
      BY <1>a, <2>1
    <2>4. Moves(e)
      BY <1>b, <2>1, <2>2, <2>3 DEF Moves
    <2>5. open = NoItem
      BY <1>0, <2>1 DEF ItemStages, HookPhases
    <2>6. RunInv'
      BY <1>0, <2>1, <2>3, <2>5, PlaceStep
    <2> QED
      BY <2>2, <2>4, <2>6
  <1>2. CASE Progresses
    <2> DEFINE e == Event("suite_progress", Executed(index), None)
    <2>1. /\ stage = "progress" /\ verdict' = verdict /\ open' = open /\ MovesOn(verdict)
          /\ Publish(e) /\ UNCHANGED <<hooks, conn, read, client>>
      BY <1>2 DEF Progresses, Says, clientVars
    <2>2. /\ e.kind = "suite_progress" /\ e.item = Executed(index) /\ e \in Frames
      BY <1>0, FrameParts DEF Frames
    <2>3. Follows(stage, index, stage', index')
      BY <1>a, <2>1
    <2>4. e.item[2] = index
      BY <2>2 DEF Executed
    <2>5. Closed(e.item[2])
      BY <2>1, <2>4 DEF RunInv
    <2>6. Moves(e)
      BY <1>b, <2>1, <2>2, <2>3, <2>5 DEF Moves
    <2>7. open = NoItem
      BY <1>0, <2>1 DEF ItemStages, HookPhases
    <2>8. RunInv'
      BY <1>0, <2>1, <2>3, <2>7, PlaceStep
    <2> QED
      BY <2>2, <2>6, <2>8
  <1>3. CASE SkipHook
    <2>1. /\ stage \in HookPhases \ hooks /\ verdict' = verdict /\ open' = open
          /\ MovesOn(verdict) /\ UNCHANGED vars /\ UNCHANGED <<hooks, conn, read, client>>
      BY <1>3 DEF SkipHook, clientVars
    <2>2. stage \notin {"idle", "begin", "commit", "over", "close", "test"}
      BY <1>c, <2>1
    <2>3. Follows(stage, index, stage', index')
      BY <1>a, <2>1, <2>2
    <2>4. Passes
      BY <1>b, <2>1, <2>2, <2>3 DEF Passes
    <2>5. open = NoItem
      <3>1. stage \in ItemStages /\ stage \notin hooks /\ stage # "test"
        BY <2>1, <2>2 DEF ItemStages
      <3> QED
        BY <1>0, <3>1
    <2>6. RunInv'
      BY <1>0, <2>1, <2>2, <2>3, <2>5, PlaceStep
    <2> QED
      BY <2>4, <2>6
  <1>d. hooks \in SUBSET HookPhases => hooks \cup {"test"} \subseteq ItemStages
    BY DEF ItemStages
  <1>4. CASE ItemStarts
    <2> DEFINE e == Event("started", Here, None)
    <2>1. /\ stage \in hooks \cup {"test"} /\ open = NoItem /\ open' = Here
          /\ UNCHANGED <<hooks, stage, index, verdict>>
          /\ Publish(e) /\ UNCHANGED <<hooks, conn, read, client>>
      BY <1>4 DEF ItemStarts, Says, clientVars
    <2>2. stage \in ItemStages
      BY <2>1, <1>d DEF RunInv
    <2>3. Here \in ItemIds /\ stage \notin {"idle", "begin", "over", "close", "commit"}
      BY <2>2, ItemFacts DEF ItemStages, HookPhases
    <2>4. e.kind = "started" /\ e.item = Here /\ e \in Frames
      BY <2>3, FrameParts DEF Frames
    <2>5. Moves(e)
      BY <2>1, <2>2, <2>3, <2>4 DEF Moves
    <2>6. Here' = Here
      BY <2>1 DEF Here
    <2>7. RunInv'
      BY <1>0, <2>1, <2>2, <2>3, <2>6 DEF RunInv, Closed
    <2> QED
      BY <2>4, <2>5, <2>7
  <1>5. ASSUME NEW st \in Status, ItemFinishes(st)
        PROVE  RunInv' /\ \E e \in Frames : Moves(e)
    <2> DEFINE e == Event("finished", Here, st)
               row == [item |-> Here, turn |-> index, status |-> st]
    <2>1. /\ stage \in ItemStages /\ open # NoItem /\ open' = NoItem
          /\ verdict' = Append(verdict, row) /\ MovesOn(verdict')
          /\ Publish(e) /\ UNCHANGED <<hooks, conn, read, client>>
      BY <1>5 DEF ItemFinishes, Says, clientVars
    <2>2. open = Here /\ Here \in ItemIds /\ stage \notin {"idle", "begin", "over", "close", "commit"}
      BY <1>0, <2>1, ItemFacts DEF ItemStages, HookPhases
    <2>3. /\ e.kind = "finished" /\ e.item = Here /\ e.status = st /\ e \in Frames
      BY <1>5, <2>2, FrameParts DEF Frames
    <2>4. row \in Rows /\ row.item = Here /\ row.status = st
      BY <1>0, <1>5, <2>2 DEF Rows
    <2> HIDE DEF row
    <2>5. Follows(stage, index, stage', index')
      BY <1>a, <2>1, <2>2
    <2>6. \E x \in Rows : x.item = e.item /\ x.status = e.status /\ verdict' = Append(verdict, x)
      BY <2>1, <2>3, <2>4
    <2>7. Moves(e)
      BY <1>b, <2>1, <2>2, <2>3, <2>5, <2>6 DEF Moves
    <2>8. /\ verdict' \in Seq(Rows) /\ Len(verdict') = Len(verdict) + 1 /\ Len(verdict) \in Nat
          /\ \A r \in 1..Len(verdict) : verdict'[r] = verdict[r]
          /\ verdict'[Len(verdict) + 1] = row
      BY <1>0, <2>1, <2>4, VerdictAppend
    <2>9. \A r \in 1..Len(verdict) : r \in 1..Len(verdict')
      BY <2>8
    <2>10. \A i \in 1..Items : (\E r \in 1..Len(verdict) : verdict[r].item = Test(i)) =>
                                   \E r \in 1..Len(verdict') : verdict'[r].item = Test(i)
      BY <2>8, <2>9
    <2>11. stage = "test" => \E r \in 1..Len(verdict') : verdict'[r].item = Test(index)
      <3>1. Len(verdict) + 1 \in 1..Len(verdict')
        BY <2>8
      <3>2. stage = "test" => Here = Test(index)
        BY DEF Here
      <3> QED
        BY <2>4, <2>8, <3>1, <3>2
    <2>12. RunInv'
      BY <2>1, <2>5, <2>8, <2>10, <2>11, PlaceStep
    <2> QED
      BY <2>3, <2>7, <2>12
  <1>6. CASE SuiteFinishes
    <2> DEFINE e == Event("suite_finished", NoItem, Overall)
    <2>1. /\ stage = "end" /\ verdict' = verdict /\ open' = open /\ MovesOn(verdict)
          /\ Publish(e) /\ UNCHANGED <<hooks, conn, read, client>>
      BY <1>6 DEF SuiteFinishes, Says, clientVars
    <2>2. e.kind = "suite_finished" /\ e.status = Overall /\ e \in Frames
      <3>1. Overall \in Status
        BY DEF Overall, Status
      <3> QED
        BY <3>1, FrameParts DEF Frames
    <2>3. Follows(stage, index, stage', index')
      BY <1>a, <2>1
    <2>4. open = NoItem
      BY <1>0, <2>1 DEF ItemStages, HookPhases
    <2>5. stage' = "close"
      BY <2>1, <2>3 DEF Follows
    <2>6. Moves(e)
      BY <1>b, <2>1, <2>2, <2>3, <2>4, <2>5 DEF Moves
    <2>7. RunInv'
      BY <1>0, <2>1, <2>3, <2>4, PlaceStep
    <2> QED
      BY <2>2, <2>6, <2>7
  <1>7. CASE LogEntry
    <2> DEFINE e == Event("execution_log", NoItem, None)
    <2>1. /\ stage \in ItemStages /\ UNCHANGED <<hooks, stage, index, open, verdict>>
          /\ Publish(e) /\ UNCHANGED <<hooks, conn, read, client>>
      BY <1>7 DEF LogEntry, Says, clientVars
    <2>2. e.kind = "execution_log" /\ e \in Frames
      BY FrameParts DEF Frames
    <2>3. stage \notin {"idle", "begin", "over", "close", "commit"}
      BY <2>1 DEF ItemStages, HookPhases
    <2>4. Moves(e)
      BY <2>1, <2>2, <2>3 DEF Moves
    <2>5. RunInv'
      BY <2>1 DEF RunInv, Closed, Here
    <2> QED
      BY <2>2, <2>4, <2>5
  <1>8. CASE LastLogEntry
    <2> DEFINE e == Event("execution_log", NoItem, None)
    <2>1. /\ stage = "close" /\ verdict' = verdict /\ open' = open /\ MovesOn(verdict)
          /\ Publish(e) /\ UNCHANGED <<hooks, conn, read, client>>
      BY <1>8 DEF LastLogEntry, Says, clientVars
    <2>2. /\ e.kind = "execution_log" /\ e \in Frames
      BY FrameParts DEF Frames
    <2>3. Follows(stage, index, stage', index')
      BY <1>a, <2>1
    <2>4. Moves(e)
      BY <1>b, <2>1, <2>2, <2>3 DEF Moves
    <2>5. open = NoItem
      BY <1>0, <2>1 DEF ItemStages, HookPhases
    <2>6. RunInv'
      BY <1>0, <2>1, <2>3, <2>5, PlaceStep
    <2> QED
      BY <2>2, <2>4, <2>6
  <1>9. CASE RunCloses \/ RunDies
    <2>1. /\ stage' = "over" /\ stage # "idle" /\ UNCHANGED <<hooks, index, open, verdict>>
          /\ UNCHANGED vars /\ UNCHANGED <<hooks, conn, read, client>>
      BY <1>9 DEF RunCloses, RunDies, clientVars
    <2>2. Passes
      BY <2>1 DEF Passes
    <2>3. RunInv'
      BY <1>0, <2>1 DEF RunInv, Stages, ItemStages, HookPhases
    <2> QED
      BY <2>2, <2>3
  <1> QED
    BY <1>1, <1>2, <1>3, <1>4, <1>5, <1>6, <1>7, <1>8, <1>9 DEF Executor

\* Whatever else happens, the executor's variables change only when the run is
\* started.
LEMMA RunInvStep ==
    ASSUME RunInv, [ListenerNext]_allVars
    PROVE  RunInv'
  <1>1. CASE Executor
    BY <1>1, ExecutorStep
  <1>2. CASE RunSuite
    <2>1. stage = "idle" /\ stage' = "begin" /\ UNCHANGED <<hooks, index, open, verdict>>
      BY <1>2 DEF RunSuite
    <2> QED
      BY <2>1 DEF RunInv, Stages, ItemStages, HookPhases
  <1>3. CASE UNCHANGED <<hooks, stage, index, open, verdict>>
    BY <1>3 DEF RunInv, Closed, Here
  <1>4. \/ Executor \/ RunSuite \/ UNCHANGED <<hooks, stage, index, open, verdict>>
    BY DEF ListenerNext, Connects, StreamMoves, StreamCloses, Hears, ConnectionBreaks,
           LoadHistory, Select, runVars, allVars
  <1> QED
    BY <1>1, <1>2, <1>3, <1>4

-----------------------------------------------------------------------------
(* The bus under the run.                                                  *)

\* Every step of the run, the listener and the page is a step of the bus, or
\* leaves the bus alone.
LEMMA BusStep ==
    ASSUME RunInv, [ListenerNext]_allVars
    PROVE  [Next]_vars
  <1>0. Stream \in Streams
    BY ListenerAssumption
  <1>1. CASE Executor
    <2>1. CASE \E e \in Frames : Moves(e)
      <3>1. PICK e \in Frames : Publish(e)
        BY <2>1 DEF Moves
      <3>2. e \in Frame
        BY FramesAssumption
      <3> QED
        BY <3>1, <3>2 DEF Next
    <2>2. CASE Passes
      BY <2>2 DEF Passes
    <2> QED
      BY <1>1, <2>1, <2>2, ExecutorStep
  <1>2. CASE RunSuite \/ Hears \/ ConnectionBreaks \/ LoadHistory \/ \E e \in executions : Select(e)
    BY <1>2 DEF RunSuite, Hears, ConnectionBreaks, LoadHistory, Select
  <1>3. CASE Connects \/ StreamMoves \/ StreamCloses
    BY <1>0, <1>3 DEF Connects, StreamMoves, StreamCloses, Next
  <1>4. CASE UNCHANGED allVars
    BY <1>4 DEF allVars
  <1> QED
    BY <1>1, <1>2, <1>3, <1>4 DEF ListenerNext

\* The run, its hooks and an early death included, is a behaviour of the bus, and
\* closes an item before it opens the next (_execute).
THEOREM RunUsesTheBus == ListenerSpec => Spec /\ []RunInv
  <1>1. ListenerInit => Init /\ RunInv
    BY ListenerAssumption DEF ListenerInit, RunInv, Stages, ItemStages, HookPhases
  <1>2. RunInv /\ [ListenerNext]_allVars => RunInv'
    BY RunInvStep
  <1>3. RunInv /\ [ListenerNext]_allVars => [Next]_vars
    BY BusStep
  <1> QED
    BY <1>1, <1>2, <1>3, PTL DEF ListenerSpec, Spec

\* A stream yields only frames that were published.
LEMMA SentInLog ==
    ASSUME BusInv
    PROVE  /\ sent[Stream] \in Seq(Nat) /\ Len(sent[Stream]) \in Nat /\ Len(published) \in Nat
           /\ published \in Seq(Frame) /\ from[Stream] \in Nat
           /\ \A j \in 1..Len(sent[Stream]) : sent[Stream][j] \in 1..Len(published)
  <1>0. /\ Stream \in Streams /\ TypeOK /\ Ordered(Stream) /\ Registration(Stream)
        /\ FeedInv(Stream)
    BY ListenerAssumption DEF BusInv, IInv
  <1>1. /\ sent[Stream] \in Seq(Nat) /\ Len(published) \in Nat /\ published \in Seq(Frame)
        /\ from[Stream] \in Nat
    BY <1>0 DEF TypeOK
  <1>2. ASSUME NEW j \in 1..Len(sent[Stream])
        PROVE  sent[Stream][j] \in 1..Len(published)
    <2>1. sent[Stream][j] \in Nat /\ Holds(Stream, sent[Stream][j])
      BY <1>1 DEF Holds, Elems
    <2>2. phase[Stream] # "idle"
      BY <1>0, <1>1 DEF Registration
    <2>3. sent[Stream][j] >= 1
      BY <1>0, <1>1, <2>1, <2>2 DEF FeedInv
    <2>4. sent[Stream][j] <= Len(published)
      BY <1>0, <1>1, <2>1 DEF Ordered, AllBelow
    <2> QED
      BY <1>1, <2>1, <2>3, <2>4
  <1> QED
    BY <1>1, <1>2

\* Frames are added to the log and to what the stream has yielded, at the end,
\* and a stream that reads keeps its first frame and its losses.
LEMMA BusGrows ==
    ASSUME BusInv, [Next]_vars
    PROVE  /\ Len(published') \in Nat /\ Len(published') >= Len(published)
           /\ \A n \in 1..Len(published) : published'[n] = published[n]
           /\ Len(sent'[Stream]) \in Nat /\ Len(sent'[Stream]) >= Len(sent[Stream])
           /\ \A j \in 1..Len(sent[Stream]) : sent'[Stream][j] = sent[Stream][j]
           /\ \/ from'[Stream] = from[Stream] /\ dropped[Stream] \subseteq dropped'[Stream]
              \/ sent[Stream] = <<>> /\ sent'[Stream] = <<>>
  <1>0. /\ Stream \in Streams /\ TypeOK /\ Registration(Stream) /\ published \in Seq(Frame)
        /\ sent[Stream] \in Seq(Nat) /\ sent \in [Streams -> Seq(Nat)]
        /\ from \in [Streams -> Nat] /\ dropped \in [Streams -> SUBSET Nat]
        /\ queue[Stream] \in Seq(Nat) /\ replay[Stream] \in Seq(Nat)
    BY ListenerAssumption DEF BusInv, IInv, TypeOK
  <1>1. ASSUME NEW f \in Frame, Publish(f)
        PROVE  /\ Len(published') \in Nat /\ Len(published') >= Len(published)
               /\ \A n \in 1..Len(published) : published'[n] = published[n]
               /\ UNCHANGED <<sent, from, dropped>>
    <2>1. published' = Append(published, f) /\ UNCHANGED <<sent, from, dropped>>
      BY <1>1 DEF Publish, streamVars
    <2> QED
      BY <1>0, <2>1
  <1>2. ASSUME NEW s \in Streams, Put(s)
        PROVE  UNCHANGED <<published, sent, from>> /\ dropped[Stream] \subseteq dropped'[Stream]
    BY <1>0, <1>2 DEF Put
  <1>3. ASSUME NEW s \in Streams, Subscribe(s)
        PROVE  /\ UNCHANGED <<published, sent, dropped>>
               /\ from'[Stream] = from[Stream] \/ sent[Stream] = <<>>
    BY <1>0, <1>3 DEF Subscribe, Registration
  <1>4. ASSUME NEW s \in Streams, ReplayFrame(s) \/ LiveFrame(s)
        PROVE  /\ UNCHANGED <<published, from, dropped>>
               /\ \/ sent'[Stream] = sent[Stream]
                  \/ \E n \in Nat : sent'[Stream] = Append(sent[Stream], n)
    <2>1. UNCHANGED <<published, from, dropped>>
      BY <1>4 DEF ReplayFrame, LiveFrame, busVars
    <2>2. CASE s # Stream
      BY <1>0, <1>4, <2>1, <2>2 DEF ReplayFrame, LiveFrame
    <2>3. CASE s = Stream /\ ReplayFrame(s)
      <3>1. replay[s] # <<>> /\ sent'[s] = Append(sent[s], Head(replay[s]))
        BY <1>0, <2>3 DEF ReplayFrame
      <3>2. Head(replay[s]) \in Nat
        BY <1>0, <2>3, <3>1, TailFacts
      <3> QED
        BY <2>1, <2>3, <3>1, <3>2
    <2>4. CASE s = Stream /\ LiveFrame(s)
      <3>1. queue[s] # <<>> /\ sent'[s] = Append(sent[s], Head(queue[s]))
        BY <1>0, <2>4 DEF LiveFrame
      <3>2. Head(queue[s]) \in Nat
        BY <1>0, <2>4, <3>1, TailFacts
      <3> QED
        BY <2>1, <2>4, <3>1, <3>2
    <2> QED
      BY <1>4, <2>2, <2>3, <2>4
  <1>5. ASSUME NEW s \in Streams, ReplayDone(s) \/ Disconnect(s) \/ Unsubscribe(s)
        PROVE  UNCHANGED <<published, sent, from, dropped>>
    BY <1>5 DEF ReplayDone, Disconnect, Unsubscribe, busVars
  <1>6. ASSUME UNCHANGED vars
        PROVE  UNCHANGED <<published, sent, from, dropped>>
    BY <1>6 DEF vars, busVars, streamVars
  <1>7. ASSUME NEW n \in Nat, sent'[Stream] = Append(sent[Stream], n)
        PROVE  /\ Len(sent'[Stream]) \in Nat /\ Len(sent'[Stream]) >= Len(sent[Stream])
               /\ \A j \in 1..Len(sent[Stream]) : sent'[Stream][j] = sent[Stream][j]
    BY <1>0, <1>7, AppendFacts
  <1>8. Len(sent[Stream]) \in Nat /\ Len(published) \in Nat
    BY <1>0
  <1>9. CASE \E s \in Streams : ReplayFrame(s) \/ LiveFrame(s)
    <2>1. /\ UNCHANGED <<published, from, dropped>>
          /\ \/ sent'[Stream] = sent[Stream]
             \/ \E n \in Nat : sent'[Stream] = Append(sent[Stream], n)
      BY <1>4, <1>9
    <2> QED
      BY <1>7, <1>8, <2>1
  <1>10. CASE \E f \in Frame : Publish(f)
    BY <1>1, <1>8, <1>10
  <1>11. CASE \/ \E s \in Streams : \/ Put(s) \/ Subscribe(s)
                                    \/ ReplayDone(s) \/ Disconnect(s) \/ Unsubscribe(s)
              \/ UNCHANGED vars
    <2>1. UNCHANGED <<published, sent>>
      BY <1>2, <1>3, <1>5, <1>6, <1>11
    <2>2. \/ from'[Stream] = from[Stream] /\ dropped[Stream] \subseteq dropped'[Stream]
          \/ sent[Stream] = <<>>
      BY <1>2, <1>3, <1>5, <1>6, <1>11
    <2> QED
      BY <1>8, <2>1, <2>2
  <1> QED
    BY <1>9, <1>10, <1>11 DEF Next, Heartbeat

\* Nothing is skipped while nothing is dropped.
LEMMA UnbrokenStep ==
    ASSUME BusInv, Unbroken, [Next]_vars
    PROVE  Unbroken'
  <1> DEFINE S == sent[Stream]
  <1>0. /\ Stream \in Streams /\ TypeOK /\ Registration(Stream) /\ FeedInv(Stream)
        /\ Len(published) \in Nat
        /\ S \in Seq(Nat) /\ Len(S) \in Nat /\ sent \in [Streams -> Seq(Nat)]
        /\ from[Stream] \in Nat
        /\ \A j \in 1..Len(S) : S[j] \in 1..Len(published)
    BY SentInLog, ListenerAssumption DEF BusInv, IInv, TypeOK
  <1>1. ASSUME NEW n \in Nat, Feed!Due(Stream, n), sent'[Stream] = Append(S, n),
               UNCHANGED <<from, dropped>>
        PROVE  Unbroken'
    <2> SUFFICES ASSUME from[Stream] >= 1, dropped[Stream] = {}, NEW j \in 1..(Len(S) + 1)
                 PROVE  Append(S, n)[j] = from[Stream] + j - 1
      BY <1>0, <1>1, AppendFacts DEF Unbroken
    <2>1. \A i \in 1..Len(S) : S[i] = from[Stream] + i - 1
      BY DEF Unbroken
    <2>2. Feed!Last(Stream) = from[Stream] + Len(S) - 1
      <3>1. CASE S = <<>>
        BY <1>0, <3>1 DEF Feed!Last
      <3>2. CASE S # <<>>
        <4>1. Len(S) \in 1..Len(S) /\ Feed!Last(Stream) = S[Len(S)]
          BY <1>0, <3>2 DEF Feed!Last
        <4> QED
          BY <2>1, <4>1
      <3> QED
        BY <3>1, <3>2
    <2>3. n = from[Stream] + Len(S)
      <3> DEFINE a == from[Stream] + Len(S)
      <3>1. a \in Nat /\ (a - 1) + 1 = a
        BY <1>0
      <3>a. Feed!Last(Stream) + 1 = a
        BY <1>0, <2>2
      <3> HIDE DEF a
      <3>2. n \in a..Len(published) /\ \A k \in a..(n - 1) : k \in dropped[Stream]
        BY <1>1, <3>a DEF Feed!Due
      <3>3. a \notin a..(n - 1)
        BY <3>2
      <3>4. n = a
        BY <1>0, <3>1, <3>2, <3>3
      <3> QED
        BY <3>4 DEF a
    <2>4. CASE j \in 1..Len(S)
      <3>1. Append(S, n)[j] = S[j]
        BY <1>0, <1>1, <2>4, AppendFacts
      <3> QED
        BY <2>1, <2>4, <3>1
    <2>5. CASE j = Len(S) + 1
      <3>1. Append(S, n)[j] = n
        BY <1>0, <1>1, <2>5, AppendFacts
      <3> QED
        BY <1>0, <2>3, <2>5, <3>1
    <2> QED
      BY <1>0, <2>4, <2>5
  <1>2. CASE \E s \in Streams : ReplayFrame(s) \/ LiveFrame(s)
    <2>0. PICK s \in Streams : ReplayFrame(s) \/ LiveFrame(s)
      BY <1>2
    <2>1. s = Stream
      BY <1>0, ListenerAssumption
    <2>2. CASE ReplayFrame(s)
      <3>1. /\ phase[Stream] = "replaying" /\ replay[Stream] # <<>>
            /\ sent'[Stream] = Append(S, Head(replay[Stream])) /\ UNCHANGED <<from, dropped>>
        BY <1>0, <2>1, <2>2 DEF ReplayFrame
      <3>2. Feed!Due(Stream, Head(replay[Stream])) /\ Head(replay[Stream]) \in Nat
        BY <1>0, <3>1, DueReplay DEF BusInv
      <3> QED
        BY <1>1, <3>1, <3>2
    <2>3. CASE LiveFrame(s)
      <3>1. /\ phase[Stream] = "live" /\ queue[Stream] # <<>>
            /\ sent'[Stream] = Append(S, Head(queue[Stream])) /\ UNCHANGED <<from, dropped>>
        BY <1>0, <2>1, <2>3 DEF LiveFrame
      <3>2. Feed!Due(Stream, Head(queue[Stream])) /\ Head(queue[Stream]) \in Nat
        BY <1>0, <3>1, DueLive DEF BusInv
      <3> QED
        BY <1>1, <3>1, <3>2
    <2> QED
      BY <2>0, <2>2, <2>3
  <1>3. CASE sent' = sent
    <2>1. \/ from'[Stream] = from[Stream] /\ dropped[Stream] \subseteq dropped'[Stream]
          \/ S = <<>>
      BY BusGrows
    <2>2. CASE S = <<>>
      BY <1>3, <2>2 DEF Unbroken
    <2>3. CASE from'[Stream] = from[Stream] /\ dropped[Stream] \subseteq dropped'[Stream]
      BY <1>3, <2>3 DEF Unbroken
    <2> QED
      BY <2>1, <2>2, <2>3
  <1>4. sent' = sent \/ \E s \in Streams : ReplayFrame(s) \/ LiveFrame(s)
    BY DEF Next, Publish, Put, Subscribe, ReplayDone, Heartbeat, Disconnect, Unsubscribe,
           vars, busVars, streamVars
  <1> QED
    BY <1>2, <1>3, <1>4

-----------------------------------------------------------------------------
(* The frames of the run.                                                  *)

LEMMA FrameKinds ==
    ASSUME NEW e \in Frames
    PROVE  /\ e.kind \in {"suite_started", "execution_log", "suite_finished", "suite_progress",
                          "started", "finished"}
           /\ e.kind = "suite_progress" => e.item[2] \in 0..Items
           /\ e.kind \in {"started", "finished"} => e.item \in ItemIds
           /\ e.kind \in {"finished", "suite_finished"} => e.status \in Status
  <1>1. CASE \E i \in 0..Items : e = Event("suite_progress", Executed(i), None)
    BY <1>1, FrameParts DEF Executed
  <1>2. CASE \E x \in ItemIds : e = Event("started", x, None)
    BY <1>2, FrameParts
  <1>3. CASE \E x \in ItemIds, st \in Status : e = Event("finished", x, st)
    BY <1>3, FrameParts
  <1>4. CASE \E st \in Status : e = Event("suite_finished", NoItem, st)
    BY <1>4, FrameParts
  <1>5. CASE \E k \in {"suite_started", "execution_log"} : e = Event(k, NoItem, None)
    BY <1>5, FrameParts
  <1> QED
    BY <1>1, <1>2, <1>3, <1>4, <1>5 DEF Frames

\* The rows stay.
RowsStay ==
    /\ Len(verdict) \in Nat /\ Len(verdict') \in Nat /\ Len(verdict) <= Len(verdict')
    /\ \A r \in 1..Len(verdict) : verdict'[r] = verdict[r]

\* What the executor has started or closed stays so while the rows stay.
LEMMA RecordStays ==
    ASSUME RowsStay
    PROVE  /\ \A k : Closed(k) => Closed(k)'
           /\ \A x, st : Ended(x, st) => Ended(x, st)'
           /\ \A x : Begun(x) /\ open' = open => Begun(x)'
  <1>1. \A r \in 1..Len(verdict) : r \in 1..Len(verdict') /\ verdict'[r] = verdict[r]
    BY DEF RowsStay
  <1>2. ASSUME NEW k, Closed(k)
        PROVE  Closed(k)'
    BY <1>1, <1>2 DEF Closed
  <1>3. ASSUME NEW x, NEW st, Ended(x, st)
        PROVE  Ended(x, st)'
    BY <1>1, <1>3 DEF Ended
  <1>4. ASSUME NEW x, Begun(x), open' = open
        PROVE  Begun(x)'
    BY <1>1, <1>4 DEF Begun
  <1> QED
    BY <1>2, <1>3, <1>4

\* An executor step adds at most a row, and an item that it closes has one.
LEMMA MovesKeepRows ==
    ASSUME RunInv, NEW e, Moves(e)
    PROVE  /\ RowsStay
           /\ \A x \in ItemIds : Begun(x) => Begun(x)'
           /\ e.kind = "started" => Begun(e.item)'
           /\ e.kind = "finished" => Ended(e.item, e.status)'
  <1>0. verdict \in Seq(Rows) /\ Len(verdict) \in Nat
    BY DEF RunInv
  <1>1. CASE e.kind = "finished"
    <2>1. PICK row \in Rows : /\ row.item = e.item /\ row.status = e.status
                              /\ verdict' = Append(verdict, row)
      BY <1>1 DEF Moves
    <2>2. /\ Len(verdict') = Len(verdict) + 1 /\ verdict'[Len(verdict) + 1] = row
          /\ \A r \in 1..Len(verdict) : verdict'[r] = verdict[r]
      BY <1>0, <2>1, VerdictAppend
    <2>3. RowsStay /\ Len(verdict) + 1 \in 1..Len(verdict')
      BY <1>0, <2>2 DEF RowsStay
    <2>4. Ended(e.item, e.status)'
      BY <2>1, <2>2, <2>3 DEF Ended
    <2>5. open = e.item
      BY <1>1 DEF Moves
    <2>6. ASSUME NEW x \in ItemIds, Begun(x)
          PROVE  Begun(x)'
      <3>1. CASE open = x
        BY <2>1, <2>2, <2>3, <2>5, <3>1 DEF Begun
      <3>2. CASE \E r \in 1..Len(verdict) : verdict[r].item = x
        <4>1. PICK r \in 1..Len(verdict) : verdict[r].item = x
          BY <3>2
        <4>2. r \in 1..Len(verdict') /\ verdict'[r].item = x
          BY <2>2, <2>3, <4>1 DEF RowsStay
        <4> QED
          BY <4>2 DEF Begun
      <3> QED
        BY <2>6, <3>1, <3>2 DEF Begun
    <2> QED
      BY <1>1, <2>3, <2>4, <2>6
  <1>2. CASE e.kind # "finished"
    <2>1. verdict' = verdict /\ RowsStay
      BY <1>0, <1>2 DEF Moves, RowsStay
    <2>2. e.kind = "started" => open = NoItem /\ open' = e.item
      BY DEF Moves
    <2>3. e.kind # "started" => open' = open
      BY <1>2 DEF Moves
    <2>4. ASSUME NEW x \in ItemIds, Begun(x)
          PROVE  Begun(x)'
      <3>1. x # NoItem
        BY ItemFacts
      <3> QED
        BY <2>1, <2>2, <2>3, <2>4, <3>1 DEF Begun
    <2>5. e.kind = "started" => Begun(e.item)'
      BY <2>2 DEF Begun
    <2> QED
      BY <1>2, <2>1, <2>4, <2>5
  <1> QED
    BY <1>1, <1>2

\* A step that publishes nothing and closes nothing keeps the log true.
LEMMA FramesStay ==
    ASSUME FrameInv, UNCHANGED <<published, verdict, open>>,
           stage \notin {"idle", "begin"} => stage' \notin {"idle", "begin"},
           stage \in {"close", "commit", "over"} => stage' \in {"close", "commit", "over"}
    PROVE  FrameInv'
  <1>1. ASSUME NEW n \in 1..Len(published)
        PROVE  FrameIsTrue(n)'
    <2>1. FrameIsTrue(n)
      BY DEF FrameInv
    <2>2. Overall' = Overall
      BY DEF Overall, AnyError
    <2>3. published'[n] = published[n]
      OBVIOUS
    <2> QED
      BY <2>1, <2>2, <2>3 DEF FrameIsTrue, Closed, Begun, Ended
  <1>2. EveryVerdictTold'
    BY DEF FrameInv, EveryVerdictTold, Told, LastRow, About
  <1>3. InSequence'
    BY DEF FrameInv, InSequence
  <1> QED
    BY <1>1, <1>2, <1>3 DEF FrameInv

\* A frame is true when it is published, and is not contradicted later.
LEMMA FramesMove ==
    ASSUME published \in Seq(Frame), RunInv, FrameInv, NEW e, Moves(e)
    PROVE  FrameInv'
  <1> DEFINE N == Len(published)
  <1>0. /\ N \in Nat /\ e \in Frames /\ e \in Frame /\ published' = Append(published, e)
        /\ verdict \in Seq(Rows) /\ Len(verdict) \in Nat
    BY FramesAssumption DEF Moves, Publish, RunInv
  <1>1. /\ Len(published') = N + 1 /\ published'[N + 1] = e
        /\ \A n \in 1..N : published'[n] = published[n]
    BY <1>0
  <1>2. /\ RowsStay
        /\ \A x \in ItemIds : Begun(x) => Begun(x)'
        /\ e.kind = "started" => Begun(e.item)'
        /\ e.kind = "finished" => Ended(e.item, e.status)'
    BY MovesKeepRows
  <1>3. ASSUME NEW n \in 1..N
        PROVE  FrameIsTrue(n)'
    <2> DEFINE f == published[n]
    <2>1. FrameIsTrue(n) /\ f \in Frames /\ published'[n] = f
      BY <1>1 DEF FrameInv, FrameIsTrue
    <2>2. stage' \notin {"idle", "begin"}
      BY DEF Moves
    <2>3. f.kind = "suite_progress" => Closed(f.item[2])'
      BY <1>2, <2>1, RecordStays DEF FrameIsTrue
    <2>4. f.kind = "started" => Begun(f.item)'
      BY <1>2, <2>1, FrameKinds DEF FrameIsTrue
    <2>5. f.kind = "finished" => Ended(f.item, f.status)'
      BY <1>2, <2>1, RecordStays DEF FrameIsTrue
    <2>6. f.kind = "suite_finished" => /\ stage' \in {"close", "commit", "over"}
                                       /\ open' = NoItem /\ f.status = Overall'
      <3> SUFFICES ASSUME f.kind = "suite_finished"
                   PROVE  /\ stage' \in {"close", "commit", "over"}
                          /\ open' = NoItem /\ f.status = Overall'
        OBVIOUS
      <3>1. stage \in {"close", "commit", "over"} /\ open = NoItem /\ f.status = Overall
        BY <2>1 DEF FrameIsTrue
      <3>2. stage \notin ItemStages /\ stage \in {"close", "commit"}
        BY <3>1 DEF Moves, ItemStages, HookPhases
      <3>3. e.kind # "started" /\ e.kind # "finished"
        BY <3>2 DEF Moves
      <3>4. verdict' = verdict /\ open' = open /\ stage' \in {"close", "commit"}
        BY <3>2, <3>3 DEF Moves
      <3>5. Overall' = Overall
        BY <3>4 DEF Overall, AnyError
      <3> QED
        BY <3>1, <3>4, <3>5
    <2>7. published'[n] = f /\ f \in Frames
      BY <2>1
    <2> QED
      BY <2>2, <2>3, <2>4, <2>5, <2>6, <2>7 DEF FrameIsTrue
  <1>4. ASSUME NEW n \in Nat, n = N + 1
        PROVE  FrameIsTrue(n)'
    <2>1. stage' \notin {"idle", "begin"}
      BY DEF Moves
    <2>2. e.kind = "suite_progress" => Closed(e.item[2])'
      <3>1. e.kind = "suite_progress" => Closed(e.item[2])
        BY DEF Moves
      <3> QED
        BY <1>2, <3>1, RecordStays
    <2>3. e.kind = "suite_finished" => /\ stage' \in {"close", "commit", "over"}
                                       /\ open' = NoItem /\ e.status = Overall'
      <3> SUFFICES ASSUME e.kind = "suite_finished"
                   PROVE  /\ stage' \in {"close", "commit", "over"}
                          /\ open' = NoItem /\ e.status = Overall'
        OBVIOUS
      <3>1. stage' = "close" /\ open = NoItem /\ e.status = Overall
        BY DEF Moves
      <3>2. verdict' = verdict /\ open' = open
        BY DEF Moves
      <3>3. Overall' = Overall
        BY <3>2 DEF Overall, AnyError
      <3> QED
        BY <3>1, <3>2, <3>3
    <2>4. published'[n] = e /\ e \in Frames
      BY <1>0, <1>1, <1>4
    <2> QED
      BY <1>2, <2>1, <2>2, <2>3, <2>4 DEF FrameIsTrue
  <1>5. EveryVerdictTold'
    <2> SUFFICES ASSUME NEW r \in 1..Len(verdict')
                 PROVE  \E n \in 1..Len(published') :
                          /\ published'[n].kind = "finished"
                          /\ published'[n].item = verdict'[r].item
                          /\ LastRow(r)' /\ open' # verdict'[r].item =>
                                /\ published'[n].status = verdict'[r].status
                                /\ \A m \in n + 1 .. Len(published') :
                                      ~About(m, verdict[r].item)'
      BY DEF EveryVerdictTold, Told
    <2>a. Len(verdict') \in Nat /\ Len(verdict) <= Len(verdict')
      BY <1>2 DEF RowsStay
    <2>1. CASE r \in 1..Len(verdict)
      <3> DEFINE x == verdict[r].item
      <3>0. verdict'[r] = verdict[r] /\ x \in ItemIds /\ x # NoItem
        <4>1. verdict'[r] = verdict[r]
          BY <1>2, <2>1 DEF RowsStay
        <4>2. verdict[r] \in Rows
          BY <1>0, <2>1
        <4>3. x \in ItemIds
          BY <4>2 DEF Rows
        <4> QED
          BY <4>1, <4>3, ItemFacts
      <3>1. PICK n \in 1..N :
                /\ published[n].kind = "finished" /\ published[n].item = x
                /\ LastRow(r) /\ open # x =>
                      /\ published[n].status = verdict[r].status
                      /\ \A m \in n + 1 .. N : ~About(m, x)
        BY <2>1 DEF FrameInv, EveryVerdictTold, Told
      <3>2. n \in 1..Len(published') /\ published'[n] = published[n]
        BY <1>0, <1>1
      <3>3. ASSUME LastRow(r)', open' # x
            PROVE  LastRow(r) /\ open # x /\ ~(e.kind \in {"started", "finished"} /\ e.item = x)
        <4>1. LastRow(r)
          <5> SUFFICES ASSUME NEW later \in r + 1 .. Len(verdict)
                       PROVE  verdict[later].item # x
            BY DEF LastRow
          <5>1. later \in r + 1 .. Len(verdict') /\ later \in 1..Len(verdict)
            BY <1>0, <2>1, <2>a
          <5>2. verdict'[later] = verdict[later]
            BY <1>2, <5>1 DEF RowsStay
          <5> QED
            BY <3>0, <3>3, <5>1, <5>2 DEF LastRow
        <4>2. CASE e.kind = "finished"
          <5>1. PICK row \in Rows : row.item = e.item /\ verdict' = Append(verdict, row)
            BY <4>2 DEF Moves
          <5>2. Len(verdict') = Len(verdict) + 1 /\ verdict'[Len(verdict) + 1] = row
            BY <1>0, <5>1, VerdictAppend
          <5>3. Len(verdict) + 1 \in r + 1 .. Len(verdict')
            BY <1>0, <2>1, <5>2
          <5>4. row.item # x
            BY <3>0, <3>3, <5>2, <5>3 DEF LastRow
          <5>5. open = e.item
            BY <4>2 DEF Moves
          <5> QED
            BY <4>1, <5>1, <5>4, <5>5
        <4>3. CASE e.kind = "started"
          <5>1. open = NoItem /\ open' = e.item
            BY <4>3 DEF Moves
          <5> QED
            BY <3>0, <3>3, <4>1, <5>1
        <4>4. CASE e.kind \notin {"started", "finished"}
          <5>1. open' = open
            BY <4>4 DEF Moves
          <5> QED
            BY <3>3, <4>1, <4>4, <5>1
        <4> QED
          BY <4>2, <4>3, <4>4
      <3>4. ASSUME LastRow(r)', open' # x, NEW m \in n + 1 .. Len(published')
            PROVE  ~About(m, verdict[r].item)'
        <4>1. /\ \A k \in n + 1 .. N : ~About(k, x)
              /\ ~(e.kind \in {"started", "finished"} /\ e.item = x)
          BY <3>1, <3>3, <3>4
        <4>2. m \in n + 1 .. N \/ m = N + 1
          <5>1. N \in Nat /\ n \in 1..N /\ m \in n + 1 .. N + 1
            BY <1>0, <1>1, <3>4
          <5> HIDE DEF N
          <5> QED
            BY <5>1
        <4>3. m \in n + 1 .. N => published'[m] = published[m]
          BY <1>0, <1>1
        <4>4. verdict'[r].item = x
          BY <3>0
        <4> QED
          BY <1>1, <4>1, <4>2, <4>3, <4>4 DEF About
      <3> QED
        BY <3>0, <3>1, <3>2, <3>3, <3>4
    <2>2. CASE r \notin 1..Len(verdict)
      <3>1. e.kind = "finished"
        BY <2>2 DEF Moves
      <3>2. PICK row \in Rows : /\ row.item = e.item /\ row.status = e.status
                                /\ verdict' = Append(verdict, row)
        BY <3>1 DEF Moves
      <3>3. Len(verdict') = Len(verdict) + 1 /\ verdict'[Len(verdict) + 1] = row
        BY <1>0, <3>2, VerdictAppend
      <3>4. r = Len(verdict) + 1
        BY <1>0, <2>2, <3>3
      <3>5. N + 1 \in 1..Len(published') /\ N + 1 + 1 .. Len(published') = {}
        BY <1>0, <1>1
      <3> QED
        BY <1>1, <3>1, <3>2, <3>3, <3>4, <3>5
    <2> QED
      BY <2>1, <2>2
  <1>6. InSequence'
    <2> SUFFICES ASSUME NEW m \in 1..(N + 1), NEW n \in 1..(N + 1), m < n
                 PROVE  LET f == published'[m]  g == published'[n]
                        IN  /\ g.kind # "suite_started"
                            /\ f.kind = "suite_finished" => g.kind \notin {"started", "finished"}
      BY <1>1 DEF InSequence
    <2>1. m \in 1..N /\ published'[m] = published[m]
      BY <1>0, <1>1
    <2>2. CASE n \in 1..N
      <3>1. published'[n] = published[n]
        BY <1>1, <2>2
      <3> QED
        BY <2>1, <2>2, <3>1 DEF FrameInv, InSequence
    <2>3. CASE n = N + 1
      <3>1. published'[n] = e
        BY <1>1, <2>3
      <3>2. /\ stage # "begin"
            /\ published[m].kind = "suite_finished" => stage \in {"close", "commit", "over"}
        BY <2>1 DEF FrameInv, FrameIsTrue
      <3>3. /\ e.kind = "suite_started" => stage = "begin"
            /\ e.kind \in {"started", "finished"} => stage \in ItemStages
        BY DEF Moves
      <3>4. stage \in ItemStages => stage \notin {"close", "commit", "over"}
        BY DEF ItemStages, HookPhases
      <3> QED
        BY <2>1, <3>1, <3>2, <3>3, <3>4
    <2>4. n \in 1..N \/ n = N + 1
      <3>1. N \in Nat
        BY <1>0
      <3> HIDE DEF N
      <3> QED
        BY <3>1
    <2> QED
      BY <2>2, <2>3, <2>4
  <1>7. \A n \in 1..Len(published') : n \in Nat /\ (n \in 1..N \/ n = N + 1)
    BY <1>0, <1>1
  <1>8. \A n \in 1..Len(published') : FrameIsTrue(n)'
    BY <1>3, <1>4, <1>7
  <1> QED
    BY <1>5, <1>6, <1>8 DEF FrameInv

-----------------------------------------------------------------------------
(* The listener's state.                                                   *)

\* A step the listener takes no part in leaves its state true.
LEMMA ClientStays ==
    ASSUME BusInv, Unbroken, ClientInv, [Next]_vars,
           UNCHANGED <<conn, read, client>>,
           RowsStay, \A x \in ItemIds : Begun(x) => Begun(x)',
           stage' = "idle" => stage = "idle"
    PROVE  ClientInv'
  <1>0. /\ read \in Nat /\ read <= Len(sent[Stream]) /\ client \in Clients
        /\ DOMAIN client.item \subseteq ItemIds /\ client.done \in Nat
    BY DEF ClientInv, Clients
  <1>1. /\ Len(published) \in Nat /\ Len(sent[Stream]) \in Nat /\ from[Stream] \in Nat
        /\ \A j \in 1..Len(sent[Stream]) : sent[Stream][j] \in 1..Len(published)
    BY SentInLog
  <1>2. /\ \A n \in 1..Len(published) : published'[n] = published[n]
        /\ Len(sent'[Stream]) \in Nat /\ Len(sent'[Stream]) >= Len(sent[Stream])
        /\ \A j \in 1..Len(sent[Stream]) : sent'[Stream][j] = sent[Stream][j]
        /\ \/ from'[Stream] = from[Stream] /\ dropped[Stream] \subseteq dropped'[Stream]
           \/ sent[Stream] = <<>> /\ sent'[Stream] = <<>>
    BY BusGrows
  <1>3. ItemsFollow'
    <2>1. ASSUME NEW x \in DOMAIN client.item
          PROVE  \/ client.item[x] = "running" /\ Begun(x)'
                 \/ Ended(x, client.item[x])'
      <3>1. CASE client.item[x] = "running" /\ Begun(x)
        BY <1>0, <3>1
      <3>2. CASE Ended(x, client.item[x])
        BY <3>2, RecordStays
      <3> QED
        BY <3>1, <3>2 DEF ClientInv, ItemsFollow
    <2>2. Closed(client.done)'
      <3>1. Closed(client.done)
        BY DEF ClientInv, ItemsFollow
      <3> QED
        BY <3>1, RecordStays
    <2> QED
      BY <2>1, <2>2 DEF ItemsFollow
  <1>4. EndWasHeard'
    <2>1. ASSUME ~client.running, ~client.error
          PROVE  /\ read \in 1..Len(sent'[Stream])
                 /\ published'[sent'[Stream][read]] = published[sent[Stream][read]]
      <3>1. read \in 1..Len(sent[Stream])
        BY <2>1 DEF ClientInv, EndWasHeard
      <3>2. sent'[Stream][read] = sent[Stream][read] /\ sent[Stream][read] \in 1..Len(published)
        BY <1>1, <1>2, <3>1
      <3>3. read \in 1..Len(sent'[Stream])
        BY <1>1, <1>2, <3>1
      <3> QED
        BY <1>2, <3>2, <3>3
    <2> QED
      BY <2>1 DEF ClientInv, EndWasHeard
  <1>5. HeardStays'
    <2> SUFFICES ASSUME from'[Stream] = 1, dropped'[Stream] = {}
                 PROVE  \A n \in 1..read : published'[n].kind = "finished" =>
                            /\ published'[n].item \in DOMAIN client.item
                            /\ (\A m \in n + 1 .. read : ~About(m, published[n].item)')
                                  => client.item[published'[n].item] = published'[n].status
      BY DEF HeardStays, About
    <2>1. ASSUME NEW n \in 1..read
          PROVE  n \in 1..Len(published) /\ from[Stream] = 1 /\ dropped[Stream] = {}
      <3>1. sent[Stream] # <<>> /\ n \in 1..Len(sent[Stream])
        BY <1>0, <1>1
      <3>2. from[Stream] = 1 /\ dropped[Stream] = {}
        BY <1>2, <3>1
      <3>3. sent[Stream][n] = 1 + n - 1
        BY <3>1, <3>2 DEF Unbroken
      <3>4. sent[Stream][n] = n
        BY <1>0, <3>3
      <3> QED
        BY <1>1, <3>1, <3>2, <3>4
    <2>2. \A n \in 1..read : published'[n] = published[n]
      BY <1>2, <2>1
    <2> SUFFICES ASSUME NEW n \in 1..read, published'[n].kind = "finished"
                 PROVE  /\ published'[n].item \in DOMAIN client.item
                        /\ (\A m \in n + 1 .. read : ~About(m, published[n].item)')
                              => client.item[published'[n].item] = published'[n].status
      OBVIOUS
    <2>3. published'[n] = published[n] /\ from[Stream] = 1 /\ dropped[Stream] = {}
      BY <2>1, <2>2
    <2>4. ASSUME NEW m \in n + 1 .. read
          PROVE  About(m, published[n].item)' <=> About(m, published[n].item)
      <3>1. m \in 1..read
        BY <1>0
      <3> QED
        BY <2>2, <2>3, <3>1 DEF About
    <2>5. /\ published[n].item \in DOMAIN client.item
          /\ (\A m \in n + 1 .. read : ~About(m, published[n].item))
                => client.item[published[n].item] = published[n].status
      BY <2>3 DEF ClientInv, HeardStays
    <2> QED
      BY <2>3, <2>4, <2>5
  <1>6. read <= Len(sent'[Stream])
    BY <1>0, <1>1, <1>2
  <1> QED
    BY <1>3, <1>4, <1>5, <1>6 DEF ClientInv

\* The state after one frame more.
LEMMA ApplyFacts ==
    ASSUME NEW c \in Clients, NEW e \in Frames
    PROVE  /\ ApplyEvent(c, e) \in Clients
           /\ e.kind = "suite_started" => /\ ApplyEvent(c, e).item = [x \in {} |-> None]
                                          /\ ApplyEvent(c, e).done = 0
                                          /\ ApplyEvent(c, e).running
           /\ e.kind = "suite_progress" => /\ ApplyEvent(c, e).item = c.item
                                           /\ ApplyEvent(c, e).done = e.item[2]
                                           /\ ApplyEvent(c, e).running = c.running
           /\ e.kind = "started" => /\ ApplyEvent(c, e).item = With(c.item, e.item, "running")
                                         /\ ApplyEvent(c, e).done = c.done
                                         /\ ApplyEvent(c, e).running = c.running
           /\ e.kind = "finished" => /\ ApplyEvent(c, e).item = With(c.item, e.item, e.status)
                                          /\ ApplyEvent(c, e).done = c.done
                                          /\ ApplyEvent(c, e).running = c.running
           /\ e.kind = "suite_finished" => /\ ApplyEvent(c, e).item = c.item
                                           /\ ApplyEvent(c, e).done = c.done
                                           /\ ApplyEvent(c, e).status = e.status
           /\ e.kind = "execution_log" => ApplyEvent(c, e) = c
           /\ ApplyEvent(c, e).error = c.error
  <1>0. /\ c.item \in UNION {[D -> Status \cup {"running"}] : D \in SUBSET ItemIds}
        /\ c = [running |-> c.running, status |-> c.status, done |-> c.done, item |-> c.item,
                error |-> c.error]
        /\ c.running \in BOOLEAN /\ c.status \in Status \cup {"running"} /\ c.done \in Nat
        /\ c.error \in BOOLEAN
    BY DEF Clients
  <1>1. PICK D \in SUBSET ItemIds : c.item \in [D -> Status \cup {"running"}]
    BY <1>0
  <1>2. ASSUME NEW x \in ItemIds, NEW st \in Status \cup {"running"}
        PROVE  With(c.item, x, st) \in
                   UNION {[E -> Status \cup {"running"}] : E \in SUBSET ItemIds}
    <2>1. With(c.item, x, st) \in [D \cup {x} -> Status \cup {"running"}]
      BY <1>1 DEF With
    <2>2. D \cup {x} \in SUBSET ItemIds
      BY <1>1
    <2> QED
      BY <2>1, <2>2
  <1>3. [x \in {} |-> None] \in UNION {[E -> Status \cup {"running"}] : E \in SUBSET ItemIds}
    <2>1. [x \in {} |-> None] \in [{} -> Status \cup {"running"}]
      OBVIOUS
    <2>2. {} \in SUBSET ItemIds
      OBVIOUS
    <2> QED
      BY <2>1, <2>2
  <1>4. CASE e.kind = "suite_started"
    <2> DEFINE nothing == [x \in {} |-> None]
    <2>1. ApplyEvent(c, e) = [running |-> TRUE, status |-> "running", done |-> 0,
                              item |-> nothing, error |-> c.error]
      BY <1>4 DEF ApplyEvent, NewClient
    <2>2. nothing \in UNION {[E -> Status \cup {"running"}] : E \in SUBSET ItemIds}
      BY <1>3
    <2> HIDE DEF nothing
    <2>3. /\ ApplyEvent(c, e) \in Clients /\ ApplyEvent(c, e).item = nothing
          /\ ApplyEvent(c, e).done = 0 /\ ApplyEvent(c, e).running
          /\ ApplyEvent(c, e).error = c.error
      BY <1>0, <2>1, <2>2 DEF Clients
    <2> QED
      BY <1>4, <2>3 DEF nothing
  <1>5. CASE e.kind = "suite_progress"
    <2>1. ApplyEvent(c, e) = [running |-> c.running, status |-> c.status, done |-> e.item[2],
                              item |-> c.item, error |-> c.error]
      BY <1>0, <1>5 DEF ApplyEvent
    <2>2. e.item[2] \in Nat
      BY <1>5, FrameKinds, ListenerAssumption
    <2> QED
      BY <1>0, <1>5, <2>1, <2>2 DEF Clients
  <1>6. CASE e.kind = "started"
    <2>1. ApplyEvent(c, e) = [running |-> c.running, status |-> c.status, done |-> c.done,
                              item |-> With(c.item, e.item, "running"), error |-> c.error]
      BY <1>0, <1>6 DEF ApplyEvent
    <2>2. e.item \in ItemIds
      BY <1>6, FrameKinds
    <2> QED
      BY <1>0, <1>2, <1>6, <2>1, <2>2 DEF Clients
  <1>7. CASE e.kind = "finished"
    <2>1. ApplyEvent(c, e) = [running |-> c.running, status |-> c.status, done |-> c.done,
                              item |-> With(c.item, e.item, e.status), error |-> c.error]
      BY <1>0, <1>7 DEF ApplyEvent
    <2>2. e.item \in ItemIds /\ e.status \in Status \cup {"running"}
      BY <1>7, FrameKinds
    <2> QED
      BY <1>0, <1>2, <1>7, <2>1, <2>2 DEF Clients
  <1>8. CASE e.kind = "suite_finished"
    <2>1. ApplyEvent(c, e) = [running |-> FALSE, status |-> e.status, done |-> c.done,
                              item |-> c.item, error |-> c.error]
      BY <1>0, <1>8 DEF ApplyEvent
    <2>2. e.status \in Status \cup {"running"}
      BY <1>8, FrameKinds
    <2> QED
      BY <1>0, <1>8, <2>1, <2>2 DEF Clients
  <1>9. CASE e.kind = "execution_log"
    BY <1>9 DEF ApplyEvent
  <1> QED
    BY <1>4, <1>5, <1>6, <1>7, <1>8, <1>9, FrameKinds

\* What the thread hears is true, and makes its state true.
LEMMA HearsStep ==
    ASSUME BusInv, Unbroken, RunInv, FrameInv, ClientInv, Hears
    PROVE  ClientInv'
  <1> DEFINE n == sent[Stream][read + 1]
             e == published[n]
             item == client.item
  <1>0. /\ conn = "open" /\ read \in Nat /\ read < Len(sent[Stream]) /\ read' = read + 1
        /\ client \in Clients /\ client' = ApplyEvent(client, e)
        /\ conn' = IF e.kind = "suite_finished" THEN "ended" ELSE "open"
        /\ UNCHANGED <<published, sent, from, dropped, stage, open, verdict>>
    BY DEF Hears, ClientInv, vars, busVars, streamVars, runVars
  <1>1. /\ Len(sent[Stream]) \in Nat /\ n \in 1..Len(published) /\ Len(published) \in Nat
        /\ read + 1 \in 1..Len(sent[Stream])
    <2>1. /\ Len(sent[Stream]) \in Nat /\ Len(published) \in Nat
          /\ \A j \in 1..Len(sent[Stream]) : sent[Stream][j] \in 1..Len(published)
      BY SentInLog
    <2>2. read + 1 \in 1..Len(sent[Stream])
      BY <1>0, <2>1
    <2> QED
      BY <2>1, <2>2
  <1>2. FrameIsTrue(n) /\ e \in Frames
    BY <1>1 DEF FrameInv, FrameIsTrue
  <1>3. client.running /\ ItemsFollow
    BY <1>0 DEF ClientInv, EndWasHeard
  <1>4. client' \in Clients /\ client'.error = client.error
    BY <1>0, <1>2, ApplyFacts
  <1>5. ItemsFollow'
    <2> SUFFICES /\ \A x \in DOMAIN client'.item :
                        \/ client'.item[x] = "running" /\ Begun(x)
                        \/ Ended(x, client'.item[x])
                 /\ Closed(client'.done)
      BY <1>0 DEF ItemsFollow, Begun, Ended, Closed
    <2>1. CASE e.kind = "suite_started"
      <3>1. client'.item = [x \in {} |-> None] /\ client'.done = 0
        BY <1>0, <1>2, <2>1, ApplyFacts
      <3>2. DOMAIN client'.item = {}
        BY <3>1
      <3> QED
        BY <3>1, <3>2 DEF Closed
    <2>2. CASE e.kind = "suite_progress"
      <3>1. client'.item = item /\ client'.done = e.item[2] /\ Closed(e.item[2])
        BY <1>0, <1>2, <2>2, ApplyFacts DEF FrameIsTrue
      <3> QED
        BY <1>3, <3>1 DEF ItemsFollow
    <2>3. CASE e.kind = "started"
      <3>1. client'.item = With(item, e.item, "running") /\ client'.done = client.done
        BY <1>0, <1>2, <2>3, ApplyFacts
      <3>2. Begun(e.item)
        BY <1>2, <2>3 DEF FrameIsTrue
      <3>3. /\ DOMAIN client'.item = DOMAIN item \cup {e.item}
            /\ client'.item[e.item] = "running"
            /\ \A x \in DOMAIN item \ {e.item} : client'.item[x] = item[x]
        BY <3>1 DEF With
      <3> QED
        BY <1>3, <3>1, <3>2, <3>3 DEF ItemsFollow
    <2>4. CASE e.kind = "finished"
      <3>1. client'.item = With(item, e.item, e.status) /\ client'.done = client.done
        BY <1>0, <1>2, <2>4, ApplyFacts
      <3>2. Ended(e.item, e.status)
        BY <1>2, <2>4 DEF FrameIsTrue
      <3>3. /\ DOMAIN client'.item = DOMAIN item \cup {e.item}
            /\ client'.item[e.item] = e.status
            /\ \A x \in DOMAIN item \ {e.item} : client'.item[x] = item[x]
        BY <3>1 DEF With
      <3>4. ASSUME NEW x \in DOMAIN client'.item
            PROVE  \/ client'.item[x] = "running" /\ Begun(x)
                   \/ Ended(x, client'.item[x])
        <4>1. CASE x = e.item
          BY <3>2, <3>3, <4>1
        <4>2. CASE x # e.item
          <5>1. x \in DOMAIN item /\ client'.item[x] = item[x]
            BY <3>3, <4>2
          <5> QED
            BY <1>3, <5>1 DEF ItemsFollow
        <4> QED
          BY <4>1, <4>2
      <3> QED
        BY <1>3, <3>1, <3>4 DEF ItemsFollow
    <2>5. CASE e.kind \in {"suite_finished", "execution_log"}
      <3>1. client'.item = item /\ client'.done = client.done
        BY <1>0, <1>2, <2>5, ApplyFacts
      <3> QED
        BY <1>3, <3>1 DEF ItemsFollow
    <2> QED
      BY <1>2, <2>1, <2>2, <2>3, <2>4, <2>5, FrameKinds
  <1>6. EndWasHeard'
    <2>1. CASE e.kind = "suite_finished"
      <3>1. client'.status = e.status /\ conn' = "ended"
        BY <1>0, <1>2, <2>1, ApplyFacts
      <3>2. sent'[Stream][read'] = n /\ published'[n] = e /\ read' \in 1..Len(sent'[Stream])
        BY <1>0, <1>1
      <3> QED
        BY <2>1, <3>1, <3>2 DEF EndWasHeard
    <2>2. CASE e.kind # "suite_finished"
      <3>1. client'.running
        BY <1>0, <1>2, <1>3, <2>2, ApplyFacts, FrameKinds
      <3> QED
        BY <3>1 DEF EndWasHeard
    <2> QED
      BY <2>1, <2>2
  <1>7. HeardStays'
    <2> SUFFICES ASSUME from[Stream] = 1, dropped[Stream] = {}, NEW m \in 1..(read + 1),
                        published[m].kind = "finished"
                 PROVE  /\ published[m].item \in DOMAIN client'.item
                        /\ (\A k \in m + 1 .. read + 1 : ~About(k, published[m].item))
                              => client'.item[published[m].item] = published[m].status
      BY <1>0 DEF HeardStays, About
    <2> DEFINE f == published[m]
    <2>1. n = read + 1
      <3>1. n = 1 + (read + 1) - 1
        BY <1>1 DEF Unbroken
      <3> QED
        BY <1>0, <3>1
    <2>2. CASE m = read + 1
      <3>1. client'.item = With(item, e.item, e.status)
        BY <1>0, <1>2, <2>1, <2>2, ApplyFacts
      <3> QED
        BY <2>1, <2>2, <3>1 DEF With
    <2>3. CASE m # read + 1
      <3>1. m \in 1..read /\ m < n /\ m \in 1..Len(published)
        BY <1>0, <1>1, <2>1, <2>3
      <3>2. /\ f.item \in DOMAIN item
            /\ (\A k \in m + 1 .. read : ~About(k, f.item)) => item[f.item] = f.status
        BY <3>1 DEF ClientInv, HeardStays
      <3>3. e.kind # "suite_started"
        BY <1>1, <3>1 DEF FrameInv, InSequence
      <3>4. ASSUME \A k \in m + 1 .. read + 1 : ~About(k, f.item)
            PROVE  item[f.item] = f.status /\ ~(e.kind \in {"started", "finished"} /\ e.item = f.item)
        <4>1. \A k \in m + 1 .. read : k \in m + 1 .. read + 1
          BY <1>0
        <4>2. read + 1 \in m + 1 .. read + 1
          BY <1>0, <3>1
        <4>3. ~About(n, f.item)
          BY <2>1, <3>4, <4>2
        <4> QED
          BY <3>2, <3>4, <4>1, <4>3 DEF About
      <3>5. CASE e.kind \in {"started", "finished"}
        <4>1. PICK st : client'.item = With(item, e.item, st)
          BY <1>0, <1>2, <3>5, ApplyFacts
        <4>2. /\ DOMAIN client'.item = DOMAIN item \cup {e.item}
              /\ \A x \in DOMAIN item \ {e.item} : client'.item[x] = item[x]
          BY <4>1 DEF With
        <4> QED
          BY <3>2, <3>4, <3>5, <4>2
      <3>6. CASE e.kind \in {"suite_progress", "suite_finished", "execution_log"}
        <4>1. client'.item = item
          BY <1>0, <1>2, <3>6, ApplyFacts
        <4> QED
          BY <3>2, <3>4, <4>1
      <3> QED
        BY <1>2, <3>3, <3>5, <3>6, FrameKinds
    <2> QED
      BY <2>2, <2>3
  <1>8. /\ conn' \in {"none", "open", "ended"} /\ read' \in Nat /\ read' <= Len(sent'[Stream])
        /\ stage' = "idle" => conn' = "none"
        /\ conn' = "none" => read' = 0
    BY <1>0, <1>1 DEF ClientInv
  <1> QED
    BY <1>4, <1>5, <1>6, <1>7, <1>8 DEF ClientInv

\* The other steps of the thread: it is started, and its connection breaks.
LEMMA ThreadStep ==
    ASSUME RunInv, ClientInv, RunSuite \/ ConnectionBreaks
    PROVE  ClientInv'
  <1>1. CASE RunSuite
    <2>1. /\ stage = "idle" /\ stage' = "begin" /\ conn' = "open"
          /\ client' = NewClient /\ read' = read
          /\ UNCHANGED <<published, sent, from, dropped, open, verdict>>
      BY <1>1 DEF RunSuite, vars, busVars, streamVars
    <2>2. read = 0 /\ read <= Len(sent[Stream])
      BY <2>1 DEF ClientInv
    <2>3. client' \in Clients /\ DOMAIN client'.item = {} /\ client'.done = 0 /\ client'.running
      <3> DEFINE nothing == [x \in {} |-> None]
      <3>1. nothing \in UNION {[E -> Status \cup {"running"}] : E \in SUBSET ItemIds}
        <4>1. nothing \in [{} -> Status \cup {"running"}] /\ {} \in SUBSET ItemIds
          OBVIOUS
        <4> QED
          BY <4>1
      <3>2. DOMAIN nothing = {}
        OBVIOUS
      <3>3. client' = [running |-> TRUE, status |-> "running", done |-> 0,
                       item |-> nothing, error |-> FALSE]
        BY <2>1 DEF NewClient
      <3> HIDE DEF nothing
      <3> QED
        BY <3>1, <3>2, <3>3 DEF Clients
    <2>4. ItemsFollow'
      BY <2>1, <2>3 DEF ItemsFollow, Closed
    <2>5. EndWasHeard'
      BY <2>3 DEF EndWasHeard
    <2>6. HeardStays'
      BY <2>1, <2>2 DEF HeardStays, About
    <2> QED
      BY <2>1, <2>2, <2>3, <2>4, <2>5, <2>6 DEF ClientInv
  <1>2. CASE ConnectionBreaks
    <2>1. /\ conn = "open" /\ conn' = "ended" /\ read' = read
          /\ client' = [client EXCEPT !.running = FALSE, !.status = "error", !.error = TRUE]
          /\ UNCHANGED <<published, sent, from, dropped, stage, open, verdict>>
      BY <1>2 DEF ConnectionBreaks, vars, busVars, streamVars, runVars
    <2>2. /\ client \in Clients /\ ItemsFollow /\ HeardStays
          /\ read \in Nat /\ read <= Len(sent[Stream])
          /\ stage = "idle" => conn = "none"
      BY DEF ClientInv
    <2>3. /\ client' \in Clients /\ client'.item = client.item /\ client'.done = client.done
          /\ client'.error
      BY <2>1, <2>2 DEF Clients, Status
    <2>4. ItemsFollow'
      BY <2>1, <2>2, <2>3 DEF ItemsFollow, Begun, Ended, Closed
    <2>5. EndWasHeard'
      BY <2>1, <2>3 DEF EndWasHeard
    <2>6. HeardStays'
      BY <2>1, <2>2, <2>3 DEF HeardStays, About
    <2> QED
      BY <2>1, <2>2, <2>3, <2>4, <2>5, <2>6 DEF ClientInv
  <1> QED
    BY <1>1, <1>2

-----------------------------------------------------------------------------
(* The theorems.                                                           *)

LEMMA ListenerStep ==
    ASSUME BusInv, LInv, [ListenerNext]_allVars
    PROVE  LInv'
  <1>0. /\ Unbroken /\ RunInv /\ FrameInv /\ ClientInv /\ RunInv' /\ [Next]_vars
        /\ published \in Seq(Frame) /\ Len(verdict) \in Nat
    <2>1. Unbroken /\ RunInv /\ FrameInv /\ ClientInv
      BY DEF LInv
    <2>2. RunInv' /\ [Next]_vars
      BY <2>1, RunInvStep, BusStep
    <2>3. Len(verdict) \in Nat
      BY <2>1 DEF RunInv
    <2> QED
      BY <2>1, <2>2, <2>3, SentInLog
  <1>1. Unbroken'
    BY <1>0, UnbrokenStep
  <1> SUFFICES FrameInv' /\ ClientInv'
    BY <1>0, <1>1 DEF LInv
  <1>a. ASSUME UNCHANGED <<open, verdict>>
        PROVE  RowsStay /\ \A x \in ItemIds : Begun(x) => Begun(x)'
    BY <1>0, <1>a DEF RowsStay, Begun
  <1>2. ASSUME UNCHANGED <<published, stage, open, verdict>>
        PROVE  FrameInv' /\ (UNCHANGED <<conn, read, client>> => ClientInv')
    <2>1. FrameInv'
      BY <1>0, <1>2, FramesStay
    <2>2. UNCHANGED <<conn, read, client>> => ClientInv'
      BY <1>0, <1>2, <1>a, ClientStays
    <2> QED
      BY <2>1, <2>2
  <1>3. CASE Executor
    <2>1. CASE \E e \in Frames : Moves(e)
      <3>1. PICK e \in Frames : Moves(e)
        BY <2>1
      <3>2. FrameInv'
        BY <1>0, <3>1, FramesMove
      <3>3. /\ UNCHANGED <<conn, read, client>> /\ stage' # "idle"
            /\ RowsStay /\ \A x \in ItemIds : Begun(x) => Begun(x)'
        BY <1>0, <3>1, MovesKeepRows DEF Moves
      <3>4. ClientInv'
        BY <1>0, <3>3, ClientStays
      <3> QED
        BY <3>2, <3>4
    <2>2. CASE Passes
      <3>1. /\ UNCHANGED <<published, open, verdict, conn, read, client>>
            /\ stage # "idle" /\ stage' \notin {"idle", "begin"}
            /\ stage \in {"close", "commit", "over"} => stage' \in {"close", "commit", "over"}
        BY <2>2 DEF Passes, vars, busVars
      <3>2. FrameInv'
        BY <1>0, <3>1, FramesStay
      <3>3. ClientInv'
        BY <1>0, <1>a, <3>1, ClientStays
      <3> QED
        BY <3>2, <3>3
    <2> QED
      BY <1>0, <1>3, <2>1, <2>2, ExecutorStep
  <1>4. CASE RunSuite
    <2>1. stage = "idle" /\ stage' = "begin" /\ UNCHANGED <<published, open, verdict>>
      BY <1>4 DEF RunSuite, vars, busVars
    <2>2. FrameInv'
      BY <1>0, <2>1, FramesStay
    <2> QED
      BY <1>0, <1>4, <2>2, ThreadStep
  <1>5. CASE Hears
    <2>1. UNCHANGED <<published, stage, open, verdict>>
      BY <1>5 DEF Hears, vars, busVars, runVars
    <2> QED
      BY <1>0, <1>2, <1>5, <2>1, HearsStep
  <1>6. CASE ConnectionBreaks
    <2>1. UNCHANGED <<published, stage, open, verdict>>
      BY <1>6 DEF ConnectionBreaks, vars, busVars, runVars
    <2> QED
      BY <1>0, <1>2, <1>6, <2>1, ThreadStep
  <1>7. CASE \/ Connects \/ StreamMoves \/ StreamCloses \/ LoadHistory
             \/ (\E x \in executions : Select(x)) \/ UNCHANGED allVars
    <2>1. UNCHANGED <<published, stage, open, verdict, conn, read, client>>
      BY <1>7 DEF Connects, StreamMoves, StreamCloses, LoadHistory, Select, allVars, vars, busVars,
                  runVars, clientVars, Subscribe, Put, ReplayFrame, ReplayDone, LiveFrame,
                  Heartbeat, Unsubscribe, Disconnect
    <2> QED
      BY <1>2, <2>1
  <1> QED
    BY <1>3, <1>4, <1>5, <1>6, <1>7 DEF ListenerNext

\* The inductive invariant of the run, its frames and the listener's state.
THEOREM ListenerInvariant == ListenerSpec => [](BusInv /\ LInv)
  <1>1. Stream \in Streams
    BY ListenerAssumption
  <1>2. ListenerInit => LInv
    <2> SUFFICES ASSUME ListenerInit
                 PROVE  LInv
      OBVIOUS
    <2>1. /\ published = <<>> /\ sent[Stream] = <<>> /\ from[Stream] = 0 /\ verdict = <<>>
          /\ hooks \in HookSets /\ stage = "idle" /\ index = 0 /\ open = NoItem /\ conn = "none" /\ read = 0 /\ client = NewClient
      BY <1>1 DEF ListenerInit, Init
    <2>2. RunInv
      BY <2>1, ListenerAssumption DEF RunInv, Stages, ItemStages, HookPhases
    <2>3. FrameInv
      BY <2>1 DEF FrameInv, EveryVerdictTold, InSequence
    <2>4. client \in Clients /\ DOMAIN client.item = {} /\ client.done = 0 /\ client.running
      <3> DEFINE nothing == [x \in {} |-> None]
      <3>1. nothing \in UNION {[E -> Status \cup {"running"}] : E \in SUBSET ItemIds}
        <4>1. nothing \in [{} -> Status \cup {"running"}] /\ {} \in SUBSET ItemIds
          OBVIOUS
        <4> QED
          BY <4>1
      <3>2. DOMAIN nothing = {}
        OBVIOUS
      <3>3. client = [running |-> TRUE, status |-> "running", done |-> 0,
                      item |-> nothing, error |-> FALSE]
        BY <2>1 DEF NewClient
      <3> HIDE DEF nothing
      <3> QED
        BY <3>1, <3>2, <3>3 DEF Clients
    <2>5. ItemsFollow /\ EndWasHeard /\ HeardStays
      BY <2>1, <2>4 DEF ItemsFollow, EndWasHeard, HeardStays, Closed
    <2>6. ClientInv
      BY <2>1, <2>4, <2>5 DEF ClientInv
    <2>7. Unbroken
      BY <2>1 DEF Unbroken
    <2> QED
      BY <2>2, <2>3, <2>6, <2>7 DEF LInv
  <1>3. BusInv /\ LInv /\ [ListenerNext]_allVars => LInv'
    BY ListenerStep
  <1>4. IInv /\ (\A s \in Streams : FeedInv(s)) => BusInv
    BY <1>1 DEF BusInv
  <1>5. ListenerSpec => []BusInv
    BY <1>4, RunUsesTheBus, FeedInvariant, PTL
  <1> QED
    BY <1>2, <1>3, <1>5, PTL DEF ListenerSpec

\* What the user is told of a run is true of it, at every moment and at the end,
\* whatever interleaving of executor, bus, listener and page led there
\* (_apply_event).
THEOREM UserIsToldTheTruth == ListenerSpec => []StateIsTrue
  <1>1. BusInv /\ LInv => StateIsTrue
    <2> SUFFICES ASSUME BusInv, LInv
                 PROVE  ClientFollowsRun /\ EndIsTheEnd
      BY DEF StateIsTrue
    <2>0. /\ Unbroken /\ RunInv /\ FrameInv /\ ItemsFollow /\ EndWasHeard /\ HeardStays
          /\ verdict \in Seq(Rows) /\ DOMAIN verdict = 1..Len(verdict) /\ Len(verdict) \in Nat
          /\ client \in Clients /\ DOMAIN client.item \subseteq ItemIds /\ read \in Nat
          /\ read <= Len(sent[Stream]) /\ DOMAIN published = 1..Len(published)
          /\ Len(published) \in Nat
      BY SentInLog DEF LInv, ClientInv, RunInv, Clients
    <2>1. ClientFollowsRun
      BY <2>0 DEF ClientFollowsRun, ItemsFollow, Begun, Ended, Closed
    <2>2. ASSUME ~client.running, ~client.error
          PROVE  /\ Announced /\ client.status = Overall
                 /\ dropped[Stream] = {} /\ from[Stream] = 1 =>
                       /\ DOMAIN client.item = {verdict[r].item : r \in DOMAIN verdict}
                       /\ \A r \in DOMAIN verdict :
                             LastRow(r) => client.item[verdict[r].item] = verdict[r].status
      <3> DEFINE n == sent[Stream][read]
      <3>1. /\ read \in 1..Len(sent[Stream]) /\ published[n].kind = "suite_finished"
            /\ published[n].status = client.status
        BY <2>0, <2>2 DEF EndWasHeard
      <3>2. n \in 1..Len(published)
        BY <3>1, SentInLog
      <3>3. FrameIsTrue(n)
        BY <2>0, <3>2 DEF FrameInv
      <3>4. Announced /\ client.status = Overall /\ open = NoItem
        BY <2>0, <3>1, <3>2, <3>3 DEF FrameIsTrue, Announced
      <3>5. ASSUME dropped[Stream] = {}, from[Stream] = 1
            PROVE  /\ DOMAIN client.item = {verdict[r].item : r \in DOMAIN verdict}
                   /\ \A r \in DOMAIN verdict :
                         LastRow(r) => client.item[verdict[r].item] = verdict[r].status
        <4>1. n = read
          <5>1. n = 1 + read - 1
            BY <2>0, <3>1, <3>5 DEF Unbroken
          <5> QED
            BY <2>0, <5>1
        <4>2. ASSUME NEW r \in 1..Len(verdict)
              PROVE  /\ verdict[r].item \in DOMAIN client.item
                     /\ LastRow(r) => client.item[verdict[r].item] = verdict[r].status
          <5> DEFINE x == verdict[r].item
          <5>0. x \in ItemIds /\ open # x
            <6>1. verdict[r] \in Rows
              BY <2>0
            <6> QED
              BY <3>4, <6>1, ItemFacts DEF Rows
          <5>1. PICK m \in 1..Len(published) :
                    /\ published[m].kind = "finished" /\ published[m].item = x
                    /\ LastRow(r) /\ open # x =>
                          /\ published[m].status = verdict[r].status
                          /\ \A k \in m + 1 .. Len(published) : ~About(k, x)
            BY <2>0 DEF FrameInv, EveryVerdictTold, Told
          <5>2. ~(n < m) /\ n # m
            BY <2>0, <3>1, <3>2, <5>1 DEF FrameInv, InSequence
          <5>3. m \in 1..read
            BY <2>0, <4>1, <5>2
          <5>4. /\ x \in DOMAIN client.item
                /\ (\A k \in m + 1 .. read : ~About(k, x)) => client.item[x] = published[m].status
            BY <2>0, <3>5, <5>1, <5>3 DEF HeardStays
          <5>5. \A k \in m + 1 .. read : k \in m + 1 .. Len(published)
            BY <2>0, <3>2, <4>1
          <5> QED
            BY <5>0, <5>1, <5>4, <5>5
        <4>3. ASSUME NEW x \in DOMAIN client.item
              PROVE  \E r \in 1..Len(verdict) : verdict[r].item = x
          <5>1. open # x
            BY <2>0, <3>4, ItemFacts
          <5> QED
            BY <2>0, <5>1 DEF ItemsFollow, Begun, Ended
        <4> QED
          BY <2>0, <4>2, <4>3
      <3> QED
        BY <3>4, <3>5
    <2> QED
      BY <2>1, <2>2 DEF EndIsTheEnd
  <1> QED
    BY <1>1, ListenerInvariant, PTL
=============================================================================
