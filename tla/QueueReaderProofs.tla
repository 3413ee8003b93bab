--------------------------- MODULE QueueReaderProofs ---------------------------
(***************************************************************************)
(* Proofs about QueueReader: for any messages, any number of readers,      *)
(* receptions and exceptions, every reception is in exactly one place, and *)
(* a reader that gives up by itself holds nothing.                         *)
(***************************************************************************)
EXTENDS QueueReader, TLAPS

-----------------------------------------------------------------------------
(* The inductive invariant.                                                *)

\* A reader is at the top of its loop with fewer empty polls than the limit,
\* but for the exceptions; it comes to the limit with an empty batch.
AtItsPlace(r) ==
    /\ readers[r].pc \in {"connect", "poll"} => readers[r].retry < MaxRetry + faults
    /\ readers[r].retry <= MaxRetry + faults
    /\ readers[r].pc = "check" => readers[r].batch = {}
    /\ readers[r].pc = "left" /\ ~readers[r].stop => readers[r].batch = {}

\* A reader holds what was received.
HoldsReceived(r) == \A x \in readers[r].batch : x[2] <= received[x[1]]

\* The rows of what it holds are written, as long as the broker does not refuse.
HoldsWritten(r) ==
    \A x \in readers[r].batch : table[x] = resaved[x] + (IF readers[r].pc = "saved" THEN 1 ELSE 0)

\* No two readers hold the same reception.
Apart == \A q, r \in DOMAIN readers : q # r => readers[q].batch \cap readers[r].batch = {}

\* What no reader holds is written once if it was received, and else never.
RestWritten ==
    \A x \in Receptions :
        (\A r \in DOMAIN readers : x \notin readers[r].batch)
            => table[x] = resaved[x] + (IF x[2] <= received[x[1]] THEN 1 ELSE 0)

Accounts ==
    /\ \A r \in DOMAIN readers : HoldsReceived(r) /\ HoldsWritten(r)
    /\ Apart
    /\ RestWritten

Books == TypeOK /\ (\A r \in DOMAIN readers : AtItsPlace(r)) /\ Accounts

IInv == Books /\ StrangersTakeNothing

-----------------------------------------------------------------------------
(* Lemmas.                                                                 *)

\* What a reader is replaced by, for one and for the others.
LEMMA Replaced ==
    ASSUME readers \in Seq(Reader), NEW r \in DOMAIN readers, NEW rec \in Reader, With(r, rec)
    PROVE  /\ readers' \in Seq(Reader) /\ DOMAIN readers' = DOMAIN readers
           /\ readers'[r] = rec
           /\ \A q \in DOMAIN readers : q # r => readers'[q] = readers[q]
BY DEF With

\* A change of a reader that keeps its batch, and writes nothing, keeps the
\* accounts.
LEMMA SameBatch ==
    ASSUME readers \in Seq(Reader), Accounts,
           NEW r \in DOMAIN readers, NEW rec \in Reader, With(r, rec),
           rec.batch = readers[r].batch, rec.pc = "saved" <=> readers[r].pc = "saved",
           UNCHANGED <<table, received, resaved>>
    PROVE  Accounts'
<1>1. /\ DOMAIN readers' = DOMAIN readers
      /\ \A q \in DOMAIN readers : /\ readers'[q].batch = readers[q].batch
                                   /\ readers'[q].pc = "saved" <=> readers[q].pc = "saved"
    BY Replaced
<1>2. \A q \in DOMAIN readers' : HoldsReceived(q)' /\ HoldsWritten(q)'
    BY <1>1 DEF Accounts, HoldsReceived, HoldsWritten
<1>3. Apart' /\ RestWritten'
    BY <1>1 DEF Accounts, Apart, RestWritten
<1> QED BY <1>2, <1>3 DEF Accounts

\* The places of the readers, when one of them is replaced.
LEMMA PlaceOf ==
    ASSUME readers \in Seq(Reader), \A q \in DOMAIN readers : AtItsPlace(q),
           faults \in Nat, faults' \in Nat, faults <= faults', ReaderAssumption,
           NEW r \in DOMAIN readers, NEW rec \in Reader, With(r, rec),
           rec.pc \in {"connect", "poll"} => rec.retry < MaxRetry + faults',
           rec.retry <= MaxRetry + faults',
           rec.pc = "check" => rec.batch = {},
           rec.pc = "left" /\ ~rec.stop => rec.batch = {}
    PROVE  \A q \in DOMAIN readers' : AtItsPlace(q)'
<1> SUFFICES ASSUME NEW q \in DOMAIN readers'
             PROVE  AtItsPlace(q)'
    OBVIOUS
<1>1. q \in DOMAIN readers /\ (q = r => readers'[q] = rec) /\ (q # r => readers'[q] = readers[q])
    BY Replaced
<1>2. CASE q = r
    BY <1>1, <1>2 DEF AtItsPlace
<1>3. CASE q # r
  <2>1. readers[q] \in Reader
      BY <1>1
  <2>2. readers[q].retry \in Nat
      BY <2>1 DEF Reader
  <2> QED BY <1>1, <1>3, <2>2 DEF AtItsPlace, ReaderAssumption
<1> QED BY <1>2, <1>3

\* A step of one reader, of the accounts of which the step's own proof takes care.
LEMMA Turn ==
    ASSUME ReaderAssumption, Books,
           NEW r \in DOMAIN readers, NEW rec \in Reader, With(r, rec),
           queue' \in [Messages -> {"unsent", "visible", "hidden", "deleted"}],
           UNCHANGED threads, joining' \in DOMAIN readers \cup {None},
           table' \in [Receptions -> Nat], resaved' \in [Receptions -> Nat],
           received' \in [Messages -> 0 .. MaxCount], UNCHANGED faults \/ Fault,
           rec.pc \in {"connect", "poll"} => rec.retry < MaxRetry + faults',
           rec.retry <= MaxRetry + faults',
           rec.pc = "check" => rec.batch = {},
           rec.pc = "left" /\ ~rec.stop => rec.batch = {},
           Accounts'
    PROVE  Books'
<1>1. faults \in Nat /\ faults' \in 0 .. MaxFaults /\ faults' \in Nat /\ faults <= faults'
    BY DEF Books, TypeOK, Fault, ReaderAssumption
<1>2. readers \in Seq(Reader) /\ \A q \in DOMAIN readers : AtItsPlace(q)
    BY DEF Books, TypeOK
<1>3. \A q \in DOMAIN readers' : AtItsPlace(q)'
    BY <1>1, <1>2, PlaceOf
<1>4. readers' \in Seq(Reader) /\ DOMAIN readers' = DOMAIN readers
    BY <1>2, Replaced
<1>5. \A q \in DOMAIN readers' : readers'[q].retry <= MaxRetry + faults'
    BY <1>3 DEF AtItsPlace
<1>6. TypeOK'
    BY <1>1, <1>4, <1>5 DEF Books, TypeOK
<1> QED BY <1>3, <1>6 DEF Books

\* The readers are left alone.
LEMMA ReadersRest ==
    ASSUME ReaderAssumption, Books, UNCHANGED <<readers, table, received, resaved>>,
           UNCHANGED faults \/ Fault,
           queue' \in [Messages -> {"unsent", "visible", "hidden", "deleted"}],
           DOMAIN threads' \subseteq {QueueId}, \A q \in DOMAIN threads' : threads'[q] \in DOMAIN readers,
           joining' \in DOMAIN readers \cup {None}
    PROVE  Books'
<1>1. faults \in Nat /\ faults' \in 0 .. MaxFaults /\ faults' \in Nat /\ faults <= faults'
    BY DEF Books, TypeOK, Fault, ReaderAssumption
<1>2. \A r \in DOMAIN readers : readers[r].retry \in Nat
  <2>1. \A r \in DOMAIN readers : readers[r] \in Reader
      BY DEF Books, TypeOK
  <2> QED BY <2>1 DEF Reader
<1>3. \A r \in DOMAIN readers' : AtItsPlace(r)'
    BY <1>1, <1>2 DEF Books, AtItsPlace, ReaderAssumption
<1>4. \A r \in DOMAIN readers' : readers'[r].retry <= MaxRetry + faults'
    BY <1>3 DEF AtItsPlace
<1>5. TypeOK'
    BY <1>1, <1>4 DEF Books, TypeOK
<1>6. Accounts'
    BY DEF Books, Accounts, HoldsReceived, HoldsWritten, Apart, RestWritten
<1> QED BY <1>3, <1>5, <1>6 DEF Books

\* What one reader is, in a state that the invariant describes.
LEMMA ReaderIsTyped ==
    ASSUME ReaderAssumption, Books, NEW r \in DOMAIN readers
    PROVE  /\ readers[r] \in Reader /\ AtItsPlace(r)
           /\ readers[r].retry \in Nat /\ readers[r].quiet \in Nat
           /\ readers[r].stop \in BOOLEAN /\ readers[r].batch \subseteq Receptions
           /\ faults \in Nat /\ MaxFaults \in Nat /\ MaxRetry \in Nat
<1>1. readers[r] \in Reader
    BY DEF Books, TypeOK
<1> QED BY <1>1 DEF Books, TypeOK, Reader, ReaderAssumption

-----------------------------------------------------------------------------
(* The initial states, and one lemma for each kind of step.                *)

LEMMA BooksAtStart == ASSUME ReaderAssumption, Init PROVE Books
<1>1. DOMAIN readers = {} /\ readers \in Seq(Reader)
    BY DEF Init
<1>2. TypeOK
    BY <1>1 DEF Init, TypeOK, ReaderAssumption
<1>3. RestWritten
    BY <1>1 DEF Init, RestWritten, Receptions
<1> QED BY <1>1, <1>2, <1>3 DEF Books, Accounts, Apart

\* The handlers that touch the queue, and the queue itself.
LEMMA QueueStep ==
    ASSUME ReaderAssumption, Books, NEW m \in Messages,
           Publish(m) \/ Fetch(m) \/ AckByUser(m) \/ Reappear(m)
    PROVE  Books'
<1>1. /\ UNCHANGED <<threads, readers, joining, table, received, resaved, faults>>
      /\ queue' \in [Messages -> {"unsent", "visible", "hidden", "deleted"}]
    BY DEF Books, TypeOK, Publish, Fetch, AckByUser, Reappear
<1> QED BY <1>1, ReadersRest DEF Books, TypeOK

LEMMA StartStep == ASSUME ReaderAssumption, Books, Start PROVE Books'
<1> DEFINE n == Len(readers) + 1
<1>1. readers \in Seq(Reader) /\ Fresh \in Reader
    BY DEF Books, TypeOK, Fresh, Reader
<1>2. /\ readers' \in Seq(Reader) /\ DOMAIN readers' = DOMAIN readers \cup {n} /\ n \notin DOMAIN readers
      /\ readers'[n] = Fresh /\ \A q \in DOMAIN readers : readers'[q] = readers[q]
    BY <1>1 DEF Start
<1>3. Fresh.pc = "connect" /\ Fresh.retry = 0 /\ Fresh.batch = {}
    BY DEF Fresh
<1>4. MaxRetry \in Nat /\ MaxRetry > 0 /\ faults \in Nat
    BY DEF ReaderAssumption, Books, TypeOK
<1>5. \A q \in DOMAIN readers' : AtItsPlace(q)'
  <2> SUFFICES ASSUME NEW q \in DOMAIN readers'
               PROVE  AtItsPlace(q)'
      OBVIOUS
  <2>1. CASE q = n
      BY <1>2, <1>3, <1>4, <2>1 DEF AtItsPlace, Start
  <2>2. CASE q \in DOMAIN readers
      BY <1>2, <2>2 DEF AtItsPlace, Start, Books
  <2> QED BY <1>2, <2>1, <2>2
<1>6. /\ DOMAIN threads' \subseteq {QueueId} /\ \A q \in DOMAIN threads' : threads'[q] \in DOMAIN readers'
    BY <1>2 DEF Start, Books, TypeOK
<1>7. \A q \in DOMAIN readers' : readers'[q].retry <= MaxRetry + faults'
    BY <1>5 DEF AtItsPlace
<1>8. TypeOK'
    BY <1>2, <1>6, <1>7 DEF Books, TypeOK, Start
<1>9. Accounts'
  <2>1. /\ UNCHANGED <<table, received, resaved>>
        /\ readers'[n].batch = {} /\ \A q \in DOMAIN readers : readers'[q].batch = readers[q].batch
        /\ \A q \in DOMAIN readers : readers'[q].pc = readers[q].pc
      BY <1>2, <1>3 DEF Start
  <2>2. \A q \in DOMAIN readers' : HoldsReceived(q)' /\ HoldsWritten(q)'
      BY <1>2, <2>1 DEF Books, Accounts, HoldsReceived, HoldsWritten
  <2>3. Apart'
      BY <1>2, <2>1 DEF Books, Accounts, Apart
  <2>4. RestWritten'
      BY <1>2, <2>1 DEF Books, Accounts, RestWritten
  <2> QED BY <2>2, <2>3, <2>4 DEF Accounts
<1> QED BY <1>5, <1>8, <1>9 DEF Books

LEMMA ForgetStep == ASSUME ReaderAssumption, Books, Forget PROVE Books'
<1>1. /\ UNCHANGED <<queue, readers, table, received, resaved, faults>> /\ joining' = None
      /\ DOMAIN threads' \subseteq {QueueId} /\ \A q \in DOMAIN threads' : threads'[q] \in DOMAIN readers
    BY DEF Forget, Books, TypeOK
<1> QED BY <1>1, ReadersRest DEF Books, TypeOK

\* The stop handler sets the flag of a reader that goes on with what it does.
LEMMA StopStep == ASSUME ReaderAssumption, Books, Stop \/ StopLogFails PROVE Books'
<1> DEFINE r == threads[QueueId]
           rec == [readers[r] EXCEPT !.stop = TRUE]
<1>1. r \in DOMAIN readers
    BY DEF Stop, StopLogFails, Books, TypeOK
<1>2. With(r, rec) /\ (UNCHANGED faults \/ Fault) /\ joining' \in DOMAIN readers \cup {None}
      /\ UNCHANGED <<queue, threads, table, received, resaved>>
    BY <1>1 DEF Stop, StopLogFails, Books, TypeOK
<1>3. readers[r] \in Reader /\ AtItsPlace(r) /\ readers[r].retry \in Nat
      /\ faults \in Nat /\ MaxFaults \in Nat /\ MaxRetry \in Nat
    BY <1>1, ReaderIsTyped
<1>4. rec \in Reader /\ rec.batch = readers[r].batch /\ rec.pc = readers[r].pc
      /\ rec.retry = readers[r].retry /\ rec.stop = TRUE
    BY <1>3 DEF Reader
<1>5. readers[r].pc # "left"
    BY DEF Stop, StopLogFails, Alive
<1> HIDE DEF r, rec
<1>6. Accounts'
    BY <1>1, <1>2, <1>4, SameBatch DEF Books, TypeOK
<1>7. faults' \in Nat /\ faults <= faults'
    BY <1>2, <1>3 DEF Fault
<1>8. /\ rec.pc \in {"connect", "poll"} => rec.retry < MaxRetry + faults'
      /\ rec.retry <= MaxRetry + faults'
      /\ rec.pc = "check" => rec.batch = {}
    BY <1>3, <1>4, <1>7 DEF AtItsPlace
<1> QED BY <1>1, <1>2, <1>4, <1>5, <1>6, <1>8, Turn DEF Books, TypeOK

\* The steps of the loop that keep the batch and write nothing.
LEMMA QuietStep ==
    ASSUME ReaderAssumption, Books, NEW r \in DOMAIN readers,
           \/ Connect(r) \/ NoContext(r) \/ ConnectFails(r) \/ Leave(r) \/ EmptyPoll(r) \/ SaveFails(r)
           \/ Check(r) \/ CheckLogFails(r) \/ (readers[r].pc # "saved" /\ Die(r))
    PROVE  Books'
<1> DEFINE Next1(rec) == /\ rec \in Reader /\ With(r, rec) /\ rec.batch = readers[r].batch
                         /\ rec.pc # "saved" /\ readers[r].pc # "saved"
                         /\ rec.pc \in {"connect", "poll"} => rec.retry < MaxRetry + faults'
                         /\ rec.retry <= MaxRetry + faults'
                         /\ rec.pc = "check" => rec.batch = {}
                         /\ rec.pc = "left" /\ ~rec.stop => rec.batch = {}
<1>1. /\ readers[r] \in Reader /\ AtItsPlace(r)
      /\ readers[r].retry \in Nat /\ readers[r].quiet \in Nat /\ readers[r].batch \subseteq Receptions
      /\ faults \in Nat /\ MaxFaults \in Nat /\ MaxRetry \in Nat
    BY ReaderIsTyped
<1>2. UNCHANGED <<queue, threads, joining, table, received, resaved>> /\ (UNCHANGED faults \/ Fault)
    BY DEF Connect, NoContext, ConnectFails, Leave, EmptyPoll, SaveFails, Check, CheckLogFails, Die
<1>3. faults' \in Nat /\ faults <= faults'
    BY <1>1, <1>2 DEF Fault
<1>4. \E rec : Next1(rec)
  <2>1. CASE Connect(r)
    <3> DEFINE rec == [readers[r] EXCEPT !.pc = "poll"]
    <3>1. /\ rec \in Reader /\ rec.batch = readers[r].batch /\ rec.pc = "poll"
          /\ rec.retry = readers[r].retry /\ With(r, rec) /\ readers[r].pc = "connect"
        BY <1>1, <2>1 DEF Reader, Connect
    <3> HIDE DEF rec
    <3>2. Next1(rec)
        BY <1>1, <1>3, <3>1 DEF AtItsPlace
    <3> QED BY <3>2
  <2>2. CASE NoContext(r) \/ ConnectFails(r) \/ (readers[r].pc # "saved" /\ Die(r))
    <3> DEFINE rec == [readers[r] EXCEPT !.pc = "died"]
    <3>1. /\ rec \in Reader /\ rec.batch = readers[r].batch /\ rec.pc = "died"
          /\ rec.retry = readers[r].retry
        BY <1>1 DEF Reader
    <3>2. With(r, rec) /\ readers[r].pc # "saved"
      <4>1. CASE NoContext(r) \/ ConnectFails(r)
          BY <4>1 DEF NoContext, ConnectFails
      <4>2. CASE readers[r].pc # "saved" /\ Die(r)
        <5>1. [readers[r] EXCEPT !.pc = "died",
                    !.batch = IF readers[r].pc = "saved" THEN {} ELSE @] = rec
            BY <1>1, <4>2 DEF Reader
        <5> QED BY <4>2, <5>1 DEF Die
      <4> QED BY <2>2, <4>1, <4>2
    <3> HIDE DEF rec
    <3>3. Next1(rec)
        BY <1>1, <1>3, <3>1, <3>2 DEF AtItsPlace
    <3> QED BY <3>3
  <2>3. CASE Leave(r)
    <3> DEFINE rec == [readers[r] EXCEPT !.pc = "left"]
    <3>1. /\ rec \in Reader /\ rec.batch = readers[r].batch /\ rec.pc = "left" /\ rec.stop
          /\ rec.retry = readers[r].retry /\ With(r, rec) /\ readers[r].pc = "poll"
        BY <1>1, <2>3 DEF Reader, Leave
    <3> HIDE DEF rec
    <3>2. Next1(rec)
        BY <1>1, <1>3, <3>1 DEF AtItsPlace
    <3> QED BY <3>2
  <2>4. CASE EmptyPoll(r)
    <3> DEFINE place == IF readers[r].batch = {} THEN "check" ELSE "empty"
               rec == [readers[r] EXCEPT !.pc = place, !.retry = @ + 1, !.quiet = @ + 1]
    <3>1. place \in {"check", "empty"} /\ (place = "check" => readers[r].batch = {})
        OBVIOUS
    <3>2. readers[r].pc = "poll"
        BY <2>4 DEF EmptyPoll
    <3> HIDE DEF place
    <3>3. readers[r].retry + 1 \in Nat /\ readers[r].quiet + 1 \in Nat
        BY <1>1
    <3>4. place \in {"connect", "poll", "empty", "saved", "check", "left", "died"}
        BY <3>1
    <3> DEFINE a == readers[r].retry + 1
               b == readers[r].quiet + 1
    <3> rec = [readers[r] EXCEPT !.pc = place, !.retry = a, !.quiet = b]
        OBVIOUS
    <3> a \in Nat /\ b \in Nat
        BY <3>3
    <3> HIDE DEF rec, a, b
    <3>5. rec \in Reader /\ rec.pc = place /\ rec.retry = a /\ rec.batch = readers[r].batch
        BY <1>1, <3>4 DEF Reader
    <3>6. With(r, rec)
        BY <2>4 DEF EmptyPoll, rec, place
    <3>7. Next1(rec)
        BY <1>1, <1>3, <3>1, <3>2, <3>5, <3>6 DEF AtItsPlace, a
    <3> QED BY <3>7
  <2>5. CASE SaveFails(r) \/ CheckLogFails(r)
    <3> DEFINE rec == [readers[r] EXCEPT !.pc = "poll"]
    <3>1. /\ rec \in Reader /\ rec.batch = readers[r].batch /\ rec.pc = "poll"
          /\ rec.retry = readers[r].retry /\ With(r, rec) /\ readers[r].pc # "saved"
        BY <1>1, <2>5 DEF Reader, SaveFails, CheckLogFails
    <3>2. faults' = faults + 1
        BY <2>5 DEF SaveFails, CheckLogFails, Fault
    <3> HIDE DEF rec
    <3>3. Next1(rec)
        BY <1>1, <3>1, <3>2 DEF AtItsPlace
    <3> QED BY <3>3
  <2>6. CASE Check(r)
    <3> DEFINE place == IF readers[r].retry >= MaxRetry THEN "left" ELSE "poll"
               rec == [readers[r] EXCEPT !.pc = place]
    <3>1. place \in {"left", "poll"} /\ (place = "poll" => readers[r].retry < MaxRetry)
        BY <1>1
    <3>2. With(r, rec) /\ readers[r].pc = "check"
        BY <2>6 DEF Check
    <3> HIDE DEF place
    <3>3. /\ rec \in Reader /\ rec.batch = readers[r].batch /\ rec.pc = place
          /\ rec.retry = readers[r].retry
        BY <1>1, <3>1 DEF Reader
    <3> HIDE DEF rec
    <3>4. Next1(rec)
        BY <1>1, <1>3, <3>1, <3>2, <3>3 DEF AtItsPlace
    <3> QED BY <3>4
  <2> QED BY <2>1, <2>2, <2>3, <2>4, <2>5, <2>6
<1>5. PICK rec : Next1(rec)
    BY <1>4
<1>6. rec.pc = "saved" <=> readers[r].pc = "saved"
    BY <1>5
<1>7. Accounts'
    BY <1>2, <1>5, <1>6, SameBatch DEF Books, TypeOK
<1> QED BY <1>2, <1>5, <1>7, Turn DEF Books, TypeOK

\* A reader gets messages S: their receptions are new, so nobody holds them.
LEMMA PollStep ==
    ASSUME ReaderAssumption, Books, NEW r \in DOMAIN readers, NEW S \in SUBSET Messages,
           readers[r].pc = "poll", \A m \in S : received[m] < MaxCount,
           With(r, [readers[r] EXCEPT !.batch = @ \cup Gets(S)])
               \/ With(r, [readers[r] EXCEPT !.batch = @ \cup Gets(S), !.quiet = 0]),
           queue' = Hidden(S), received' = Counted(S), UNCHANGED faults \/ Fault,
           UNCHANGED <<threads, joining, table, resaved>>
    PROVE  Books'
<1>1. /\ readers[r] \in Reader /\ AtItsPlace(r) /\ readers[r].batch \subseteq Receptions
      /\ readers[r].retry \in Nat /\ faults \in Nat /\ MaxFaults \in Nat /\ MaxRetry \in Nat
    BY ReaderIsTyped
<1>2. received \in [Messages -> 0 .. MaxCount] /\ readers \in Seq(Reader) /\ MaxCount \in Nat
    BY DEF Books, TypeOK, ReaderAssumption
<1>3. Gets(S) \subseteq Receptions
    BY <1>2 DEF Gets, Receptions
<1> DEFINE all == readers[r].batch \cup Gets(S)
<1>4. PICK rec \in Reader : /\ With(r, rec) /\ rec.batch = all /\ rec.pc = "poll"
                            /\ rec.retry = readers[r].retry
  <2>1. all \in SUBSET Receptions
      BY <1>1, <1>3
  <2> DEFINE x == [readers[r] EXCEPT !.batch = all]
             y == [readers[r] EXCEPT !.batch = all, !.quiet = 0]
  <2>2. With(r, x) \/ With(r, y)
      OBVIOUS
  <2> HIDE DEF all
  <2>3. /\ x \in Reader /\ x.batch = all /\ x.pc = "poll" /\ x.retry = readers[r].retry
        /\ y \in Reader /\ y.batch = all /\ y.pc = "poll" /\ y.retry = readers[r].retry
      BY <1>1, <2>1 DEF Reader
  <2> HIDE DEF x, y
  <2> QED BY <2>2, <2>3
<1> HIDE DEF all
<1>5. received' \in [Messages -> 0 .. MaxCount] /\ \A m \in Messages : received[m] <= received'[m]
    BY <1>2 DEF Counted
<1>6. \A x \in Gets(S) : x[2] > received[x[1]] /\ x[2] <= received'[x[1]]
    BY <1>2 DEF Gets, Counted
<1>7. \A x \in Receptions : x[1] \in Messages /\ x[2] \in Nat
    BY <1>2 DEF Receptions
<1>8. \A x \in Receptions : x[2] > received[x[1]] /\ x[2] <= received'[x[1]] => x \in Gets(S)
  <2> SUFFICES ASSUME NEW m \in Messages, NEW n \in 1 .. MaxCount, n > received[m], n <= received'[m]
               PROVE  <<m, n>> \in Gets(S)
      BY DEF Receptions
  <2> QED BY <1>2 DEF Gets, Counted
<1>9. /\ DOMAIN readers' = DOMAIN readers /\ readers'[r] = rec
      /\ \A q \in DOMAIN readers : q # r => readers'[q] = readers[q]
    BY <1>2, <1>4, Replaced
<1>10. \A q \in DOMAIN readers : readers[q].batch \subseteq Receptions /\ HoldsReceived(q) /\ HoldsWritten(q)
    BY ReaderIsTyped DEF Books, Accounts
<1>11. \A q \in DOMAIN readers : readers[q].batch \cap Gets(S) = {}
    BY <1>2, <1>6, <1>7, <1>10 DEF HoldsReceived
<1>12. \A x \in Gets(S) : table[x] = resaved[x] + 0
  <2> SUFFICES ASSUME NEW x \in Gets(S) PROVE table[x] = resaved[x] + 0
      OBVIOUS
  <2>1. x \in Receptions /\ \A q \in DOMAIN readers : x \notin readers[q].batch
      BY <1>3, <1>11
  <2>2. ~(x[2] <= received[x[1]])
    <3>1. received[x[1]] \in Nat /\ x[2] \in Nat /\ x[2] > received[x[1]]
        BY <1>2, <1>6, <1>7, <2>1
    <3> QED BY <3>1
  <2> QED BY <2>1, <2>2 DEF Books, Accounts, RestWritten
<1>13. Accounts'
  <2>1. \A q \in DOMAIN readers' : HoldsReceived(q)'
    <3> SUFFICES ASSUME NEW q \in DOMAIN readers, NEW x \in readers'[q].batch
                 PROVE  x[2] <= received'[x[1]]
        BY <1>9 DEF HoldsReceived
    <3>1. CASE x \in Gets(S)
        BY <1>6, <3>1
    <3>2. CASE x \in readers[q].batch
      <4>1. x[2] <= received[x[1]] /\ x[1] \in Messages /\ x[2] \in Nat
          BY <1>7, <1>10, <3>2 DEF HoldsReceived
      <4> QED BY <1>2, <1>5, <4>1
    <3> QED BY <1>4, <1>9, <3>1, <3>2 DEF all
  <2>2. \A q \in DOMAIN readers' : HoldsWritten(q)'
    <3> SUFFICES ASSUME NEW q \in DOMAIN readers, NEW x \in readers'[q].batch
                 PROVE  table[x] = resaved[x] + (IF readers'[q].pc = "saved" THEN 1 ELSE 0)
        BY <1>9 DEF HoldsWritten
    <3>1. CASE q # r
        BY <1>9, <1>10, <3>1 DEF HoldsWritten
    <3>2. CASE q = r
        BY <1>4, <1>9, <1>10, <1>12, <3>2 DEF all, HoldsWritten
    <3> QED BY <3>1, <3>2
  <2>3. Apart'
    <3>1. Apart
        BY DEF Books, Accounts
    <3> QED BY <1>4, <1>9, <1>11, <3>1 DEF Apart, all
  <2>4. RestWritten'
    <3> SUFFICES ASSUME NEW x \in Receptions, \A q \in DOMAIN readers : x \notin readers'[q].batch
                 PROVE  table[x] = resaved[x] + (IF x[2] <= received'[x[1]] THEN 1 ELSE 0)
        BY <1>9 DEF RestWritten
    <3>1. x \notin Gets(S) /\ \A q \in DOMAIN readers : x \notin readers[q].batch
        BY <1>4, <1>9 DEF all
    <3>2. table[x] = resaved[x] + (IF x[2] <= received[x[1]] THEN 1 ELSE 0)
        BY <3>1 DEF Books, Accounts, RestWritten
    <3>3. x[2] <= received[x[1]] <=> x[2] <= received'[x[1]]
        BY <1>2, <1>5, <1>7, <1>8, <3>1
    <3> QED BY <3>2, <3>3
  <2> QED BY <2>1, <2>2, <2>3, <2>4 DEF Accounts
<1>14. queue' \in [Messages -> {"unsent", "visible", "hidden", "deleted"}]
    BY DEF Hidden, Books, TypeOK
<1>15. faults' \in Nat /\ faults <= faults'
    BY <1>1 DEF Fault
<1>16. rec.retry < MaxRetry + faults' /\ rec.retry <= MaxRetry + faults'
    BY <1>1, <1>4, <1>15 DEF AtItsPlace
<1> QED BY <1>4, <1>5, <1>13, <1>14, <1>16, Turn DEF Books, TypeOK

LEMMA PollFailsStep ==
    ASSUME ReaderAssumption, Books, NEW r \in DOMAIN readers, NEW S \in SUBSET Messages,
           NEW kept \in BOOLEAN, PollFails(r, S, kept)
    PROVE  Books'
<1>1. CASE kept
    BY <1>1, PollStep DEF PollFails
<1>2. CASE ~kept
  <2>1. queue' \in [Messages -> {"unsent", "visible", "hidden", "deleted"}]
      BY DEF PollFails, Hidden, Books, TypeOK
  <2> QED BY <1>2, <2>1, ReadersRest DEF PollFails, Books, TypeOK
<1> QED BY <1>1, <1>2

\* The batch is written: a row more for each reception in it, and the reader
\* no longer counts as their holder.
LEMMA SaveStep ==
    ASSUME ReaderAssumption, Books, NEW r \in DOMAIN readers, Save(r)
    PROVE  Books'
<1> DEFINE rec == [readers[r] EXCEPT !.pc = "saved"]
<1>1. /\ readers[r] \in Reader /\ AtItsPlace(r) /\ readers[r].batch \subseteq Receptions
      /\ readers[r].retry \in Nat /\ readers \in Seq(Reader)
    BY ReaderIsTyped DEF Books, TypeOK
<1>2. /\ rec \in Reader /\ rec.batch = readers[r].batch /\ rec.pc = "saved"
      /\ rec.retry = readers[r].retry /\ With(r, rec) /\ readers[r].pc = "empty"
    BY <1>1 DEF Save, Reader
<1> HIDE DEF rec
<1>3. /\ DOMAIN readers' = DOMAIN readers /\ readers'[r] = rec
      /\ \A q \in DOMAIN readers : q # r => readers'[q] = readers[q]
    BY <1>1, <1>2, Replaced
<1>4. /\ table' \in [Receptions -> Nat] /\ UNCHANGED <<received, resaved>>
      /\ \A x \in readers[r].batch : table'[x] = table[x] + 1
      /\ \A x \in Receptions : x \notin readers[r].batch => table'[x] = table[x]
    BY <1>1 DEF Save, Written, Books, TypeOK
<1>5. Accounts'
  <2>1. \A q \in DOMAIN readers' : HoldsReceived(q)'
      BY <1>2, <1>3, <1>4 DEF Books, Accounts, HoldsReceived
  <2>2. \A q \in DOMAIN readers' : HoldsWritten(q)'
    <3> SUFFICES ASSUME NEW q \in DOMAIN readers, NEW x \in readers'[q].batch
                 PROVE  table'[x] = resaved[x] + (IF readers'[q].pc = "saved" THEN 1 ELSE 0)
        BY <1>3, <1>4 DEF HoldsWritten
    <3>1. x \in readers[q].batch /\ x \in Receptions
        BY <1>2, <1>3, ReaderIsTyped
    <3>2. table[x] = resaved[x] + (IF readers[q].pc = "saved" THEN 1 ELSE 0)
        BY <3>1 DEF Books, Accounts, HoldsWritten
    <3>3. CASE q = r
      <4>1. table[x] = resaved[x] + 0 /\ table'[x] = table[x] + 1
          BY <1>2, <1>4, <3>1, <3>2, <3>3
      <4>2. resaved[x] \in Nat
          BY <3>1 DEF Books, TypeOK
      <4> QED BY <1>2, <1>3, <3>3, <4>1, <4>2
    <3>4. CASE q # r
      <4>1. x \notin readers[r].batch
          BY <3>1, <3>4 DEF Books, Accounts, Apart
      <4> QED BY <1>3, <1>4, <3>1, <3>2, <3>4, <4>1
    <3> QED BY <3>3, <3>4
  <2>3. Apart'
      BY <1>2, <1>3 DEF Books, Accounts, Apart
  <2>4. RestWritten'
    <3> SUFFICES ASSUME NEW x \in Receptions, \A q \in DOMAIN readers : x \notin readers'[q].batch
                 PROVE  table'[x] = resaved[x] + (IF x[2] <= received[x[1]] THEN 1 ELSE 0)
        BY <1>3, <1>4 DEF RestWritten
    <3>1. \A q \in DOMAIN readers : x \notin readers[q].batch
        BY <1>2, <1>3
    <3> QED BY <1>4, <3>1 DEF Books, Accounts, RestWritten
  <2> QED BY <2>1, <2>2, <2>3, <2>4 DEF Accounts
<1>6. UNCHANGED <<queue, threads, joining, faults>>
    BY DEF Save
<1>7. rec.retry <= MaxRetry + faults'
    BY <1>1, <1>2, <1>6 DEF AtItsPlace
<1> QED BY <1>2, <1>4, <1>5, <1>6, <1>7, Turn DEF Books, TypeOK

\* The reader lets go of a batch that is written.
LEMMA EmptiedStep ==
    ASSUME ReaderAssumption, Books, NEW r \in DOMAIN readers,
           Hide(r) \/ (readers[r].pc = "saved" /\ Die(r))
    PROVE  Books'
<1>1. /\ readers[r] \in Reader /\ AtItsPlace(r) /\ readers[r].retry \in Nat /\ readers \in Seq(Reader)
      /\ faults \in Nat /\ MaxFaults \in Nat /\ MaxRetry \in Nat
    BY ReaderIsTyped DEF Books, TypeOK
<1>2. PICK rec \in Reader : /\ With(r, rec) /\ rec.batch = {} /\ rec.pc \in {"check", "died"}
                            /\ rec.retry = readers[r].retry
  <2> DEFINE x == [readers[r] EXCEPT !.pc = "check", !.batch = {}]
             y == [readers[r] EXCEPT !.pc = "died", !.batch = {}]
  <2>1. With(r, x) \/ With(r, y)
    <3>1. CASE Hide(r)
        BY <3>1 DEF Hide
    <3>2. CASE readers[r].pc = "saved" /\ Die(r)
        BY <3>2 DEF Die
    <3> QED BY <3>1, <3>2
  <2>2. /\ x \in Reader /\ x.batch = {} /\ x.pc = "check" /\ x.retry = readers[r].retry
        /\ y \in Reader /\ y.batch = {} /\ y.pc = "died" /\ y.retry = readers[r].retry
      BY <1>1 DEF Reader
  <2> HIDE DEF x, y
  <2> QED BY <2>1, <2>2
<1>3. /\ DOMAIN readers' = DOMAIN readers /\ readers'[r] = rec
      /\ \A q \in DOMAIN readers : q # r => readers'[q] = readers[q]
    BY <1>1, <1>2, Replaced
<1>4. /\ UNCHANGED <<queue, threads, joining, table, received, resaved>>
      /\ UNCHANGED faults \/ Fault
      /\ readers[r].pc = "saved"
    BY DEF Hide, Die
<1>5. Accounts'
  <2>1. \A q \in DOMAIN readers' : HoldsReceived(q)' /\ HoldsWritten(q)'
      BY <1>2, <1>3, <1>4 DEF Books, Accounts, HoldsReceived, HoldsWritten
  <2>2. Apart'
      BY <1>2, <1>3 DEF Books, Accounts, Apart
  <2>3. RestWritten'
    <3> SUFFICES ASSUME NEW x \in Receptions, \A q \in DOMAIN readers : x \notin readers'[q].batch
                 PROVE  table[x] = resaved[x] + (IF x[2] <= received[x[1]] THEN 1 ELSE 0)
        BY <1>3, <1>4 DEF RestWritten
    <3>1. CASE x \in readers[r].batch
      <4>1. table[x] = resaved[x] + 1 /\ x[2] <= received[x[1]]
          BY <1>4, <3>1 DEF Books, Accounts, HoldsReceived, HoldsWritten
      <4> QED BY <4>1
    <3>2. CASE x \notin readers[r].batch
      <4>1. \A q \in DOMAIN readers : x \notin readers[q].batch
          BY <1>3, <3>2
      <4> QED BY <4>1 DEF Books, Accounts, RestWritten
    <3> QED BY <3>1, <3>2
  <2> QED BY <2>1, <2>2, <2>3 DEF Accounts
<1>6. faults' \in Nat /\ faults <= faults'
    BY <1>1, <1>4 DEF Fault
<1>7. rec.retry <= MaxRetry + faults'
    BY <1>1, <1>2, <1>6 DEF AtItsPlace
<1> QED BY <1>2, <1>4, <1>5, <1>7, Turn DEF Books, TypeOK

\* The broker refuses: the reader holds the batch again, whose rows are counted
\* as written once more.
LEMMA HideFailsStep ==
    ASSUME ReaderAssumption, Books, NEW r \in DOMAIN readers, HideFails(r)
    PROVE  Books'
<1> DEFINE rec == [readers[r] EXCEPT !.pc = "poll"]
<1>1. /\ readers[r] \in Reader /\ AtItsPlace(r) /\ readers[r].batch \subseteq Receptions
      /\ readers[r].retry \in Nat /\ readers \in Seq(Reader)
      /\ faults \in Nat /\ MaxRetry \in Nat
    BY ReaderIsTyped DEF Books, TypeOK
<1>2. /\ rec \in Reader /\ rec.batch = readers[r].batch /\ rec.pc = "poll"
      /\ rec.retry = readers[r].retry /\ With(r, rec) /\ readers[r].pc = "saved"
    BY <1>1 DEF HideFails, Reader
<1> HIDE DEF rec
<1>3. /\ DOMAIN readers' = DOMAIN readers /\ readers'[r] = rec
      /\ \A q \in DOMAIN readers : q # r => readers'[q] = readers[q]
    BY <1>1, <1>2, Replaced
<1>4. /\ resaved' \in [Receptions -> Nat] /\ UNCHANGED <<received, table>>
      /\ \A x \in readers[r].batch : resaved'[x] = resaved[x] + 1
      /\ \A x \in Receptions : x \notin readers[r].batch => resaved'[x] = resaved[x]
    BY <1>1 DEF HideFails, Written, Books, TypeOK
<1>5. Accounts'
  <2>1. \A q \in DOMAIN readers' : HoldsReceived(q)'
      BY <1>2, <1>3, <1>4 DEF Books, Accounts, HoldsReceived
  <2>2. \A q \in DOMAIN readers' : HoldsWritten(q)'
    <3> SUFFICES ASSUME NEW q \in DOMAIN readers, NEW x \in readers'[q].batch
                 PROVE  table[x] = resaved'[x] + (IF readers'[q].pc = "saved" THEN 1 ELSE 0)
        BY <1>3, <1>4 DEF HoldsWritten
    <3>1. x \in readers[q].batch /\ x \in Receptions
        BY <1>2, <1>3, ReaderIsTyped
    <3>2. table[x] = resaved[x] + (IF readers[q].pc = "saved" THEN 1 ELSE 0)
        BY <3>1 DEF Books, Accounts, HoldsWritten
    <3>3. CASE q = r
      <4>1. table[x] = resaved[x] + 1 /\ resaved'[x] = resaved[x] + 1
          BY <1>2, <1>4, <3>1, <3>2, <3>3
      <4>2. resaved[x] \in Nat
          BY <3>1 DEF Books, TypeOK
      <4> QED BY <1>2, <1>3, <3>3, <4>1, <4>2
    <3>4. CASE q # r
      <4>1. x \notin readers[r].batch
          BY <3>1, <3>4 DEF Books, Accounts, Apart
      <4> QED BY <1>3, <1>4, <3>1, <3>2, <3>4, <4>1
    <3> QED BY <3>3, <3>4
  <2>3. Apart'
      BY <1>2, <1>3 DEF Books, Accounts, Apart
  <2>4. RestWritten'
    <3> SUFFICES ASSUME NEW x \in Receptions, \A q \in DOMAIN readers : x \notin readers'[q].batch
                 PROVE  table[x] = resaved'[x] + (IF x[2] <= received[x[1]] THEN 1 ELSE 0)
        BY <1>3, <1>4 DEF RestWritten
    <3>1. \A q \in DOMAIN readers : x \notin readers[q].batch
        BY <1>2, <1>3
    <3> QED BY <1>4, <3>1 DEF Books, Accounts, RestWritten
  <2> QED BY <2>1, <2>2, <2>3, <2>4 DEF Accounts
<1>6. UNCHANGED <<queue, threads, joining>> /\ Fault
    BY DEF HideFails
<1>7. rec.retry < MaxRetry + faults' /\ rec.retry <= MaxRetry + faults'
    BY <1>1, <1>2, <1>6 DEF AtItsPlace, Fault
<1> QED BY <1>2, <1>4, <1>5, <1>6, <1>7, Turn DEF Books, TypeOK

-----------------------------------------------------------------------------
(* The theorems.                                                           *)

LEMMA BooksStep == ASSUME ReaderAssumption, Books, [Next]_vars PROVE Books'
<1>1. CASE \E m \in Messages : Publish(m) \/ Fetch(m) \/ AckByUser(m) \/ Reappear(m)
    BY <1>1, QueueStep
<1>2. CASE Start
    BY <1>2, StartStep
<1>3. CASE Stop \/ StopLogFails
    BY <1>3, StopStep
<1>4. CASE Forget
    BY <1>4, ForgetStep
<1>5. ASSUME NEW r \in DOMAIN readers,
             \/ Connect(r) \/ NoContext(r) \/ ConnectFails(r) \/ Leave(r) \/ EmptyPoll(r) \/ SaveFails(r)
             \/ Check(r) \/ CheckLogFails(r) \/ Die(r) \/ Hide(r)
      PROVE  Books'
    BY <1>5, QuietStep, EmptiedStep
<1>6. ASSUME NEW r \in DOMAIN readers, Save(r) \/ HideFails(r)
      PROVE  Books'
    BY <1>6, SaveStep, HideFailsStep
<1>7. ASSUME NEW r \in DOMAIN readers, NEW S \in SUBSET Messages, Poll(r, S)
      PROVE  Books'
    BY <1>7, PollStep DEF Poll
<1>8. ASSUME NEW r \in DOMAIN readers, NEW S \in SUBSET Messages, NEW kept \in BOOLEAN,
             PollFails(r, S, kept)
      PROVE  Books'
    BY <1>8, PollFailsStep
<1>9. CASE UNCHANGED vars
  <2>1. UNCHANGED <<readers, table, received, resaved, faults, queue, threads, joining>>
      BY <1>9 DEF vars
  <2> QED BY <2>1, ReadersRest DEF Books, TypeOK
<1> QED BY <1>1, <1>2, <1>3, <1>4, <1>5, <1>6, <1>7, <1>8, <1>9 DEF Next, Loop

\* A reader that sees no tenant comes to no step of the loop but its end.
LEMMA StrangersStep ==
    ASSUME ReaderAssumption, TypeOK, StrangersTakeNothing, [Next]_vars
    PROVE  StrangersTakeNothing'
<1> SUFFICES ASSUME NEW q \in DOMAIN readers', q \notin WithContext
             PROVE  readers'[q].pc \in {"connect", "died"} /\ readers'[q].batch = {}
    BY DEF StrangersTakeNothing
<1>1. readers \in Seq(Reader) /\ Len(readers) \in Nat
    BY DEF TypeOK
<1>2. q \in DOMAIN readers => /\ readers[q].pc \in {"connect", "died"}
                             /\ readers[q].batch = {} /\ readers[q] \in Reader
    BY <1>1 DEF StrangersTakeNothing
<1>3. CASE UNCHANGED readers
    BY <1>2, <1>3
<1>4. CASE Start
  <2>1. q \in DOMAIN readers \/ readers'[q] = Fresh
      BY <1>1, <1>4 DEF Start
  <2>2. q \in DOMAIN readers => readers'[q] = readers[q]
      BY <1>1, <1>4 DEF Start
  <2> QED BY <1>2, <2>1, <2>2 DEF Fresh
<1>5. CASE Stop \/ StopLogFails
  <2>1. PICK r \in DOMAIN readers : With(r, [readers[r] EXCEPT !.stop = TRUE])
      BY <1>5 DEF Stop, StopLogFails, TypeOK
  <2>2. q \in DOMAIN readers
      BY <2>1 DEF With
  <2>3. readers'[q].pc = readers[q].pc /\ readers'[q].batch = readers[q].batch
      BY <1>2, <2>1, <2>2 DEF With, Reader
  <2> QED BY <1>2, <2>2, <2>3
<1>6. ASSUME NEW r \in DOMAIN readers,
             \/ Loop(r) \/ ConnectFails(r) \/ CheckLogFails(r) \/ SaveFails(r) \/ HideFails(r)
             \/ Die(r) \/ \E S \in SUBSET Messages, kept \in BOOLEAN : PollFails(r, S, kept)
      PROVE  readers'[q].pc \in {"connect", "died"} /\ readers'[q].batch = {}
  <2>1. UNCHANGED readers \/ \E rec : With(r, rec)
      BY <1>6 DEF Loop, Connect, NoContext, Leave, EmptyPoll, Save, Hide, Check, Poll, ConnectFails,
                  CheckLogFails, SaveFails, HideFails, Die, PollFails
  <2>2. q \in DOMAIN readers /\ (q # r => readers'[q] = readers[q])
      BY <2>1 DEF With
  <2>3. CASE q # r
      BY <1>2, <2>2, <2>3
  <2>4. CASE q = r
    <3>1. With(r, [readers[r] EXCEPT !.pc = "died"]) \/ UNCHANGED readers
        BY <1>2, <1>6, <2>2, <2>4
        DEF Loop, Connect, NoContext, Leave, EmptyPoll, Save, Hide, Check, Poll, ConnectFails,
            CheckLogFails, SaveFails, HideFails, Die, PollFails
    <3>2. [readers[r] EXCEPT !.pc = "died"].batch = {} /\ [readers[r] EXCEPT !.pc = "died"].pc = "died"
        BY <1>2, <2>2, <2>4 DEF Reader
    <3> QED BY <1>2, <2>2, <2>4, <3>1, <3>2 DEF With
  <2> QED BY <2>3, <2>4
<1>7. CASE \/ \E m \in Messages : Publish(m) \/ Fetch(m) \/ AckByUser(m) \/ Reappear(m)
           \/ Forget \/ UNCHANGED vars
    BY <1>3, <1>7 DEF Publish, Fetch, AckByUser, Reappear, Forget, vars
<1> QED BY <1>4, <1>5, <1>6, <1>7 DEF Next

LEMMA InitInvariant == ASSUME ReaderAssumption, Init PROVE IInv
BY BooksAtStart DEF IInv, StrangersTakeNothing, Init

LEMMA InvariantStep == ASSUME ReaderAssumption, IInv, [Next]_vars PROVE IInv'
BY BooksStep, StrangersStep DEF IInv, Books

\* What the accounts say about a state.
LEMMA AccountsAreRight ==
    ASSUME ReaderAssumption, IInv
    PROVE  TypeOK /\ ReceptionsAccounted /\ LeavesEmptyHanded /\ StrangersTakeNothing
<1> USE DEF IInv
<1>1. ReceptionsAccounted
  <2> SUFFICES ASSUME NEW m \in Messages, NEW n \in 1 .. received[m]
               PROVE  Accounted(<<m, n>>)
      BY DEF ReceptionsAccounted
  <2> DEFINE x == <<m, n>>
  <2>1. x \in Receptions /\ x[2] <= received[x[1]]
      BY DEF Books, TypeOK, Receptions, ReaderAssumption
  <2> HIDE DEF x
  <2>2. CASE \E r \in DOMAIN readers : x \in readers[r].batch
    <3>1. PICK r \in DOMAIN readers : x \in readers[r].batch
        BY <2>2
    <3>2. \A q \in DOMAIN readers : q # r => x \notin readers[q].batch
        BY <3>1 DEF Books, Accounts, Apart
    <3>3. table[x] = resaved[x] + (IF readers[r].pc = "saved" THEN 1 ELSE 0)
        BY <3>1 DEF Books, Accounts, HoldsWritten
    <3>4. CASE readers[r].pc = "saved"
        BY <3>1, <3>2, <3>3, <3>4 DEF Accounted, Holders, x
    <3>5. CASE readers[r].pc # "saved"
      <4>1. Holders(x) = {r}
          BY <3>1, <3>2, <3>5 DEF Holders
      <4>2. resaved[x] \in Nat
          BY <2>1 DEF Books, TypeOK
      <4> QED BY <3>3, <3>5, <4>1, <4>2 DEF Accounted, x
    <3> QED BY <3>4, <3>5
  <2>3. CASE \A r \in DOMAIN readers : x \notin readers[r].batch
    <3>1. table[x] = resaved[x] + 1
        BY <2>1, <2>3 DEF Books, Accounts, RestWritten
    <3>2. Holders(x) = {}
        BY <2>3 DEF Holders
    <3> QED BY <3>1, <3>2 DEF Accounted, x
  <2> QED BY <2>2, <2>3
<1> QED BY <1>1 DEF Books, AtItsPlace, LeavesEmptyHanded

\* The accounts of the readers hold always: what a reader holds is received and
\* not written, two readers hold nothing in common, and the rest is written.
THEOREM InductiveInvariant == ASSUME ReaderAssumption PROVE Spec => []IInv
<1>1. Init => IInv
    BY InitInvariant
<1>2. IInv /\ [Next]_vars => IInv'
    BY InvariantStep
<1> QED BY <1>1, <1>2, PTL DEF Spec

\* Every reception of a message is in a row of the export table or in the batch
\* of exactly one reader (queue_reader_thread.py), for any number of readers
\* and failures.
THEOREM ReceptionsAreAccounted == ASSUME ReaderAssumption PROVE Spec => []ReceptionsAccounted
<1>1. IInv => ReceptionsAccounted
    BY AccountsAreRight
<1> QED BY <1>1, InductiveInvariant, PTL

\* A reader that gives up by itself has written all it had received.
THEOREM LeavesNothingBehind == ASSUME ReaderAssumption PROVE Spec => []LeavesEmptyHanded
<1>1. IInv => LeavesEmptyHanded
    BY AccountsAreRight
<1> QED BY <1>1, InductiveInvariant, PTL

\* A reader without a tenant, as every one on Python 3.13, takes no message and
\* writes no row, whatever else runs on the queue.
THEOREM StrangersLeaveTheQueue == ASSUME ReaderAssumption PROVE Spec => []StrangersTakeNothing
<1>1. IInv => StrangersTakeNothing
    BY DEF IInv
<1> QED BY <1>1, InductiveInvariant, PTL

\* The counters and the dictionary of readers keep their bounds.
THEOREM TypeCorrect == ASSUME ReaderAssumption PROVE Spec => []TypeOK
<1>1. IInv => TypeOK
    BY AccountsAreRight
<1> QED BY <1>1, InductiveInvariant, PTL
=============================================================================
