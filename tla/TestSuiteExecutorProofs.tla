---------------------- MODULE TestSuiteExecutorProofs ----------------------
(***************************************************************************)
(* What a run of a test suite guarantees for any number of tests and of    *)
(* commands, any hooks and any failures.                                   *)
(***************************************************************************)
EXTENDS TestSuiteExecutor, FiniteSetTheorems, TLAPS

\* What _execute does with an item's row once the item is over.
ItemClosed(p) ==
    \/ rows[p].status = "success" /\ rows[p].error = "none"
    \/ rows[p].status = "error" /\ rows[p].error \in Exceptions

\* The item in execution is the last row; the others are over.
Executing(p) == running /\ p = Len(rows)

(* Where the run is: what the stage says of the other variables.           *)
Place ==
    /\ outcome = "committed" => stage = "commit"
    /\ stage = "begin" => rows = <<>> /\ events = <<>>
    /\ stage # "begin" => tests = ResolveTests(suite) /\ suite.target <= Len(suite.onFailure)
    /\ stage \in {"begin", "before_all"} =>
          index = 0 /\ Len(rows) = IF running THEN 1 ELSE 0
    /\ stage \in PerTest => index # 0
    /\ ~running => raised = "none"
    /\ running => /\ HasItem(stage)
                  /\ Len(rows) # 0
                  /\ rows[Len(rows)] =
                       [stage |-> stage, status |-> "running", error |-> "none",
                        test |-> IF stage \in PerTest THEN tests[index] ELSE 0]
    /\ \A p \in DOMAIN rows : Executing(p) \/ ItemClosed(p)

(* any_error and first_error_message are kept up to date after every item. *)
VerdictSoFar ==
    /\ anyError <=> \E p \in DOMAIN rows : rows[p].status = "error"
    /\ \A p \in DOMAIN rows : rows[p].error = "text" => firstError # 0 /\ firstError <= p
    /\ firstError # 0 => firstError \in DOMAIN rows /\ rows[firstError].error = "text"
    /\ stage \in {"log", "commit"} =>
          execution = [status |-> IF anyError THEN "error" ELSE "success", error |-> firstError]

(* A command row is left running only by the item in execution, or by one  *)
(* that failed for it.                                                     *)
OpenCommands ==
    \A c \in DOMAIN commandRows : commandRows[c].status = "running" =>
        /\ Executing(commandRows[c].item) \/ rows[commandRows[c].item].status = "error"
        /\ \A d \in DOMAIN commandRows :
              commandRows[d].item = commandRows[c].item => d <= c

\* Row p is the item st of the test whose turn it is.
IsCurrent(p, st) == p # 0 /\ rows[p].stage = st /\ rows[p].test = tests[index]

(* The neighbours of a test's row, and of the row that comes next.         *)
HooksSoFar ==
    /\ \A p \in DOMAIN rows : rows[p].stage = "test" =>
          /\ "before_each" \in suite.hooks =>
                /\ p > 1
                /\ rows[p - 1].stage = "before_each" /\ rows[p - 1].test = rows[p].test
          /\ "after_each" \in suite.hooks /\ p < Len(rows) =>
                rows[p + 1].stage = "after_each" /\ rows[p + 1].test = rows[p].test
    /\ stage = "test" /\ ~running /\ "before_each" \in suite.hooks =>
          IsCurrent(Len(rows), "before_each")
    /\ ~running /\ Len(rows) # 0 /\ rows[Len(rows)].stage = "test"
         /\ "after_each" \in suite.hooks =>
          stage = "after_each" /\ IsCurrent(Len(rows), "test")
    /\ stage \in {"finish", "log", "commit"} /\ "after_all" \in suite.hooks =>
          Len(rows) # 0 /\ rows[Len(rows)].stage = "after_all"

\* Tests whose own row has been inserted, and tests counted by executed_tests.
TestsBegun == IF stage = "before_each" \/ (stage = "test" /\ ~running) THEN index - 1 ELSE index
TestsReported == IF stage \in {"before_each", "test"} THEN index - 1 ELSE index

\* Some item of test t has failed.
TestFailed(t) == \E p \in DOMAIN rows :
                    rows[p].status = "error" /\ rows[p].stage \in PerTest /\ rows[p].test = t

(* The rows of the tests are those of the first TestsBegun tests, in order;  *)
(* the loop went on after each of the turns that are over.                   *)
TestsSoFar ==
    /\ Cardinality(RowsOf("test")) = TestsBegun
    /\ \A p \in RowsOf("test") : \E i \in 1..TestsBegun : rows[p].test = tests[i]
    /\ \A i \in 1..TestsBegun : \E p \in RowsOf("test") : rows[p].test = tests[i]
    /\ \A p, q \in RowsOf("test") : p < q => rows[p].test < rows[q].test
    /\ \A p \in DOMAIN rows : rows[p].stage \in PerTest =>
          \E i \in 1..index : rows[p].test = tests[i]
    /\ stage \in PerTest => (testFailed <=> TestFailed(tests[index]))
    /\ \A i \in 1..index : i < index =>
          ~(TestFailed(tests[i]) /\ suite.onFailure[tests[i]] = "ABORT")
    /\ stage \in {"after_all", "finish", "log", "commit"} /\ index < Len(tests) =>
          IF index = 0 THEN \E p \in RowsOf("before_all") : rows[p].status = "error"
                       ELSE TestFailed(tests[index]) /\ suite.onFailure[tests[index]] = "ABORT"

(* The events published so far tell the rows that are over, the tests      *)
(* counted so far and, after Finish, the verdict.                          *)
ItemEvents ==
    /\ \A k \in EventsNamed("item_finished") :
          /\ events[k].position \in DOMAIN rows /\ ~Executing(events[k].position)
          /\ events[k].status = rows[events[k].position].status
    /\ \A p \in DOMAIN rows : ~Executing(p) =>
          \E k \in EventsNamed("item_finished") : events[k].position = p
    /\ \A k, l \in EventsNamed("item_finished") : k < l => events[k].position < events[l].position

ProgressEvents ==
    /\ \A k \in EventsNamed("suite_progress") : events[k].executed \in 0..TestsReported
    /\ stage # "begin" => \A n \in 0..TestsReported :
          \E k \in EventsNamed("suite_progress") : events[k].executed = n
    /\ \A k, l \in EventsNamed("suite_progress") : k < l => events[k].executed < events[l].executed

FinishedEvents ==
    IF stage \in {"log", "commit"}
      THEN \E k \in DOMAIN events : /\ EventsNamed("suite_finished") = {k}
                                    /\ events[k].status = execution.status
      ELSE EventsNamed("suite_finished") = {}

(* The local constants in force were written by the test whose turn it is, *)
(* or by the hook in execution.                                            *)
LocalsSoFar ==
    /\ \A p \in local : p \in DOMAIN rows
    /\ stage \in PerTest => \A p \in local : rows[p].test = tests[index]
    /\ stage \in Hooks \ PerTest => \A p \in local : Executing(p)
    /\ stage = "begin" => local = {}

IInv ==
    /\ TypeOK /\ Place /\ VerdictSoFar /\ OpenCommands /\ HooksSoFar /\ TestsSoFar
    /\ ItemEvents /\ ProgressEvents /\ FinishedEvents /\ LocalsSoFar

-----------------------------------------------------------------------------
(* Suites, rows and events.                                                *)

RowType == [stage : Stages, status : Statuses, error : Exceptions \cup {"none"},
            test : 0..MaxTests]

\* Appending adds one element and keeps the others.
LEMMA AppendFacts ==
    ASSUME NEW S, NEW q \in Seq(S), NEW x \in S
    PROVE  /\ Append(q, x) \in Seq(S)
           /\ Len(q) \in Nat /\ Len(Append(q, x)) = Len(q) + 1
           /\ DOMAIN q = 1..Len(q) /\ DOMAIN Append(q, x) = 1..(Len(q) + 1)
           /\ \A i \in DOMAIN q : Append(q, x)[i] = q[i]
           /\ Append(q, x)[Len(q) + 1] = x
  OBVIOUS

\* The elements of a sequence.
LEMMA ElementFacts ==
    ASSUME NEW S, NEW q \in Seq(S)
    PROVE  Len(q) \in Nat /\ DOMAIN q = 1..Len(q) /\ \A i \in 1..Len(q) : q[i] \in S
  OBVIOUS

\* What a suite and a request consist of.
LEMMA SuiteFields ==
    ASSUME NEW s \in Suites
    PROVE  /\ s.hooks \subseteq Hooks
           /\ s.onFailure \in Seq({"ABORT", "CONTINUE"})
           /\ Len(s.onFailure) \in 0..MaxTests
           /\ s.target \in 0..(Len(s.onFailure) + 1)
  <1>1. PICK n \in 0..MaxTests :
          s \in [hooks : HookSets, onFailure : [1..n -> {"ABORT", "CONTINUE"}],
                 target : 0..(n + 1)]
    BY DEF Suites
  <1>2. n \in Nat
    BY ExecutorAssumption
  <1>3. /\ s.hooks \in HookSets /\ s.target \in 0..(n + 1)
        /\ s.onFailure \in [1..n -> {"ABORT", "CONTINUE"}]
    BY <1>1
  <1>4. s.onFailure \in Seq({"ABORT", "CONTINUE"}) /\ Len(s.onFailure) = n
    BY <1>2, <1>3
  <1> QED
    BY <1>3, <1>4, ExecutorAssumption

\* The tests to execute are places of the suite, in increasing order.
LEMMA ResolvedTests ==
    ASSUME NEW s \in Suites, s.target <= Len(s.onFailure)
    PROVE  /\ ResolveTests(s) \in Seq(1..MaxTests)
           /\ Len(ResolveTests(s)) \in 0..MaxTests
           /\ \A i, j \in 1..Len(ResolveTests(s)) :
                 i < j => ResolveTests(s)[i] < ResolveTests(s)[j]
           /\ \A i \in 1..Len(ResolveTests(s)) : ResolveTests(s)[i] \in 1..Len(s.onFailure)
  <1> DEFINE n == Len(s.onFailure)
  <1>1. n \in 0..MaxTests /\ s.target \in 0..(n + 1) /\ MaxTests \in Nat
    BY SuiteFields, ExecutorAssumption
  <1>2. CASE s.target = 0
    <2>1. ResolveTests(s) = [i \in 1..n |-> i]
      BY <1>2 DEF ResolveTests
    <2>2. [i \in 1..n |-> i] \in [1..n -> 1..MaxTests]
      BY <1>1
    <2>3. ResolveTests(s) \in Seq(1..MaxTests) /\ Len(ResolveTests(s)) = n
      BY <1>1, <2>1, <2>2
    <2> QED
      BY <1>1, <2>1, <2>3
  <1>3. CASE s.target # 0
    <2>1. ResolveTests(s) = <<s.target>> /\ s.target \in 1..MaxTests
      BY <1>1, <1>3 DEF ResolveTests
    <2> QED
      BY <1>1, <1>3, <2>1
  <1> QED
    BY <1>2, <1>3

\* The hooks of a suite are stages, and no stage but a hook or the test has an item.
LEMMA ItemStages ==
    ASSUME suite \in Suites, NEW st \in Stages, HasItem(st)
    PROVE  st \in Hooks \cup {"test"}
  BY SuiteFields DEF HasItem

-----------------------------------------------------------------------------
(* What the steps do.                                                      *)

\* The ways from a stage to the next.
FollowEffect(st, failed, error) ==
    \/ /\ st = "before_all" /\ ~error /\ tests # <<>>
       /\ stage' = "before_each" /\ index' = 1 /\ testFailed' = FALSE /\ local' = {}
    \/ /\ st = "before_all" /\ (error \/ tests = <<>>)
       /\ stage' = "after_all" /\ local' = {} /\ UNCHANGED <<index, testFailed>>
    \/ /\ st = "before_each" /\ stage' = "test"
       /\ testFailed' = (testFailed \/ failed) /\ UNCHANGED <<index, local>>
    \/ /\ st = "test" /\ stage' = "after_each"
       /\ testFailed' = (testFailed \/ failed) /\ UNCHANGED <<index, local>>
    \/ /\ st = "after_each" /\ index # Len(tests)
       /\ ~((testFailed \/ failed) /\ suite.onFailure[tests[index]] = "ABORT")
       /\ stage' = "before_each" /\ index' = index + 1
       /\ testFailed' = FALSE /\ local' = {}
    \/ /\ st = "after_each"
       /\ \/ index = Len(tests)
          \/ (testFailed \/ failed) /\ suite.onFailure[tests[index]] = "ABORT"
       /\ stage' = "after_all" /\ local' = {} /\ UNCHANGED <<index, testFailed>>
    \/ /\ st = "after_all" /\ stage' = "finish"
       /\ UNCHANGED <<index, testFailed, local>>

LEMMA FollowCases ==
    ASSUME NEW st \in Hooks \cup {"test"}, NEW failed, NEW error, Follow(st, failed, error)
    PROVE  FollowEffect(st, failed, error)
  <1> USE DEF FollowEffect
  <1>1. CASE st = "before_all"
    BY <1>1 DEF Follow, EnterTest, EnterAfterAll
  <1>2. CASE st = "before_each"
    BY <1>2 DEF Follow, NextInTest
  <1>3. CASE st = "test"
    BY <1>3 DEF Follow, NextInTest
  <1>4. CASE st = "after_each"
    BY <1>4 DEF Follow, EnterTest, EnterAfterAll, GivesUp
  <1>5. CASE st = "after_all"
    BY <1>5 DEF Follow
  <1> QED
    BY <1>1, <1>2, <1>3, <1>4, <1>5 DEF Hooks

\* In the turn of a test there is a test.
LEMMA CurrentTest ==
    ASSUME TypeOK, Place
    PROVE  /\ Len(tests) \in Nat /\ index \in 0..Len(tests)
           /\ stage \in PerTest => index \in 1..Len(tests)
           /\ stage \in PerTest => tests[index] \in 1..MaxTests
  <1>1. tests \in Seq(1..MaxTests) /\ index \in 0..Len(tests)
    BY DEF TypeOK
  <1>2. Len(tests) \in Nat
    BY <1>1
  <1>3. stage \in PerTest => index # 0
    BY DEF Place
  <1>4. \A i \in 1..Len(tests) : tests[i] \in 1..MaxTests
    BY <1>1, ElementFacts
  <1> QED
    BY <1>1, <1>2, <1>3, <1>4

\* A new item: one row and one event more.
LEMMA StartItemView ==
    ASSUME TypeOK, Place, StartItem
    PROVE  /\ HasItem(stage) /\ ~running /\ outcome = "open"
           /\ rows' \in Seq(RowType) /\ Len(rows) \in Nat /\ Len(rows') = Len(rows) + 1
           /\ DOMAIN rows = 1..Len(rows) /\ DOMAIN rows' = 1..(Len(rows) + 1)
           /\ \A p \in DOMAIN rows : rows'[p] = rows[p]
           /\ rows'[Len(rows) + 1] =
                [stage |-> stage, status |-> "running", error |-> "none",
                 test |-> IF stage \in PerTest THEN tests[index] ELSE 0]
           /\ events' \in Seq(Event) /\ Len(events) \in Nat /\ Len(events') = Len(events) + 1
           /\ DOMAIN events = 1..Len(events) /\ DOMAIN events' = 1..(Len(events) + 1)
           /\ \A k \in DOMAIN events : events'[k] = events[k]
           /\ events'[Len(events) + 1].name = "item_started"
           /\ running' = TRUE /\ raised' = "none" /\ commands' = 0
           /\ UNCHANGED <<suite, progressVars, local, execution, commandRows, outcome>>
  <1> DEFINE row == [stage |-> stage, status |-> "running", error |-> "none",
                     test |-> IF stage \in PerTest THEN tests[index] ELSE 0]
             e == [name |-> "item_started", position |-> Len(rows) + 1]
  <1>1. stage \in PerTest => tests[index] \in 1..MaxTests
    BY CurrentTest
  <1>2. row \in RowType
    BY <1>1, ExecutorAssumption DEF RowType, TypeOK, Statuses
  <1>3. rows \in Seq(RowType) /\ events \in Seq(Event) /\ Len(rows) \in Nat
    BY DEF TypeOK, RowType
  <1>4. e \in Event
    BY <1>3 DEF Event
  <1>5. /\ rows' = Append(rows, row) /\ events' = Append(events, e)
        /\ outcome = "open" /\ ~running /\ HasItem(stage)
        /\ running' = TRUE /\ raised' = "none" /\ commands' = 0
        /\ UNCHANGED <<suite, progressVars, local, execution, commandRows, outcome>>
    BY DEF StartItem, Publish, Position
  <1> HIDE DEF row, e
  <1>6. /\ rows' \in Seq(RowType) /\ Len(rows') = Len(rows) + 1
        /\ DOMAIN rows = 1..Len(rows) /\ DOMAIN rows' = 1..(Len(rows) + 1)
        /\ \A p \in DOMAIN rows : rows'[p] = rows[p]
        /\ rows'[Len(rows) + 1] = row
    BY <1>2, <1>3, <1>5, AppendFacts
  <1>7. /\ events' \in Seq(Event) /\ Len(events) \in Nat /\ Len(events') = Len(events) + 1
        /\ DOMAIN events = 1..Len(events) /\ DOMAIN events' = 1..(Len(events) + 1)
        /\ \A k \in DOMAIN events : events'[k] = events[k]
        /\ events'[Len(events) + 1] = e
    BY <1>3, <1>4, <1>5, AppendFacts
  <1> QED
    BY <1>3, <1>5, <1>6, <1>7 DEF row, e

\* The item in execution ends with this result.
ItemOver(status, exc) ==
    /\ outcome = "open" /\ running
    /\ \/ status = "success" /\ exc = "none" /\ ~CommandOpen
       \/ status = "error" /\ exc \in Exceptions
    /\ ItemDone(status, exc)

\* The end of an item: its row is closed and one event tells it, followed by
\* the progress if the item is the test itself.
LEMMA ItemOverView ==
    ASSUME TypeOK, Place, NEW status, NEW exc, ItemOver(status, exc)
    PROVE  /\ status \in {"success", "error"} /\ exc \in Exceptions \cup {"none"}
           /\ stage \in Hooks \cup {"test"}
           /\ rows' \in Seq(RowType) /\ Len(rows) \in Nat \ {0} /\ Len(rows') = Len(rows)
           /\ DOMAIN rows = 1..Len(rows) /\ DOMAIN rows' = 1..Len(rows)
           /\ \A p \in DOMAIN rows : p # Len(rows) => rows'[p] = rows[p]
           /\ rows[Len(rows)].stage = stage
           /\ rows'[Len(rows)] = [stage |-> stage, status |-> status, error |-> exc,
                                  test |-> IF stage \in PerTest THEN tests[index] ELSE 0]
           /\ rows'[Len(rows)].test = rows[Len(rows)].test
           /\ rows'[Len(rows)].status = status /\ rows'[Len(rows)].error = exc
           /\ rows'[Len(rows)].stage = stage /\ Len(rows) \in DOMAIN rows
           /\ Follow(stage, status = "error", anyError \/ status = "error")
           /\ running' = FALSE /\ raised' = "none"
           /\ anyError' = (anyError \/ status = "error")
           /\ firstError' = IF firstError = 0 /\ exc = "text" THEN Len(rows) ELSE firstError
           /\ UNCHANGED <<suite, tests, commands, execution, commandRows, outcome>>
  <1>1. rows \in Seq(RowType) /\ Len(rows) \in Nat \ {0} /\ DOMAIN rows = 1..Len(rows)
    BY DEF TypeOK, RowType, Place, ItemOver
  <1>2. /\ rows[Len(rows)] = [stage |-> stage, status |-> "running", error |-> "none",
                             test |-> IF stage \in PerTest THEN tests[index] ELSE 0]
        /\ HasItem(stage)
    BY DEF Place, ItemOver
  <1>3. /\ status \in {"success", "error"} /\ exc \in Exceptions \cup {"none"}
        /\ stage \in Hooks \cup {"test"}
    BY <1>2, ItemStages DEF ItemOver, TypeOK
  <1> DEFINE L == Len(rows)
             r(st, x) == [stage |-> stage, status |-> st, error |-> x,
                          test |-> IF stage \in PerTest THEN tests[index] ELSE 0]
             closed == [rows EXCEPT ![L].status = status]
  <1>4. rows' = [closed EXCEPT ![L].error = exc]
    BY DEF ItemOver, ItemDone, CloseItem, Position
  <1>4a. /\ DOMAIN closed = 1..L
        /\ \A p \in DOMAIN rows : p # L => closed[p] = rows[p]
    BY <1>1
  <1>4b. closed[L] = [r("running", "none") EXCEPT !.status = status]
    BY <1>1, <1>2
  <1>4c. closed[L] = r(status, "none")
    BY <1>4b
  <1>4d. rows' = [closed EXCEPT ![L] = [closed[L] EXCEPT !.error = exc]]
    BY <1>4
  <1>4e. [closed[L] EXCEPT !.error = exc] = r(status, exc)
    BY <1>4c
  <1> HIDE DEF closed, r
  <1>4f. rows' = [closed EXCEPT ![L] = r(status, exc)]
    BY <1>4d, <1>4e
  <1>5. /\ DOMAIN rows' = 1..L
        /\ \A p \in DOMAIN rows : p # L => rows'[p] = rows[p]
        /\ rows'[L] = r(status, exc)
    BY <1>1, <1>4a, <1>4f
  <1>7. rows'[L] = [stage |-> stage, status |-> status, error |-> exc,
                    test |-> IF stage \in PerTest THEN tests[index] ELSE 0]
    BY <1>5 DEF r
  <1>8. stage \in PerTest => tests[index] \in 1..MaxTests
    BY CurrentTest
  <1>9. rows'[Len(rows)] \in RowType
    BY <1>3, <1>7, <1>8, ExecutorAssumption DEF RowType, TypeOK, Statuses
  <1>10. rows' \in [1..Len(rows) -> RowType]
    <2>1. ASSUME NEW p \in 1..Len(rows)
          PROVE  rows'[p] \in RowType
      BY <2>1, <1>1, <1>5, <1>9
    <2>2. rows' = [p \in 1..Len(rows) |-> rows'[p]]
      BY <1>4a, <1>4f
    <2> QED
      BY <2>1, <2>2
  <1>11. rows' \in Seq(RowType) /\ Len(rows') = Len(rows)
    BY <1>1, <1>10
  <1>12. /\ Follow(stage, status = "error", anyError \/ status = "error")
         /\ running' = FALSE /\ raised' = "none"
         /\ anyError' = (anyError \/ status = "error")
         /\ firstError' = IF firstError = 0 /\ exc = "text" THEN Len(rows) ELSE firstError
         /\ UNCHANGED <<suite, tests, commands, execution, commandRows, outcome>>
    BY DEF ItemOver, ItemDone, FirstMessage, Position
  <1> QED
    BY <1>1, <1>2, <1>3, <1>5, <1>7, <1>11, <1>12

\* The events of a step come after the events published so far.
AddsEvents(names) ==
    /\ DOMAIN events \subseteq DOMAIN events'
    /\ \A k \in DOMAIN events : events'[k] = events[k]
    /\ \A k \in DOMAIN events' \ DOMAIN events : events'[k].name \in names

LEMMA OtherNamesUnchanged ==
    ASSUME NEW names, AddsEvents(names), NEW n, n \notin names
    PROVE  EventsNamed(n)' = EventsNamed(n)
  BY DEF AddsEvents, EventsNamed

LEMMA AddOneEvent ==
    ASSUME events \in Seq(Event), NEW e \in Event, events' = Append(events, e)
    PROVE  /\ events' \in Seq(Event) /\ AddsEvents({e.name})
           /\ Len(events) \in Nat /\ DOMAIN events = 1..Len(events)
           /\ DOMAIN events' = 1..(Len(events) + 1) /\ events'[Len(events) + 1] = e
  <1>1. /\ events' \in Seq(Event) /\ Len(events) \in Nat
        /\ DOMAIN events = 1..Len(events) /\ DOMAIN events' = 1..(Len(events) + 1)
        /\ \A k \in DOMAIN events : events'[k] = events[k]
        /\ events'[Len(events) + 1] = e
    BY AppendFacts
  <1>2. \A k \in DOMAIN events' \ DOMAIN events : k = Len(events) + 1
    BY <1>1
  <1> QED
    BY <1>1, <1>2 DEF AddsEvents

LEMMA AddNoEvent ==
    ASSUME events' = events, NEW names
    PROVE  AddsEvents(names)
  BY DEF AddsEvents

\* The events of the end of an item.
LEMMA ItemOverEvents ==
    ASSUME TypeOK, Place, NEW status, NEW exc, ItemOver(status, exc)
    PROVE  LET n == Len(events)
           IN  /\ n \in Nat /\ DOMAIN events = 1..n
               /\ events' \in Seq(Event)
               /\ AddsEvents({"item_finished", "suite_progress"})
               /\ DOMAIN events' = 1..(IF stage = "test" THEN n + 2 ELSE n + 1)
               /\ events'[n + 1] = [name |-> "item_finished", position |-> Len(rows),
                                    status |-> status]
               /\ events'[n + 1].name = "item_finished"
               /\ events'[n + 1].position = Len(rows) /\ events'[n + 1].status = status
               /\ stage = "test" =>
                     events'[n + 2].name = "suite_progress" /\ events'[n + 2].executed = index
  <1> DEFINE n == Len(events)
             e == [name |-> "item_finished", position |-> Len(rows), status |-> status]
             g == [name |-> "suite_progress", executed |-> index]
  <1>1. Len(rows) \in Nat /\ status \in Statuses
    BY ItemOverView DEF Statuses
  <1>2. e \in Event
    BY <1>1 DEF Event
  <1>3. events \in Seq(Event) /\ n \in Nat /\ DOMAIN events = 1..n
    BY DEF TypeOK
  <1>4. events' = (events \o <<e>>) \o Progress
    BY DEF ItemOver, ItemDone, Position
  <1>5. /\ Append(events, e) \in Seq(Event) /\ events \o <<e>> = Append(events, e)
        /\ Len(Append(events, e)) = n + 1
        /\ DOMAIN Append(events, e) = 1..(n + 1)
        /\ \A k \in DOMAIN events : Append(events, e)[k] = events[k]
        /\ Append(events, e)[n + 1] = e
    <2>1. events \o <<e>> = Append(events, e)
      BY <1>2, <1>3
    <2> QED
      BY <2>1, <1>2, <1>3, AppendFacts
  <1>6. CASE stage # "test"
    <2>1. events' = Append(events, e)
      BY <1>4, <1>5, <1>6 DEF Progress
    <2>2. AddsEvents({"item_finished"})
      BY <2>1, <1>2, <1>3, AddOneEvent
    <2> QED
      BY <2>1, <2>2, <1>3, <1>5, <1>6 DEF AddsEvents
  <1>7. CASE stage = "test"
    <2>1. g \in Event
      <3>1. index \in 1..Len(tests) /\ Len(tests) \in 0..MaxTests
        <4>1. stage # "begin" /\ stage \in PerTest
          BY <1>7 DEF PerTest
        <4>2. tests = ResolveTests(suite) /\ suite.target <= Len(suite.onFailure)
          BY <4>1 DEF Place
        <4> QED
          BY <4>1, <4>2, CurrentTest, ResolvedTests DEF TypeOK
      <3> QED
        BY <3>1, ExecutorAssumption DEF Event
    <2>2. events' = Append(events, e) \o <<g>>
      BY <1>4, <1>5, <1>7 DEF Progress
    <2>3. events' = Append(Append(events, e), g)
      BY <2>1, <2>2, <1>5
    <2> DEFINE ev == Append(events, e)
    <2> HIDE DEF ev, e, g
    <2>4. /\ events' \in Seq(Event) /\ Len(events') = n + 2
          /\ DOMAIN events' = 1..(n + 2)
          /\ \A k \in DOMAIN ev : events'[k] = ev[k]
          /\ events'[n + 2] = g
      <3>1. ev \in Seq(Event) /\ events' = Append(ev, g) /\ Len(ev) = n + 1
        BY <2>3, <1>5 DEF ev
      <3>2. /\ events' \in Seq(Event) /\ Len(events') = (n + 1) + 1
            /\ DOMAIN events' = 1..((n + 1) + 1)
            /\ \A k \in DOMAIN ev : events'[k] = ev[k]
            /\ events'[(n + 1) + 1] = g
        BY <3>1, <2>1, AppendFacts
      <3> QED
        BY <3>2, <1>3
    <2>5. \A k \in 1..n : events'[k] = events[k]
      BY <2>4, <1>3, <1>5 DEF ev
    <2>6. events'[n + 1] = e
      BY <2>4, <1>3, <1>5 DEF ev
    <2>7. AddsEvents({"item_finished", "suite_progress"})
      <3>1. \A k \in DOMAIN events' \ DOMAIN events : k = n + 1 \/ k = n + 2
        BY <2>4, <1>3
      <3>2. e.name = "item_finished" /\ g.name = "suite_progress"
        BY DEF e, g
      <3> QED
        BY <3>1, <3>2, <2>4, <2>5, <2>6, <1>3 DEF AddsEvents
    <2> QED
      BY <2>4, <2>5, <2>6, <2>7, <1>3, <1>7 DEF e, g
  <1> QED
    BY <1>6, <1>7

CommandStep ==
    \/ StartCommand
    \/ \E w \in BOOLEAN : CommandSucceeds(w)
    \/ \E x \in Exceptions : CommandFails(x)
    \/ \E x \in Exceptions : ConversionFails(x)
    \/ \E x \in Exceptions : StartLogFails(x)

CommandRowType == [item : 1..Len(rows), status : Statuses]

\* What a step of a command may do to the command rows.
OpensCommand ==
    /\ ~CommandOpen
    /\ DOMAIN commandRows' = 1..(Len(commandRows) + 1)
    /\ \A c \in DOMAIN commandRows : commandRows'[c] = commandRows[c]
    /\ commandRows'[Len(commandRows) + 1].item = Len(rows)

KeepsCommands ==
    /\ DOMAIN commandRows' = DOMAIN commandRows
    /\ \A c \in DOMAIN commandRows :
          /\ commandRows'[c].item = commandRows[c].item
          /\ commandRows'[c].status = "running" => commandRows[c].status = "running"

\* A command row is closed by the step that publishes it.
LEMMA CloseCommandView ==
    ASSUME TypeOK, CommandOpen, NEW st \in Statuses \ {"running"}, CloseCommand(st)
    PROVE  /\ commandRows' \in Seq(CommandRowType) /\ KeepsCommands
           /\ events' \in Seq(Event) /\ AddsEvents({"command_finished"})
  <1> DEFINE n == Len(commandRows)
  <1>1. /\ commandRows \in Seq(CommandRowType) /\ events \in Seq(Event)
        /\ rows \in Seq(RowType)
    BY DEF TypeOK, CommandRowType, RowType
  <1>2. n \in Nat \ {0} /\ DOMAIN commandRows = 1..n /\ Len(rows) \in Nat
    BY <1>1 DEF CommandOpen
  <1>3. \A c \in 1..n : commandRows[c] \in CommandRowType
    BY <1>1, ElementFacts
  <1>4. commandRows' = [commandRows EXCEPT ![n] = [commandRows[n] EXCEPT !.status = st]]
    BY DEF CloseCommand
  <1>5. /\ [commandRows[n] EXCEPT !.status = st] \in CommandRowType
        /\ [commandRows[n] EXCEPT !.status = st].item = commandRows[n].item
        /\ [commandRows[n] EXCEPT !.status = st].status = st
    BY <1>2, <1>3 DEF CommandRowType
  <1>6. /\ DOMAIN commandRows' = 1..n
        /\ \A c \in 1..n : c # n => commandRows'[c] = commandRows[c]
        /\ commandRows'[n] = [commandRows[n] EXCEPT !.status = st]
    BY <1>2, <1>4
  <1>7. commandRows' \in Seq(CommandRowType)
    <2>1. commandRows' = [c \in 1..n |-> commandRows'[c]]
      BY <1>2, <1>4
    <2>2. \A c \in 1..n : commandRows'[c] \in CommandRowType
      BY <1>2, <1>3, <1>5, <1>6
    <2> QED
      BY <2>1, <2>2, <1>2
  <1>8. KeepsCommands
    BY <1>2, <1>5, <1>6 DEF KeepsCommands
  <1>9. events' \in Seq(Event) /\ AddsEvents({"command_finished"})
    <2> DEFINE e == [name |-> "command_finished", position |-> Len(rows), status |-> st]
    <2>1. e \in Event /\ e.name = "command_finished"
      BY <1>2 DEF Event
    <2>2. events' = Append(events, e)
      BY DEF CloseCommand, Publish, Position
    <2> QED
      BY <1>1, <2>1, <2>2, AddOneEvent
  <1> QED
    BY <1>7, <1>8, <1>9

\* A step of a command happens in an item, whose row it leaves alone.
CommandEffect ==
    /\ running /\ outcome = "open"
    /\ UNCHANGED <<suite, progressVars, running, execution, rows, outcome>>
    /\ commands' \in 0..MaxCommands /\ raised' \in Exceptions \cup {"none"}
    /\ local' = local \/ local' = local \cup {Len(rows)}
    /\ commandRows' \in Seq(CommandRowType) /\ (OpensCommand \/ KeepsCommands)
    /\ events' \in Seq(Event) /\ AddsEvents({"command_finished"})

LEMMA CommandView ==
    ASSUME TypeOK, Place, CommandStep
    PROVE  CommandEffect
  <1>1. /\ commandRows \in Seq(CommandRowType) /\ events \in Seq(Event)
        /\ commands \in 0..MaxCommands /\ raised \in Exceptions \cup {"none"}
        /\ MaxCommands \in Nat
    BY ExecutorAssumption DEF TypeOK, CommandRowType
  <1>2. CASE StartCommand
    <2> DEFINE r == [item |-> Len(rows), status |-> "running"]
    <2>1. running /\ outcome = "open" /\ ~CommandOpen /\ commands < MaxCommands
      BY <1>2 DEF StartCommand, InItem
    <2>2. /\ UNCHANGED <<suite, progressVars, running, execution, rows, outcome,
                         raised, local, events>>
          /\ commands' = commands + 1 /\ commandRows' = Append(commandRows, r)
      BY <1>2 DEF StartCommand, Position
    <2>3. r \in CommandRowType
      <3>1. Len(rows) \in Nat \ {0}
        BY <2>1 DEF TypeOK, Place
      <3> QED
        BY <3>1 DEF CommandRowType, Statuses
    <2>4. r.item = Len(rows)
      OBVIOUS
    <2> HIDE DEF r
    <2>5. commandRows' \in Seq(CommandRowType) /\ OpensCommand
      BY <1>1, <2>1, <2>2, <2>3, <2>4, AppendFacts DEF OpensCommand
    <2> QED
      BY <1>1, <2>1, <2>2, <2>5, AddNoEvent DEF CommandEffect
  <1>3. ASSUME NEW w \in BOOLEAN, CommandSucceeds(w)
        PROVE  CommandEffect
    <2>1. /\ running /\ outcome = "open" /\ CommandOpen /\ CloseCommand("success")
          /\ local' = local \/ local' = local \cup {Len(rows)}
          /\ UNCHANGED <<suite, progressVars, running, raised, commands, execution, rows,
                         outcome>>
      BY <1>3 DEF CommandSucceeds, InItem, Position
    <2>2. "success" \in Statuses \ {"running"}
      BY DEF Statuses
    <2> QED
      BY <1>1, <2>1, <2>2, CloseCommandView DEF CommandEffect
  <1>4. ASSUME NEW x \in Exceptions, CommandFails(x)
        PROVE  CommandEffect
    <2>1. /\ running /\ outcome = "open" /\ CommandOpen /\ CloseCommand("error")
          /\ raised' = x
          /\ UNCHANGED <<suite, progressVars, running, local, commands, execution, rows,
                         outcome>>
      BY <1>4 DEF CommandFails, InItem
    <2>2. "error" \in Statuses \ {"running"}
      BY DEF Statuses
    <2> QED
      BY <1>1, <2>1, <2>2, CloseCommandView DEF CommandEffect
  <1>5. ASSUME NEW x \in Exceptions, ConversionFails(x) \/ StartLogFails(x)
        PROVE  CommandEffect
    <2>1. /\ running /\ outcome = "open" /\ raised' = x
          /\ UNCHANGED <<suite, progressVars, running, local, commands, execution, rows,
                         commandRows, events, outcome>>
      BY <1>5 DEF ConversionFails, StartLogFails, InItem, rowVars
    <2>2. KeepsCommands
      BY <2>1 DEF KeepsCommands
    <2> QED
      BY <1>1, <2>1, <2>2, AddNoEvent DEF CommandEffect
  <1> QED
    BY <1>2, <1>3, <1>4, <1>5 DEF CommandStep

\* Steps that change nothing but the outcome, and stuttering.
QuietStep ==
    /\ UNCHANGED <<suite, progressVars, itemVars, rowVars, events>>
    /\ outcome' \in {"open", "committed", "rolledback"}
    /\ outcome' = "committed" => outcome = "committed" \/ stage = "commit"

\* Every step is of one of these kinds.
LEMMA StepKinds ==
    ASSUME TypeOK, Place, [Next]_vars
    PROVE  \/ Begin
           \/ outcome = "open" /\ SkipHook
           \/ StartItem
           \/ \E status, exc : ItemOver(status, exc)
           \/ CommandEffect
           \/ Finish
           \/ FinalLog
           \/ QuietStep
  <1>1. CASE ItemSucceeds
    <2>1. ItemOver("success", "none")
      BY <1>1 DEF ItemSucceeds, ItemOver, InItem
    <2> QED
      BY <2>1
  <1>2. CASE ItemFails
    <2>1. ItemOver("error", raised)
      BY <1>2 DEF ItemFails, ItemOver, TypeOK
    <2> QED
      BY <2>1
  <1>3. CASE CommandStep
    BY <1>3, CommandView
  <1>4. CASE TargetMissing \/ Commit \/ RollBack \/ UNCHANGED vars
    BY <1>4 DEF TargetMissing, Commit, RollBack, vars, QuietStep, TypeOK
  <1>5. CASE SkipHook
    BY <1>5 DEF SkipHook
  <1> QED
    BY <1>1, <1>2, <1>3, <1>4, <1>5 DEF Next, RunStep, CommandStep

-----------------------------------------------------------------------------
(* The invariant is kept, part by part.                                    *)

\* Going on to the next stage keeps the loop within the tests.
LEMMA FollowKeepsTurn ==
    ASSUME TypeOK, Place, stage \in Hooks \cup {"test"}, NEW failed \in BOOLEAN, NEW error,
           Follow(stage, failed, error), UNCHANGED tests
    PROVE  /\ stage' \in {"before_each", "test", "after_each", "after_all", "finish"}
           /\ index' \in 0..Len(tests) /\ testFailed' \in BOOLEAN
           /\ local' \in SUBSET (1..Len(rows))
           /\ stage' \in PerTest => index' # 0
  <1>1. /\ Len(tests) \in Nat /\ index \in 0..Len(tests) /\ testFailed \in BOOLEAN
        /\ local \in SUBSET (1..Len(rows)) /\ (stage \in PerTest => index # 0)
    BY CurrentTest DEF TypeOK, Place
  <1>2. tests # <<>> => Len(tests) # 0
    BY DEF TypeOK
  <1>3. /\ stage' \in {"before_each", "test", "after_each", "after_all", "finish"}
        /\ testFailed' \in BOOLEAN
    BY <1>1, FollowCases DEF FollowEffect
  <1>4. local' = local \/ local' = {}
    BY FollowCases DEF FollowEffect
  <1>5. \/ index' = index /\ (stage' \in PerTest => stage \in PerTest)
        \/ index' = 1 /\ tests # <<>>
        \/ index' = index + 1 /\ index # Len(tests)
    BY FollowCases DEF PerTest, FollowEffect
  <1>6. index' \in 0..Len(tests) /\ (stage' \in PerTest => index' # 0)
    BY <1>1, <1>2, <1>5
  <1>7. local' \in SUBSET (1..Len(rows))
    BY <1>1, <1>4
  <1> QED
    BY <1>3, <1>6, <1>7

\* Only hooks and tests are executed as items.
LEMMA RunningStages ==
    ASSUME TypeOK, Place, running
    PROVE  stage \in Hooks \cup {"test"}
  BY ItemStages DEF TypeOK, Place

LEMMA TypeStep ==
    ASSUME TypeOK, Place, [Next]_vars
    PROVE  TypeOK'
  <1>1. /\ suite \in Suites /\ tests \in Seq(1..MaxTests) /\ index \in 0..Len(tests)
        /\ stage \in Stages /\ running \in BOOLEAN /\ raised \in Exceptions \cup {"none"}
        /\ commands \in 0..MaxCommands /\ testFailed \in BOOLEAN /\ anyError \in BOOLEAN
        /\ firstError \in 0..Len(rows) /\ local \in SUBSET (1..Len(rows))
        /\ execution \in [status : Statuses \cup {"none"}, error : 0..Len(rows)]
        /\ rows \in Seq(RowType) /\ Len(rows) \in Nat
        /\ commandRows \in Seq(CommandRowType)
        /\ events \in Seq(Event) /\ outcome \in {"open", "committed", "rolledback"}
    BY DEF TypeOK, RowType, CommandRowType
  <1>2. CASE Begin
    <2>1. /\ stage = "begin" /\ suite.target <= Len(suite.onFailure)
          /\ execution' = [status |-> "running", error |-> 0]
          /\ tests' = ResolveTests(suite) /\ stage' = "before_all"
          /\ events' = events \o <<[name |-> "suite_started"],
                                   [name |-> "suite_progress", executed |-> 0]>>
          /\ UNCHANGED <<suite, index, testFailed, anyError, firstError, itemVars,
                         rows, commandRows, outcome>>
      BY <1>2 DEF Begin
    <2>2. tests' \in Seq(1..MaxTests) /\ Len(tests') \in Nat
      BY <1>1, <2>1, ResolvedTests, ExecutorAssumption
    <2>3. index' \in 0..Len(tests')
      BY <1>1, <2>1, <2>2 DEF Place
    <2>4. execution' \in [status : Statuses \cup {"none"}, error : 0..Len(rows')]
      BY <1>1, <2>1 DEF Statuses
    <2>5. events' \in Seq(Event)
      <3> DEFINE a == [name |-> "suite_started"]
                 b == [name |-> "suite_progress", executed |-> 0]
      <3>1. a \in Event /\ b \in Event
        BY ExecutorAssumption DEF Event
      <3> HIDE DEF a, b
      <3>2. <<a, b>> \in Seq(Event)
        BY <3>1
      <3>3. events' = events \o <<a, b>>
        BY <2>1 DEF a, b
      <3> QED
        BY <1>1, <3>2, <3>3
    <2> QED
      BY <1>1, <2>1, <2>2, <2>3, <2>4, <2>5
      DEF TypeOK, RowType, CommandRowType, itemVars, Stages, Hooks
  <1>3. CASE outcome = "open" /\ SkipHook
    <2>1. /\ stage \in Hooks /\ Follow(stage, FALSE, anyError)
          /\ UNCHANGED <<suite, tests, anyError, firstError, running, raised, commands,
                         rowVars, events, outcome>>
      BY <1>3 DEF SkipHook
    <2>2. /\ stage' \in {"before_each", "test", "after_each", "after_all", "finish"}
          /\ index' \in 0..Len(tests) /\ testFailed' \in BOOLEAN
          /\ local' \in SUBSET (1..Len(rows))
      BY <2>1, FollowKeepsTurn
    <2> QED
      BY <1>1, <2>1, <2>2 DEF TypeOK, RowType, CommandRowType, rowVars, Stages, Hooks
  <1>4. CASE StartItem
    <2>1. /\ rows' \in Seq(RowType) /\ Len(rows') = Len(rows) + 1
          /\ events' \in Seq(Event)
          /\ running' = TRUE /\ raised' = "none" /\ commands' = 0
          /\ UNCHANGED <<suite, progressVars, local, execution, commandRows, outcome>>
      BY <1>4, StartItemView
    <2>2. 0..Len(rows) \subseteq 0..Len(rows') /\ 1..Len(rows) \subseteq 1..Len(rows')
      BY <1>1, <2>1
    <2>3. CommandRowType \subseteq CommandRowType'
      BY <2>2 DEF CommandRowType
    <2>4. commandRows' \in Seq(CommandRowType')
      BY <1>1, <2>1, <2>3
    <2>5. execution' \in [status : Statuses \cup {"none"}, error : 0..Len(rows')]
      BY <1>1, <2>1, <2>2
    <2>6. firstError' \in 0..Len(rows') /\ local' \in SUBSET (1..Len(rows'))
      BY <1>1, <2>1, <2>2 DEF progressVars
    <2> QED
      BY <1>1, <2>1, <2>4, <2>5, <2>6, ExecutorAssumption
      DEF TypeOK, RowType, CommandRowType, progressVars
  <1>5. ASSUME NEW status, NEW exc, ItemOver(status, exc)
        PROVE  TypeOK'
    <2>1. /\ rows' \in Seq(RowType) /\ Len(rows') = Len(rows)
          /\ stage \in Hooks \cup {"test"}
          /\ Follow(stage, status = "error", anyError \/ status = "error")
          /\ running' = FALSE /\ raised' = "none"
          /\ anyError' = (anyError \/ status = "error")
          /\ firstError' = IF firstError = 0 /\ exc = "text" THEN Len(rows) ELSE firstError
          /\ UNCHANGED <<suite, tests, commands, execution, commandRows, outcome>>
      BY <1>5, ItemOverView
    <2>2. events' \in Seq(Event)
      BY <1>5, ItemOverEvents
    <2>3. (status = "error") \in BOOLEAN
      OBVIOUS
    <2>4. /\ stage' \in {"before_each", "test", "after_each", "after_all", "finish"}
          /\ index' \in 0..Len(tests) /\ testFailed' \in BOOLEAN
          /\ local' \in SUBSET (1..Len(rows))
      BY <2>1, <2>3, FollowKeepsTurn
    <2>5. anyError' \in BOOLEAN
      BY <2>1
    <2>6. firstError' \in 0..Len(rows)
      BY <1>1, <2>1
    <2> QED
      BY <1>1, <2>1, <2>2, <2>4, <2>5, <2>6
      DEF TypeOK, RowType, CommandRowType, Stages, Hooks
  <1>6. CASE CommandEffect
    <2>1. Len(rows) # 0
      BY <1>6 DEF CommandEffect, Place
    <2>2. local' = local \/ local' = local \cup {Len(rows)}
      BY <1>6 DEF CommandEffect
    <2>3. local' \in SUBSET (1..Len(rows))
      <3>1. local \subseteq 1..Len(rows) /\ Len(rows) \in 1..Len(rows)
        BY <1>1, <2>1
      <3> QED
        BY <2>2, <3>1
    <2> QED
      BY <1>1, <1>6, <2>3 DEF CommandEffect, TypeOK, RowType, CommandRowType, progressVars
  <1>7. CASE Finish
    <2> DEFINE e == [name |-> "suite_finished", status |-> IF anyError THEN "error" ELSE "success"]
    <2>1. /\ execution' = [status |-> IF anyError THEN "error" ELSE "success",
                           error |-> firstError]
          /\ events' = Append(events, e) /\ stage' = "log"
          /\ UNCHANGED <<suite, tests, index, testFailed, anyError, firstError, itemVars,
                         rows, commandRows, outcome>>
      BY <1>7 DEF Finish, Publish
    <2>2. e \in Event
      BY <1>1 DEF Event, Statuses
    <2>3. events' \in Seq(Event)
      BY <1>1, <2>1, <2>2, AddOneEvent
    <2>4. execution' \in [status : Statuses \cup {"none"}, error : 0..Len(rows)]
      BY <1>1, <2>1 DEF Statuses
    <2> QED
      BY <1>1, <2>1, <2>3, <2>4 DEF TypeOK, RowType, CommandRowType, itemVars, Stages
  <1>8. CASE FinalLog
    <2> DEFINE e == [name |-> "execution_log"]
    <2>1. /\ events' = Append(events, e) /\ stage' = "commit"
          /\ UNCHANGED <<suite, tests, index, testFailed, anyError, firstError, itemVars,
                         rowVars, outcome>>
      BY <1>8 DEF FinalLog, Publish
    <2>2. e \in Event
      BY DEF Event
    <2>3. events' \in Seq(Event)
      BY <1>1, <2>1, <2>2, AddOneEvent
    <2> QED
      BY <1>1, <2>1, <2>3 DEF TypeOK, RowType, CommandRowType, itemVars, rowVars, Stages
  <1>9. CASE QuietStep
    BY <1>1, <1>9 DEF QuietStep, TypeOK, RowType, CommandRowType, progressVars, itemVars, rowVars
  <1> QED
    BY <1>2, <1>3, <1>4, <1>5, <1>6, <1>7, <1>8, <1>9, StepKinds

\* The stage keeps telling where the run is.
LEMMA PlaceStep ==
    ASSUME TypeOK, Place, [Next]_vars
    PROVE  Place'
  <1> USE DEF Executing, ItemClosed
  <1>0. Len(rows) \in Nat /\ DOMAIN rows = 1..Len(rows)
    BY DEF TypeOK
  <1>1. CASE Begin
    <2>1. /\ stage = "begin" /\ suite.target <= Len(suite.onFailure)
          /\ tests' = ResolveTests(suite) /\ stage' = "before_all" /\ outcome = "open"
          /\ UNCHANGED <<suite, index, itemVars, rows, outcome>>
      BY <1>1 DEF Begin
    <2>2. rows = <<>> /\ index = 0 /\ ~running /\ raised = "none"
      BY <2>1 DEF Place, HasItem, PerTest, Stages, Hooks
    <2> QED
      BY <2>1, <2>2 DEF Place, itemVars, PerTest
  <1>2. CASE outcome = "open" /\ SkipHook
    <2>1. /\ stage \in Hooks /\ Follow(stage, FALSE, anyError) /\ ~HasItem(stage)
          /\ UNCHANGED <<suite, tests, running, raised, rows, outcome>>
      BY <1>2 DEF SkipHook, rowVars
    <2>2. /\ stage' \in {"before_each", "test", "after_each", "after_all", "finish"}
          /\ (stage' \in PerTest => index' # 0)
      BY <2>1, FollowKeepsTurn
    <2>3. ~running /\ stage # "begin"
      BY <2>1 DEF Place, Hooks
    <2> QED
      BY <1>2, <2>1, <2>2, <2>3 DEF Place
  <1>3. CASE StartItem
    <2>1. stage \in Hooks \cup {"test"} /\ stage # "begin"
      BY <1>3, StartItemView, ItemStages DEF TypeOK, Hooks
    <2>2. /\ Len(rows') = Len(rows) + 1 /\ DOMAIN rows' = 1..(Len(rows) + 1)
          /\ \A p \in DOMAIN rows : rows'[p] = rows[p]
          /\ rows'[Len(rows')] =
               [stage |-> stage, status |-> "running", error |-> "none",
                test |-> IF stage \in PerTest THEN tests[index] ELSE 0]
          /\ ~running /\ running' /\ outcome = "open" /\ HasItem(stage)
          /\ UNCHANGED <<suite, tests, stage, index, outcome>>
      BY <1>3, <1>0, StartItemView DEF progressVars
    <2>3. \A p \in DOMAIN rows' : Executing(p)' \/ ItemClosed(p)'
      <3>1. \A p \in DOMAIN rows : ItemClosed(p)
        BY <2>2 DEF Place
      <3>2. ASSUME NEW p \in DOMAIN rows', p # Len(rows')
            PROVE  p \in DOMAIN rows
        BY <1>0, <2>2, <3>2
      <3> QED
        BY <2>2, <3>1, <3>2
    <2>4. HasItem(stage)'
      BY <2>2 DEF HasItem
    <2> QED
      BY <1>0, <2>1, <2>2, <2>3, <2>4 DEF Place
  <1>4. ASSUME NEW status, NEW exc, ItemOver(status, exc)
        PROVE  Place'
    <2>1. /\ stage' \in {"before_each", "test", "after_each", "after_all", "finish"}
          /\ (stage' \in PerTest => index' # 0)
      BY <1>4, ItemOverView, FollowKeepsTurn
    <2>2. \A p \in DOMAIN rows' : ItemClosed(p)'
      <3>1. /\ DOMAIN rows' = DOMAIN rows
            /\ \A p \in DOMAIN rows : p # Len(rows) => rows'[p] = rows[p]
            /\ rows'[Len(rows)] = [stage |-> stage, status |-> status, error |-> exc,
                                   test |-> IF stage \in PerTest THEN tests[index] ELSE 0]
        BY <1>4, ItemOverView
      <3>2. \A p \in DOMAIN rows : p # Len(rows) => ItemClosed(p)
        BY DEF Place
      <3>3. \/ status = "success" /\ exc = "none"
            \/ status = "error" /\ exc \in Exceptions
        BY <1>4 DEF ItemOver
      <3> QED
        BY <3>1, <3>2, <3>3
    <2>3. stage # "begin" /\ outcome' = "open"
      BY <1>4, ItemOverView DEF Hooks, ItemOver
    <2> QED
      BY <1>4, <2>1, <2>2, <2>3, ItemOverView DEF Place
  <1>5. CASE CommandEffect
    BY <1>5 DEF Place, CommandEffect, progressVars, HasItem
  <1>6. CASE Finish
    <2>1. stage = "finish" /\ ~running
      BY <1>6, RunningStages DEF Finish, Hooks
    <2> QED
      BY <1>6, <2>1 DEF Finish, Place, itemVars, PerTest
  <1>7. CASE FinalLog
    <2>1. stage = "log" /\ ~running
      BY <1>7, RunningStages DEF FinalLog, Hooks
    <2> QED
      BY <1>7, <2>1 DEF FinalLog, Place, itemVars, rowVars, PerTest
  <1>8. CASE QuietStep
    BY <1>8 DEF QuietStep, Place, progressVars, itemVars, rowVars, HasItem
  <1> QED
    BY <1>1, <1>2, <1>3, <1>4, <1>5, <1>6, <1>7, <1>8, StepKinds

\* What the steps that do not touch the rows leave alone.
LEMMA RowsUntouched ==
    ASSUME TypeOK, Place,
           Begin \/ (outcome = "open" /\ SkipHook) \/ CommandEffect \/ Finish \/ FinalLog
             \/ QuietStep
    PROVE  /\ UNCHANGED <<suite, rows, running, anyError, firstError>>
           /\ UNCHANGED <<execution>> \/ Begin \/ Finish
           /\ UNCHANGED <<stage>> \/ ~running
  <1>1. Begin \/ Finish \/ FinalLog => ~running
    BY RunningStages DEF Begin, Finish, FinalLog, Hooks
  <1>2. SkipHook => ~running
    BY DEF SkipHook, Place
  <1>3. CASE Begin
    BY <1>1, <1>3 DEF Begin, itemVars
  <1>4. CASE outcome = "open" /\ SkipHook
    BY <1>2, <1>4 DEF SkipHook, rowVars
  <1>5. CASE CommandEffect
    BY <1>5 DEF CommandEffect, progressVars
  <1>6. CASE Finish
    BY <1>1, <1>6 DEF Finish, itemVars
  <1>7. CASE FinalLog
    BY <1>1, <1>7 DEF FinalLog, itemVars, rowVars
  <1>8. CASE QuietStep
    BY <1>8 DEF QuietStep, progressVars, itemVars, rowVars
  <1> QED
    BY <1>3, <1>4, <1>5, <1>6, <1>7, <1>8

\* The verdict so far follows every item.
LEMMA VerdictStep ==
    ASSUME TypeOK, Place, VerdictSoFar, [Next]_vars
    PROVE  VerdictSoFar'
  <1>0. Len(rows) \in Nat /\ DOMAIN rows = 1..Len(rows) /\ firstError \in 0..Len(rows)
    BY DEF TypeOK
  <1> DEFINE Verdict == [status |-> IF anyError THEN "error" ELSE "success",
                         error |-> firstError]
  <1>1. CASE StartItem
    <2>1. /\ DOMAIN rows' = 1..(Len(rows) + 1)
          /\ \A p \in DOMAIN rows : rows'[p] = rows[p]
          /\ rows'[Len(rows) + 1].status = "running" /\ rows'[Len(rows) + 1].error = "none"
          /\ UNCHANGED <<stage, anyError, firstError, execution>>
      BY <1>1, StartItemView DEF progressVars
    <2>2. \A p \in DOMAIN rows' : p \in DOMAIN rows \/ p = Len(rows) + 1
      BY <2>1, <1>0
    <2>3. DOMAIN rows \subseteq DOMAIN rows'
      BY <2>1, <1>0
    <2>4. anyError' <=> \E p \in DOMAIN rows' : rows'[p].status = "error"
      BY <2>1, <2>2, <2>3 DEF VerdictSoFar
    <2>5. /\ \A p \in DOMAIN rows' : rows'[p].error = "text" => firstError' # 0 /\ firstError' <= p
          /\ firstError' # 0 => firstError' \in DOMAIN rows' /\ rows'[firstError'].error = "text"
      BY <2>1, <2>2, <2>3 DEF VerdictSoFar
    <2>6. stage' \in {"log", "commit"} => execution' = Verdict'
      BY <2>1 DEF VerdictSoFar
    <2> QED
      BY <2>4, <2>5, <2>6 DEF VerdictSoFar
  <1>2. ASSUME NEW status, NEW exc, ItemOver(status, exc)
        PROVE  VerdictSoFar'
    <2>1. /\ DOMAIN rows' = DOMAIN rows
          /\ Len(rows) \in DOMAIN rows
          /\ \A p \in DOMAIN rows : p # Len(rows) => rows'[p] = rows[p]
          /\ rows'[Len(rows)].status = status /\ rows'[Len(rows)].error = exc
          /\ anyError' = (anyError \/ status = "error")
          /\ firstError' = IF firstError = 0 /\ exc = "text" THEN Len(rows) ELSE firstError
      BY <1>2, ItemOverView
    <2>2. rows[Len(rows)].status = "running" /\ rows[Len(rows)].error = "none"
      BY <1>2 DEF Place, ItemOver
    <2>3. anyError' <=> \E p \in DOMAIN rows' : rows'[p].status = "error"
      BY <2>1, <2>2 DEF VerdictSoFar
    <2>4. \A p \in DOMAIN rows' : rows'[p].error = "text" => firstError' # 0 /\ firstError' <= p
      BY <2>1, <2>2, <1>0 DEF VerdictSoFar
    <2>5. firstError' # 0 => firstError' \in DOMAIN rows' /\ rows'[firstError'].error = "text"
      BY <2>1, <2>2, <1>0 DEF VerdictSoFar
    <2>6. stage' \notin {"log", "commit"}
      BY <1>2, ItemOverView, FollowKeepsTurn
    <2> QED
      BY <2>3, <2>4, <2>5, <2>6 DEF VerdictSoFar
  <1>3. CASE Begin \/ (outcome = "open" /\ SkipHook) \/ CommandEffect \/ Finish \/ FinalLog
               \/ QuietStep
    <2>1. UNCHANGED <<rows, anyError, firstError>>
      BY <1>3, RowsUntouched
    <2>2. stage' \in {"log", "commit"} => execution' = Verdict'
      <3>1. CASE Begin
        BY <3>1 DEF Begin
      <3>2. CASE outcome = "open" /\ SkipHook
        <4>1. stage' \notin {"log", "commit"}
          BY <3>2, FollowKeepsTurn DEF SkipHook
        <4> QED
          BY <4>1
      <3>3. CASE CommandEffect
        BY <3>3 DEF CommandEffect, progressVars, VerdictSoFar
      <3>4. CASE Finish
        BY <3>4 DEF Finish
      <3>5. CASE FinalLog
        BY <3>5 DEF FinalLog, rowVars, VerdictSoFar
      <3>6. CASE QuietStep
        BY <3>6 DEF QuietStep, progressVars, rowVars, VerdictSoFar
      <3> QED
        BY <1>3, <3>1, <3>2, <3>3, <3>4, <3>5, <3>6
    <2> QED
      BY <2>1, <2>2 DEF VerdictSoFar
  <1> QED
    BY <1>1, <1>2, <1>3, StepKinds

\* No step leaves a command row open behind it, but a failing one.
LEMMA OpenCommandsStep ==
    ASSUME TypeOK, Place, OpenCommands, [Next]_vars
    PROVE  OpenCommands'
  <1>0. /\ Len(rows) \in Nat /\ DOMAIN rows = 1..Len(rows)
        /\ Len(commandRows) \in Nat /\ DOMAIN commandRows = 1..Len(commandRows)
        /\ \A c \in DOMAIN commandRows : commandRows[c].item \in DOMAIN rows
    <2>1. commandRows \in Seq(CommandRowType) /\ Len(rows) \in Nat /\ DOMAIN rows = 1..Len(rows)
      BY DEF TypeOK, CommandRowType
    <2>2. \A c \in 1..Len(commandRows) : commandRows[c] \in CommandRowType
      BY <2>1, ElementFacts
    <2>3. Len(commandRows) \in Nat /\ DOMAIN commandRows = 1..Len(commandRows)
      BY <2>1, ElementFacts
    <2> QED
      BY <2>1, <2>2, <2>3 DEF CommandRowType
  <1>1. CASE StartItem
    <2>1. /\ ~running /\ \A p \in DOMAIN rows : rows'[p] = rows[p]
          /\ UNCHANGED commandRows
      BY <1>1, StartItemView
    <2> QED
      BY <2>1, <1>0 DEF OpenCommands, Executing
  <1>2. ASSUME NEW status, NEW exc, ItemOver(status, exc)
        PROVE  OpenCommands'
    <2>1. /\ \A p \in DOMAIN rows : p # Len(rows) => rows'[p] = rows[p]
          /\ rows'[Len(rows)].status = status /\ status \in {"success", "error"}
          /\ UNCHANGED commandRows
      BY <1>2, ItemOverView
    <2>2. status = "success" => ~CommandOpen
      BY <1>2 DEF ItemOver
    <2>3. ASSUME NEW c \in DOMAIN commandRows, commandRows[c].status = "running"
          PROVE  rows'[commandRows[c].item].status = "error"
      <3>1. CASE commandRows[c].item = Len(rows)
        BY <2>1, <2>2, <2>3, <3>1 DEF CommandOpen, Position
      <3>2. CASE commandRows[c].item # Len(rows)
        BY <2>1, <2>3, <3>2, <1>0 DEF OpenCommands, Executing
      <3> QED
        BY <3>1, <3>2
    <2> QED
      BY <2>1, <2>3 DEF OpenCommands
  <1>3. CASE CommandEffect
    <2>1. UNCHANGED <<rows, running>> /\ running
      BY <1>3 DEF CommandEffect
    <2>2. CASE OpensCommand
      <3>1. \A c \in DOMAIN commandRows' : c \in DOMAIN commandRows \/ c = Len(commandRows) + 1
        BY <2>2, <1>0 DEF OpensCommand
      <3>2. \A c \in DOMAIN commandRows :
               commandRows[c].status = "running" => commandRows[c].item # Len(rows)
        BY <2>2 DEF OpensCommand, CommandOpen, Position
      <3> QED
        BY <2>1, <2>2, <3>1, <3>2, <1>0 DEF OpensCommand, OpenCommands, Executing
    <2>3. CASE KeepsCommands
      BY <2>1, <2>3, <1>0 DEF KeepsCommands, OpenCommands, Executing
    <2> QED
      BY <1>3, <2>2, <2>3 DEF CommandEffect
  <1>4. CASE Begin \/ (outcome = "open" /\ SkipHook) \/ Finish \/ FinalLog \/ QuietStep
    <2>1. UNCHANGED <<rows, running>>
      BY <1>4, RowsUntouched
    <2>2. UNCHANGED commandRows
      BY <1>4 DEF Begin, SkipHook, Finish, FinalLog, QuietStep, rowVars
    <2> QED
      BY <2>1, <2>2 DEF OpenCommands, Executing
  <1> QED
    BY <1>1, <1>2, <1>3, <1>4, StepKinds

\* The local constants in force never outlive their test or hook.
LEMMA LocalsStep ==
    ASSUME TypeOK, Place, LocalsSoFar, [Next]_vars
    PROVE  LocalsSoFar'
  <1>0. Len(rows) \in Nat /\ DOMAIN rows = 1..Len(rows) /\ local \in SUBSET DOMAIN rows
    BY DEF TypeOK
  <1> USE DEF Executing
  <1>1. CASE Begin
    <2>1. stage = "begin" /\ stage' = "before_all" /\ UNCHANGED <<rows, local>>
      BY <1>1 DEF Begin, itemVars
    <2> QED
      BY <2>1 DEF LocalsSoFar, PerTest
  <1>2. CASE outcome = "open" /\ SkipHook
    <2>1. /\ stage \in Hooks /\ Follow(stage, FALSE, anyError) /\ ~running
          /\ UNCHANGED <<suite, tests, rows>>
      BY <1>2 DEF SkipHook, rowVars, Place
    <2>2. /\ stage' \in {"before_each", "test", "after_each", "after_all", "finish"}
          /\ \/ local' = {}
             \/ local' = local /\ index' = index /\ stage \in PerTest
             \/ local' = local /\ stage' = "finish"
      BY <2>1, FollowCases DEF PerTest, FollowEffect
    <2>3. \/ local' = {}
          \/ local' = local /\ index' = index /\ stage \in PerTest
                /\ stage' \in PerTest
          \/ local' = local /\ stage' = "finish"
      BY <2>1, FollowCases DEF PerTest, FollowEffect
    <2> QED
      BY <2>1, <2>2, <2>3 DEF LocalsSoFar, PerTest, Hooks
  <1>3. CASE StartItem
    <2>1. /\ ~running /\ \A p \in DOMAIN rows : rows'[p] = rows[p]
          /\ DOMAIN rows' = 1..(Len(rows) + 1)
          /\ UNCHANGED <<stage, tests, index, local>>
      BY <1>3, StartItemView DEF progressVars
    <2>2. DOMAIN rows \subseteq DOMAIN rows'
      BY <2>1, <1>0
    <2>3. stage \in Hooks \ PerTest => local = {}
      BY <2>1 DEF LocalsSoFar
    <2> QED
      BY <2>1, <2>2, <2>3, <1>0 DEF LocalsSoFar
  <1>4. ASSUME NEW status, NEW exc, ItemOver(status, exc)
        PROVE  LocalsSoFar'
    <2>1. /\ DOMAIN rows' = DOMAIN rows /\ Len(rows) \in DOMAIN rows
          /\ \A p \in DOMAIN rows : p # Len(rows) => rows'[p] = rows[p]
          /\ rows'[Len(rows)].test = rows[Len(rows)].test
          /\ stage \in Hooks \cup {"test"} /\ UNCHANGED tests
          /\ Follow(stage, status = "error", anyError \/ status = "error")
      BY <1>4, ItemOverView
    <2>2. \A p \in DOMAIN rows : rows'[p].test = rows[p].test
      BY <2>1
    <2>3. \/ local' = {} /\ stage' # "begin"
          \/ local' = local /\ index' = index /\ stage \in PerTest
                /\ stage' \in PerTest
          \/ local' = local /\ stage' = "finish"
      BY <2>1, FollowCases DEF PerTest, FollowEffect
    <2> QED
      BY <2>1, <2>2, <2>3, <1>0 DEF LocalsSoFar, PerTest, Hooks
  <1>5. CASE CommandEffect
    <2>1. /\ running /\ UNCHANGED <<rows, running, stage, tests, index>>
          /\ local' = local \/ local' = local \cup {Len(rows)}
      BY <1>5 DEF CommandEffect, progressVars
    <2>2. /\ Len(rows) \in DOMAIN rows /\ stage \in Hooks \cup {"test"}
          /\ stage \in PerTest => rows[Len(rows)].test = tests[index]
      BY <2>1, <1>0, RunningStages DEF Place
    <2> QED
      BY <2>1, <2>2 DEF LocalsSoFar, Hooks
  <1>6. CASE Finish \/ FinalLog
    <2>1. stage' \in {"log", "commit"} /\ UNCHANGED <<rows, local>>
      BY <1>6 DEF Finish, FinalLog, itemVars, rowVars
    <2> QED
      BY <2>1 DEF LocalsSoFar, Hooks, PerTest
  <1>7. CASE QuietStep
    BY <1>7 DEF QuietStep, progressVars, itemVars, rowVars, LocalsSoFar
  <1> QED
    BY <1>1, <1>2, <1>3, <1>4, <1>5, <1>6, <1>7, StepKinds

\* Neither a new item nor the end of one separates a test from its hooks.
LEMMA HooksStep ==
    ASSUME TypeOK, Place, HooksSoFar, [Next]_vars
    PROVE  HooksSoFar'
  <1> DEFINE L == Len(rows)
  <1>0. L \in Nat /\ DOMAIN rows = 1..L
    BY DEF TypeOK
  <1> USE DEF IsCurrent
  <1>1. CASE Begin
    <2>1. stage = "begin" /\ stage' = "before_all" /\ UNCHANGED rows
      BY <1>1 DEF Begin
    <2>2. rows = <<>>
      BY <2>1 DEF Place
    <2> QED
      BY <2>1, <2>2 DEF HooksSoFar
  <1>2. CASE outcome = "open" /\ SkipHook
    <2>1. /\ stage \in Hooks /\ Follow(stage, FALSE, anyError) /\ stage \notin suite.hooks
          /\ ~running /\ UNCHANGED <<suite, tests, rows, running>>
      BY <1>2 DEF SkipHook, rowVars, Place, HasItem
    <2>2. /\ stage' \notin {"log", "commit"}
          /\ stage' = "test" => stage = "before_each"
          /\ stage' = "finish" => stage = "after_all"
      BY <2>1, FollowCases DEF Hooks, FollowEffect
    <2>3. ~(Len(rows) # 0 /\ rows[Len(rows)].stage = "test" /\ "after_each" \in suite.hooks)
      BY <2>1 DEF HooksSoFar
    <2> QED
      BY <2>1, <2>2, <2>3 DEF HooksSoFar
  <1>3. CASE StartItem
    <2>1. /\ ~running /\ running' /\ HasItem(stage)
          /\ \A p \in 1..L : rows'[p] = rows[p]
          /\ Len(rows') = L + 1 /\ DOMAIN rows' = 1..(L + 1)
          /\ rows'[L + 1].stage = stage
          /\ stage \in PerTest => rows'[L + 1].test = tests[index]
          /\ UNCHANGED <<suite, stage, tests, index>>
      BY <1>3, StartItemView DEF progressVars
    <2>2. stage \in Hooks \cup {"test"}
      BY <2>1, ItemStages DEF TypeOK
    <2> DEFINE Before(p) == /\ p > 1
                            /\ rows'[p - 1].stage = "before_each"
                            /\ rows'[p - 1].test = rows'[p].test
               After(p) == rows'[p + 1].stage = "after_each" /\ rows'[p + 1].test = rows'[p].test
    <2>3. ASSUME NEW p \in 1..(L + 1), rows'[p].stage = "test", "before_each" \in suite.hooks
          PROVE  Before(p)
      <3>1. CASE p = L + 1
        <4>1. stage = "test" /\ stage \in PerTest
          BY <2>1, <2>3, <3>1 DEF PerTest
        <4>2. L # 0 /\ rows[L].stage = "before_each" /\ rows[L].test = tests[index]
          BY <2>1, <2>3, <4>1 DEF HooksSoFar
        <4>3. L \in 1..L /\ p - 1 = L
          BY <3>1, <4>2, <1>0
        <4> QED
          BY <2>1, <3>1, <4>1, <4>2, <4>3, <1>0
      <3>2. CASE p \in 1..L
        <4>1. p > 1 /\ rows[p - 1].stage = "before_each" /\ rows[p - 1].test = rows[p].test
          BY <2>1, <2>3, <3>2, <1>0 DEF HooksSoFar
        <4>2. p - 1 \in 1..L
          BY <3>2, <4>1, <1>0
        <4> QED
          BY <2>1, <3>2, <4>1, <4>2
      <3> QED
        BY <3>1, <3>2, <1>0
    <2>4. ASSUME NEW p \in 1..(L + 1), rows'[p].stage = "test", "after_each" \in suite.hooks,
                 p < L + 1
          PROVE  After(p)
      <3>1. p \in 1..L /\ rows[p].stage = "test"
        BY <2>1, <2>4, <1>0
      <3>2. CASE p = L
        <4>1. stage = "after_each" /\ rows[L].test = tests[index]
          BY <2>1, <2>4, <3>1, <3>2, <1>0 DEF HooksSoFar
        <4> QED
          BY <2>1, <3>1, <3>2, <4>1 DEF PerTest
      <3>3. CASE p # L
        <4>0. p < L
          <5>1. p \in 1..L /\ L \in Nat
            BY <3>1, <1>0
          <5> QED
            BY <5>1, <3>3
        <4>1. rows[p + 1].stage = "after_each" /\ rows[p + 1].test = rows[p].test
          BY <2>4, <3>1, <4>0, <1>0 DEF HooksSoFar
        <4>2. p + 1 \in 1..L
          BY <3>1, <4>0, <1>0
        <4> QED
          BY <2>1, <3>1, <4>1, <4>2
      <3> QED
        BY <3>2, <3>3
    <2> HIDE DEF L
    <2> QED
      BY <2>1, <2>2, <2>3, <2>4 DEF HooksSoFar, Hooks
  <1>4. ASSUME NEW status, NEW exc, ItemOver(status, exc)
        PROVE  HooksSoFar'
    <2>1. /\ DOMAIN rows' = DOMAIN rows /\ L \in DOMAIN rows /\ Len(rows') = L
          /\ \A p \in DOMAIN rows : p # L => rows'[p] = rows[p]
          /\ rows'[L].test = rows[L].test
          /\ rows'[L].stage = stage /\ rows[L].stage = stage
          /\ stage \in Hooks \cup {"test"} /\ UNCHANGED <<suite, tests>>
          /\ running /\ running' = FALSE
          /\ Follow(stage, status = "error", anyError \/ status = "error")
      BY <1>4, ItemOverView DEF ItemOver
    <2>2. \A p \in DOMAIN rows : rows'[p].test = rows[p].test /\ rows'[p].stage = rows[p].stage
      BY <2>1
    <2>3. stage \in PerTest => rows[L].test = tests[index]
      BY <2>1 DEF Place
    <2>4. /\ stage' \notin {"log", "commit"}
          /\ stage' = "test" => stage = "before_each" /\ index' = index
          /\ stage = "test" => stage' = "after_each" /\ index' = index
          /\ stage' = "finish" => stage = "after_all"
      BY <2>1, FollowCases DEF Hooks, FollowEffect
    <2>5. \A p \in DOMAIN rows : rows[p].stage = "test" =>
            /\ "before_each" \in suite.hooks =>
                  /\ p > 1 /\ p - 1 \in DOMAIN rows
                  /\ rows[p - 1].stage = "before_each" /\ rows[p - 1].test = rows[p].test
            /\ "after_each" \in suite.hooks /\ p < L =>
                  /\ p + 1 \in DOMAIN rows
                  /\ rows[p + 1].stage = "after_each" /\ rows[p + 1].test = rows[p].test
      BY <1>0 DEF HooksSoFar
    <2>6. \A p \in DOMAIN rows' : rows'[p].stage = "test" =>
            /\ "before_each" \in suite.hooks =>
                  /\ p > 1
                  /\ rows'[p - 1].stage = "before_each" /\ rows'[p - 1].test = rows'[p].test
            /\ "after_each" \in suite.hooks /\ p < L =>
                  rows'[p + 1].stage = "after_each" /\ rows'[p + 1].test = rows'[p].test
      BY <2>1, <2>2, <2>5
    <2> QED
      BY <2>1, <2>2, <2>3, <2>4, <2>6, <1>0 DEF HooksSoFar, PerTest
  <1>5. CASE CommandEffect \/ QuietStep
    <2>1. UNCHANGED <<suite, rows, stage, running, tests, index>>
      BY <1>5 DEF CommandEffect, QuietStep, progressVars, itemVars, rowVars
    <2> QED
      BY <2>1 DEF HooksSoFar
  <1>6. CASE Finish \/ FinalLog
    <2>1. /\ stage \in {"finish", "log"} /\ stage' \in {"log", "commit"}
          /\ UNCHANGED <<suite, rows, running>>
      BY <1>6 DEF Finish, FinalLog, itemVars, rowVars
    <2>2. ~running
      BY <2>1, RunningStages DEF Hooks
    <2> QED
      BY <2>1, <2>2 DEF HooksSoFar
  <1> QED
    BY <1>1, <1>2, <1>3, <1>4, <1>5, <1>6, StepKinds

\* Once the run has begun, the tests to execute are in increasing order.
LEMMA TestsInOrder ==
    ASSUME TypeOK, Place, stage # "begin"
    PROVE  /\ Len(tests) \in Nat /\ index \in 0..Len(tests)
           /\ \A i \in 1..Len(tests) : tests[i] \in Nat
           /\ \A i, j \in 1..Len(tests) : i < j => tests[i] < tests[j]
           /\ \A i, j \in 1..Len(tests) : tests[i] = tests[j] => i = j
  <1>1. /\ Len(tests) \in Nat /\ \A i \in 1..Len(tests) : tests[i] \in 1..MaxTests
        /\ index \in 0..Len(tests)
    BY ElementFacts DEF TypeOK
  <1>2. \A i, j \in 1..Len(tests) : i < j => tests[i] < tests[j]
    BY ResolvedTests DEF TypeOK, Place
  <1>3. \A i \in 1..Len(tests) : tests[i] \in Nat
    BY <1>1, ExecutorAssumption
  <1>4. ASSUME NEW i \in 1..Len(tests), NEW j \in 1..Len(tests), tests[i] = tests[j]
        PROVE  i = j
    <2>1. ~(i < j) /\ ~(j < i)
      BY <1>2, <1>3, <1>4
    <2> QED
      BY <2>1, <1>1
  <1> QED
    BY <1>1, <1>2, <1>3, <1>4

\* Some item of test t has failed when the step is over.
FailedAfter(t) == \E p \in DOMAIN rows' :
    rows'[p].status = "error" /\ rows'[p].stage \in PerTest /\ rows'[p].test = t

\* The parts of TestsSoFar, for rows that stay in place.
LEMMA FollowKeepsTests ==
    ASSUME TypeOK, Place, TestsSoFar, stage \in Hooks \cup {"test"},
           NEW failed \in BOOLEAN, NEW error, Follow(stage, failed, error),
           UNCHANGED <<suite, tests>>, ~running', stage = "test" => running,
           DOMAIN rows' = DOMAIN rows,
           \A p \in DOMAIN rows : rows'[p].stage = rows[p].stage /\ rows'[p].test = rows[p].test,
           \A t : FailedAfter(t) <=>
                     TestFailed(t) \/ (failed /\ stage \in PerTest /\ t = tests[index]),
           \A p \in DOMAIN rows : rows[p].status = "error" => rows'[p].status = "error",
           stage = "before_all" /\ error =>
              \E p \in DOMAIN rows : rows[p].stage = "before_all" /\ rows'[p].status = "error"
    PROVE  TestsSoFar'
  <1>0. /\ stage # "begin" /\ Len(tests) \in Nat /\ index \in 0..Len(tests)
        /\ \A i, j \in 1..Len(tests) : tests[i] = tests[j] => i = j
        /\ stage \in PerTest => index \in 1..Len(tests)
        /\ stage = "before_all" => index = 0
        /\ tests = <<>> => Len(tests) = 0
        /\ tests # <<>> => Len(tests) # 0
    <2>1. stage # "begin"
      BY DEF Hooks
    <2>2. tests # <<>> => Len(tests) # 0
      BY DEF TypeOK
    <2> QED
      BY <2>1, <2>2, TestsInOrder, CurrentTest DEF Place
  <1>0a. FollowEffect(stage, failed, error)
    BY FollowCases
  <1>1. RowsOf("test")' = RowsOf("test") /\ RowsOf("before_all")' = RowsOf("before_all")
    BY DEF RowsOf
  <1>2. TestsBegun' = TestsBegun
    <2>1. \/ stage = "before_all" /\ stage' = "before_each" /\ index' = 1
          \/ stage = "before_each" /\ stage' = "test" /\ index' = index
          \/ stage = "after_each" /\ stage' = "before_each" /\ index' = index + 1
          \/ stage \in {"before_all", "test", "after_each", "after_all"} /\ index' = index
             /\ stage' \in {"after_each", "after_all", "finish"}
      BY <1>0a DEF FollowEffect
    <2> QED
      BY <2>1, <1>0 DEF TestsBegun
  <1>3. /\ Cardinality(RowsOf("test")) = TestsBegun
        /\ \A p \in RowsOf("test") : \E i \in 1..TestsBegun : rows[p].test = tests[i]
        /\ \A i \in 1..TestsBegun : \E p \in RowsOf("test") : rows[p].test = tests[i]
        /\ \A p, q \in RowsOf("test") : p < q => rows[p].test < rows[q].test
    BY DEF TestsSoFar
  <1>4. /\ Cardinality(RowsOf("test"))' = TestsBegun'
        /\ \A p \in RowsOf("test")' : \E i \in 1..TestsBegun' : rows'[p].test = tests'[i]
        /\ \A i \in 1..TestsBegun' : \E p \in RowsOf("test")' : rows'[p].test = tests'[i]
        /\ \A p, q \in RowsOf("test")' : p < q => rows'[p].test < rows'[q].test
    <2>1. \A p \in RowsOf("test") : rows'[p].test = rows[p].test
      BY DEF RowsOf
    <2> QED
      BY <1>1, <1>2, <1>3, <2>1
  <1>5. index' = index \/ index' = index + 1
    BY <1>0, <1>0a DEF FollowEffect
  <1>6. \A p \in DOMAIN rows' : rows'[p].stage \in PerTest =>
          \E i \in 1..index' : rows'[p].test = tests'[i]
    <2>1. 1..index \subseteq 1..index'
      BY <1>0, <1>5
    <2>2. \A p \in DOMAIN rows : rows[p].stage \in PerTest => \E i \in 1..index : rows[p].test = tests[i]
      BY DEF TestsSoFar
    <2> QED
      BY <2>1, <2>2
  <1>7. ASSUME index' = index + 1, index' \in 1..Len(tests)
        PROVE  ~TestFailed(tests[index'])
    <2>1. \A p \in DOMAIN rows : rows[p].stage \in PerTest => \E i \in 1..index : rows[p].test = tests[i]
      BY DEF TestsSoFar
    <2>2. \A i \in 1..index : tests[i] # tests[index']
      BY <1>0, <1>7
    <2> QED
      BY <2>1, <2>2 DEF TestFailed
  <1>8. stage' \in PerTest => index' \in 1..Len(tests)
    BY <1>0, FollowKeepsTurn
  <1>9. stage' \in PerTest => (testFailed' <=> FailedAfter(tests[index']))
    <2>1. SUFFICES ASSUME stage' \in PerTest
                   PROVE  testFailed' <=> FailedAfter(tests[index'])
      OBVIOUS
    <2>2. CASE index' = index
      <3>1. stage \in PerTest /\ testFailed' = (testFailed \/ failed)
        BY <2>1, <2>2, <1>0, <1>0a DEF PerTest, FollowEffect
      <3>2. testFailed <=> TestFailed(tests[index])
        BY <3>1 DEF TestsSoFar
      <3> QED
        BY <3>1, <3>2, <2>2
    <2>3. CASE index' = index + 1
      <3>1. testFailed' = FALSE
        BY <2>1, <2>3, <1>0, <1>0a DEF PerTest, FollowEffect
      <3>2. tests[index'] # tests[index] \/ stage \notin PerTest
        BY <2>3, <1>0, <1>8, <2>1
      <3> QED
        BY <3>1, <3>2, <2>1, <2>3, <1>7, <1>8
    <2> QED
      BY <2>2, <2>3, <1>5
  <1>10. ASSUME NEW i \in 1..index', i < index'
         PROVE  ~(FailedAfter(tests[i]) /\ suite.onFailure[tests[i]] = "ABORT")
    <2>1. index' \in 0..Len(tests)
      BY FollowKeepsTurn
    <2>2. CASE i < index
      <3>1. i \in 1..index /\ i \in 1..Len(tests) /\ index \in 1..Len(tests)
        BY <1>0, <1>10, <2>1, <2>2
      <3>2. tests[i] # tests[index]
        BY <3>1, <2>2, <1>0
      <3> QED
        BY <3>1, <3>2, <2>2 DEF TestsSoFar
    <2>3. CASE i = index
      <3>1. index' = index + 1 /\ index # 0
        BY <1>0, <1>5, <1>10, <2>3
      <3>2. /\ stage = "after_each"
            /\ ~((testFailed \/ failed) /\ suite.onFailure[tests[index]] = "ABORT")
        BY <1>0, <3>1, <1>0a DEF FollowEffect
      <3>3. testFailed <=> TestFailed(tests[index])
        BY <3>2 DEF TestsSoFar, PerTest
      <3> QED
        BY <2>3, <3>2, <3>3
    <2> QED
      BY <2>2, <2>3, <1>0, <1>5, <1>10
  <1>11. ASSUME stage' \in {"after_all", "finish", "log", "commit"}, index' < Len(tests)
         PROVE  IF index' = 0 THEN \E p \in RowsOf("before_all")' : rows'[p].status = "error"
                  ELSE FailedAfter(tests[index']) /\ suite.onFailure[tests[index']] = "ABORT"
    <2>1. \/ stage = "before_all" /\ (error \/ tests = <<>>)
          \/ stage = "after_each" /\ \/ index = Len(tests)
                                     \/ (testFailed \/ failed) /\ suite.onFailure[tests[index]] = "ABORT"
          \/ stage = "after_all"
      BY <1>11, <1>0a DEF FollowEffect
    <2>2. index' = index
      BY <1>11, <1>0a DEF FollowEffect
    <2>3. CASE stage = "before_all" /\ (error \/ tests = <<>>)
      <3>1. tests # <<>> /\ index' = 0
        BY <1>0, <1>11, <2>2, <2>3
      <3> QED
        BY <3>1, <2>3, <1>1 DEF RowsOf
    <2>4. CASE /\ stage = "after_each"
               /\ \/ index = Len(tests)
                  \/ (testFailed \/ failed) /\ suite.onFailure[tests[index]] = "ABORT"
      <3>1. stage \in PerTest /\ index # 0 /\ index # Len(tests)
        BY <2>4, <2>2, <1>0, <1>11 DEF PerTest
      <3>2. testFailed <=> TestFailed(tests[index])
        BY <3>1 DEF TestsSoFar
      <3> QED
        BY <3>1, <3>2, <2>2, <2>4
    <2>5. CASE stage = "after_all"
      <3>1. IF index = 0 THEN \E p \in RowsOf("before_all") : rows[p].status = "error"
              ELSE TestFailed(tests[index]) /\ suite.onFailure[tests[index]] = "ABORT"
        BY <2>5, <2>2, <1>11 DEF TestsSoFar
      <3> QED
        BY <3>1, <2>2, <1>1 DEF RowsOf
    <2> QED
      BY <2>1, <2>3, <2>4, <2>5
  <1> QED
    BY <1>4, <1>6, <1>9, <1>10, <1>11
    DEF TestsSoFar, TestFailed, FailedAfter

\* The tests begun and their failures follow the items.
LEMMA TestsStep ==
    ASSUME TypeOK, Place, VerdictSoFar, TestsSoFar, [Next]_vars
    PROVE  TestsSoFar'
  <1> DEFINE L == Len(rows)
  <1>0. L \in Nat /\ DOMAIN rows = 1..L
    BY DEF TypeOK
  <1>1. CASE Begin
    <2>1. /\ stage = "begin" /\ stage' = "before_all" /\ UNCHANGED <<suite, rows, index>>
      BY <1>1 DEF Begin
    <2>2. rows = <<>> /\ index = 0
      BY <2>1 DEF Place
    <2>3. RowsOf("test")' = {} /\ DOMAIN rows' = {}
      BY <2>1, <2>2 DEF RowsOf
    <2>4. Cardinality(RowsOf("test"))' = 0
      BY <2>3, FS_EmptySet
    <2> QED
      BY <2>1, <2>2, <2>3, <2>4 DEF TestsSoFar, TestsBegun, PerTest
  <1>2. CASE outcome = "open" /\ SkipHook
    <2>1. /\ stage \in Hooks /\ Follow(stage, FALSE, anyError) /\ ~running
          /\ UNCHANGED <<suite, tests, rows, running>>
      BY <1>2 DEF SkipHook, rowVars, Place
    <2>2. \A t : FailedAfter(t) <=> TestFailed(t)
      BY <2>1 DEF FailedAfter, TestFailed
    <2>3. stage = "before_all" => ~anyError
      <3>1. stage = "before_all" => L = 0
        BY <2>1 DEF Place
      <3> QED
        BY <3>1, <1>0 DEF VerdictSoFar
    <2>4. stage # "test" /\ stage \in Hooks \cup {"test"}
      BY <2>1 DEF Hooks
    <2> QED
      BY <2>1, <2>2, <2>3, <2>4, FollowKeepsTests
  <1>3. CASE StartItem
    <2>1. /\ ~running /\ running'
          /\ \A p \in 1..L : rows'[p] = rows[p]
          /\ DOMAIN rows' = 1..(L + 1)
          /\ rows'[L + 1].stage = stage /\ rows'[L + 1].status = "running"
          /\ stage \in PerTest => rows'[L + 1].test = tests[index]
          /\ UNCHANGED <<suite, stage, tests, index, testFailed>>
      BY <1>3, StartItemView DEF progressVars
    <2>2. stage \in Hooks \cup {"test"} /\ stage # "begin"
      BY <1>3, StartItemView, ItemStages DEF TypeOK, Hooks
    <2>3. \A p \in 1..(L + 1) : p \in 1..L \/ p = L + 1
      BY <1>0
    <2>4. 1..L \subseteq 1..(L + 1) /\ L + 1 \notin 1..L /\ L + 1 \in 1..(L + 1)
      BY <1>0
    <2> HIDE DEF L
    <2>5. \A t : FailedAfter(t) <=> TestFailed(t)
      BY <1>0, <2>1, <2>3, <2>4 DEF FailedAfter, TestFailed
    <2>6. \A t : TestFailed(t)' <=> TestFailed(t)
      BY <2>5 DEF FailedAfter, TestFailed
    <2>7. \A p \in DOMAIN rows' : rows'[p].stage \in PerTest =>
            \E i \in 1..index : rows'[p].test = tests[i]
      <3>1. \A p \in 1..L : rows[p].stage \in PerTest => \E i \in 1..index : rows[p].test = tests[i]
        BY <1>0 DEF TestsSoFar
      <3>2. stage \in PerTest => index \in 1..index
        BY CurrentTest
      <3> QED
        BY <2>1, <2>3, <3>1, <3>2
    <2>8. RowsOf("before_all") \subseteq RowsOf("before_all")' /\
            \A p \in RowsOf("before_all") : rows'[p] = rows[p]
      BY <1>0, <2>1, <2>4 DEF RowsOf
    <2>9. CASE stage # "test"
      <3>1. RowsOf("test")' = RowsOf("test") /\ RowsOf("test") \subseteq 1..L
        BY <1>0, <2>1, <2>3, <2>4, <2>9 DEF RowsOf
      <3>2. TestsBegun' = TestsBegun
        BY <2>1, <2>9 DEF TestsBegun
      <3>3. Cardinality(RowsOf("test"))' = TestsBegun'
        BY <3>1, <3>2 DEF TestsSoFar
      <3>4. /\ \A p \in RowsOf("test")' : \E i \in 1..TestsBegun' : rows'[p].test = tests'[i]
            /\ \A i \in 1..TestsBegun' : \E p \in RowsOf("test")' : rows'[p].test = tests'[i]
            /\ \A p, q \in RowsOf("test")' : p < q => rows'[p].test < rows'[q].test
        <4>1. \A p \in RowsOf("test") : rows'[p] = rows[p]
          BY <3>1, <2>1
        <4>2. /\ \A p \in RowsOf("test") : \E i \in 1..TestsBegun : rows[p].test = tests[i]
              /\ \A i \in 1..TestsBegun : \E p \in RowsOf("test") : rows[p].test = tests[i]
              /\ \A p, q \in RowsOf("test") : p < q => rows[p].test < rows[q].test
          BY DEF TestsSoFar
        <4>3. UNCHANGED tests
          BY <2>1
        <4> QED
          BY <3>1, <3>2, <4>1, <4>2, <4>3
      <3>5. /\ stage' \in PerTest => (testFailed' <=> FailedAfter(tests'[index']))
            /\ \A i \in 1..index' : i < index' =>
                  ~(FailedAfter(tests'[i]) /\ suite'.onFailure[tests'[i]] = "ABORT")
            /\ stage' \in {"after_all", "finish", "log", "commit"} /\ index' < Len(tests') =>
                  IF index' = 0 THEN \E p \in RowsOf("before_all")' : rows'[p].status = "error"
                  ELSE FailedAfter(tests'[index']) /\ suite'.onFailure[tests'[index']] = "ABORT"
        BY <2>1, <2>5, <2>8 DEF TestsSoFar
      <3> QED
        BY <3>3, <3>4, <3>5, <2>1, <2>7 DEF TestsSoFar, TestFailed, FailedAfter
    <2>10. CASE stage = "test"
      <3>1. RowsOf("test")' = RowsOf("test") \cup {L + 1} /\ RowsOf("test") \subseteq 1..L
        BY <1>0, <2>1, <2>3, <2>4, <2>10 DEF RowsOf
      <3>2. index \in 1..Len(tests) /\ Len(tests) \in Nat
        BY <2>10, CurrentTest DEF PerTest
      <3>3. TestsBegun = index - 1 /\ TestsBegun' = index
        BY <2>1, <2>10 DEF TestsBegun
      <3>4. Cardinality(RowsOf("test"))' = TestsBegun'
        <4>1. IsFiniteSet(1..L)
          BY <1>0, FS_Interval
        <4>2. IsFiniteSet(RowsOf("test"))
          BY <3>1, <4>1, FS_Subset
        <4>3. L + 1 \notin RowsOf("test")
          BY <3>1, <2>4
        <4>4. Cardinality(RowsOf("test") \cup {L + 1}) = Cardinality(RowsOf("test")) + 1
          BY <4>2, <4>3, FS_AddElement
        <4>5. Cardinality(RowsOf("test")) = index - 1
          BY <3>3 DEF TestsSoFar
        <4>6. Cardinality(RowsOf("test"))' = Cardinality(RowsOf("test")')
          OBVIOUS
        <4>7. Cardinality(RowsOf("test")') = Cardinality(RowsOf("test") \cup {L + 1})
          BY <3>1
        <4>8. (index - 1) + 1 = index
          BY <3>2
        <4> QED
          BY <3>3, <4>4, <4>5, <4>6, <4>7, <4>8
      <3>5. \A p \in RowsOf("test") : \E i \in 1..(index - 1) : rows[p].test = tests[i]
        BY <3>3 DEF TestsSoFar
      <3>6. \A i \in 1..(index - 1) : \E p \in RowsOf("test") : rows[p].test = tests[i]
        BY <3>3 DEF TestsSoFar
      <3>7. \A i \in 1..index : i \in 1..(index - 1) \/ i = index
        BY <3>2
      <3>8. 1..(index - 1) \subseteq 1..index /\ index \in 1..index
        BY <3>2
      <3>9. \A p \in RowsOf("test") : rows'[p] = rows[p]
        BY <3>1, <2>1
      <3>10. rows'[L + 1].test = tests[index]
        BY <2>1, <2>10 DEF PerTest
      <3>11. /\ \A p \in RowsOf("test")' : \E i \in 1..index : rows'[p].test = tests[i]
             /\ \A i \in 1..index : \E p \in RowsOf("test")' : rows'[p].test = tests[i]
        BY <3>1, <3>5, <3>6, <3>7, <3>8, <3>9, <3>10
      <3>12. \A i \in 1..(index - 1) : tests[i] < tests[index]
        BY <2>2, <3>2, TestsInOrder
      <3>13. ASSUME NEW p \in RowsOf("test")', NEW q \in RowsOf("test")', p < q
             PROVE  rows'[p].test < rows'[q].test
        <4>1. p \in 1..L /\ p \in RowsOf("test")
          BY <3>1, <3>13, <1>0
        <4>2. CASE q = L + 1
          BY <4>1, <4>2, <3>5, <3>9, <3>10, <3>12
        <4>3. CASE q \in RowsOf("test")
          BY <4>1, <4>3, <3>13, <3>9 DEF TestsSoFar
        <4> QED
          BY <4>2, <4>3, <3>1
      <3>14. /\ stage' \in PerTest => (testFailed' <=> FailedAfter(tests'[index']))
             /\ \A i \in 1..index' : i < index' =>
                   ~(FailedAfter(tests'[i]) /\ suite'.onFailure[tests'[i]] = "ABORT")
             /\ stage' \notin {"after_all", "finish", "log", "commit"}
        BY <2>1, <2>5, <2>10 DEF TestsSoFar
      <3> QED
        BY <3>3, <3>4, <3>11, <3>13, <3>14, <2>1, <2>7 DEF TestsSoFar, TestFailed, FailedAfter
    <2> QED
      BY <2>9, <2>10
  <1>4. ASSUME NEW status, NEW exc, ItemOver(status, exc)
        PROVE  TestsSoFar'
    <2> DEFINE failed == status = "error"
    <2>1. /\ DOMAIN rows' = DOMAIN rows /\ L \in DOMAIN rows
          /\ \A p \in DOMAIN rows : p # L => rows'[p] = rows[p]
          /\ rows'[L].test = rows[L].test /\ rows'[L].status = status
          /\ rows'[L].stage = stage /\ rows[L].stage = stage
          /\ stage \in Hooks \cup {"test"} /\ UNCHANGED <<suite, tests>>
          /\ running /\ running' = FALSE
          /\ Follow(stage, failed, anyError \/ failed)
      BY <1>4, ItemOverView DEF ItemOver
    <2>2. rows[L].status = "running" /\ (stage \in PerTest => rows[L].test = tests[index])
      BY <2>1 DEF Place
    <2>3. \A t : FailedAfter(t) <=>
                   TestFailed(t) \/ (failed /\ stage \in PerTest /\ t = tests[index])
      BY <2>1, <2>2 DEF FailedAfter, TestFailed
    <2>4. \A p \in DOMAIN rows : rows[p].status = "error" => rows'[p].status = "error"
      BY <2>1, <2>2
    <2>5. stage = "before_all" => ~anyError
      <3>1. stage = "before_all" => L = 1
        BY <2>1 DEF Place
      <3> QED
        BY <3>1, <1>0, <2>2 DEF VerdictSoFar
    <2>6. stage = "before_all" /\ (anyError \/ failed) =>
            \E p \in DOMAIN rows : rows[p].stage = "before_all" /\ rows'[p].status = "error"
      BY <2>1, <2>5
    <2>7. \A p \in DOMAIN rows : rows'[p].stage = rows[p].stage /\ rows'[p].test = rows[p].test
      BY <2>1
    <2>8. failed \in BOOLEAN /\ ~running' /\ (stage = "test" => running)
      BY <2>1
    <2> HIDE DEF failed, L
    <2> QED
      BY <2>1, <2>3, <2>4, <2>6, <2>7, <2>8, FollowKeepsTests
  <1>5. CASE CommandEffect \/ QuietStep
    <2>1. UNCHANGED <<suite, rows, stage, running, tests, index, testFailed>>
      BY <1>5 DEF CommandEffect, QuietStep, progressVars, itemVars, rowVars
    <2> QED
      BY <2>1 DEF TestsSoFar, TestsBegun, RowsOf, TestFailed
  <1>6. CASE Finish \/ FinalLog
    <2>1. /\ stage \in {"finish", "log"} /\ stage' \in {"log", "commit"}
          /\ UNCHANGED <<suite, rows, running, tests, index>>
      BY <1>6 DEF Finish, FinalLog, itemVars, rowVars
    <2>2. TestsBegun = index /\ TestsBegun' = index'
      BY <2>1 DEF TestsBegun
    <2>3. RowsOf("test")' = RowsOf("test") /\ RowsOf("before_all")' = RowsOf("before_all")
      BY <2>1 DEF RowsOf
    <2>4. \A t : FailedAfter(t) <=> TestFailed(t)
      BY <2>1 DEF FailedAfter, TestFailed
    <2>5. stage' \notin PerTest
      BY <2>1 DEF PerTest
    <2> QED
      BY <2>1, <2>2, <2>3, <2>4, <2>5 DEF TestsSoFar, TestFailed, FailedAfter
  <1> QED
    BY <1>1, <1>2, <1>3, <1>4, <1>5, <1>6, StepKinds

-----------------------------------------------------------------------------
(* The events follow the rows.                                             *)

\* Steps that end no item publish neither of its two events.
LEMMA OtherStepsEvents ==
    ASSUME TypeOK, Place,
           (outcome = "open" /\ SkipHook) \/ StartItem \/ CommandEffect \/ Finish \/ FinalLog
             \/ QuietStep
    PROVE  AddsEvents({"item_started", "command_finished", "suite_finished", "execution_log"})
  <1> DEFINE names == {"item_started", "command_finished", "suite_finished", "execution_log"}
  <1>0. events \in Seq(Event)
    BY DEF TypeOK
  <1>1. CASE (outcome = "open" /\ SkipHook) \/ QuietStep
    BY <1>1, AddNoEvent DEF SkipHook, QuietStep
  <1>2. CASE StartItem
    <2>1. /\ DOMAIN events = 1..Len(events) /\ DOMAIN events' = 1..(Len(events) + 1)
          /\ Len(events) \in Nat
          /\ \A k \in DOMAIN events : events'[k] = events[k]
          /\ events'[Len(events) + 1].name = "item_started"
      BY <1>2, StartItemView
    <2>2. \A k \in DOMAIN events' \ DOMAIN events : k = Len(events) + 1
      BY <2>1
    <2> QED
      BY <2>1, <2>2 DEF AddsEvents
  <1>3. CASE CommandEffect
    BY <1>3 DEF CommandEffect, AddsEvents
  <1>4. CASE Finish
    <2> DEFINE e == [name |-> "suite_finished", status |-> IF anyError THEN "error" ELSE "success"]
    <2>1. events' = Append(events, e) /\ e \in Event /\ e.name = "suite_finished"
      BY <1>4 DEF Finish, Publish, Event, Statuses
    <2> HIDE DEF e
    <2>2. AddsEvents({e.name})
      BY <1>0, <2>1, AddOneEvent
    <2> QED
      BY <2>1, <2>2 DEF AddsEvents
  <1>5. CASE FinalLog
    <2> DEFINE e == [name |-> "execution_log"]
    <2>1. events' = Append(events, e) /\ e \in Event /\ e.name = "execution_log"
      BY <1>5 DEF FinalLog, Publish, Event
    <2> HIDE DEF e
    <2>2. AddsEvents({e.name})
      BY <1>0, <2>1, AddOneEvent
    <2> QED
      BY <2>1, <2>2 DEF AddsEvents
  <1> QED
    BY <1>1, <1>2, <1>3, <1>4, <1>5

\* Reading off an event after the step what it was before.
LEMMA NamedEvents ==
    ASSUME NEW names, AddsEvents(names), NEW n, n \notin names
    PROVE  /\ EventsNamed(n)' = EventsNamed(n)
           /\ \A k \in EventsNamed(n) : events'[k] = events[k]
  BY OtherNamesUnchanged DEF AddsEvents, EventsNamed

\* The first two events.
LEMMA BeginEvents ==
    ASSUME TypeOK, Place, Begin
    PROVE  /\ rows' = <<>> /\ index' = 0 /\ stage' = "before_all" /\ ~running'
           /\ DOMAIN events' = 1..2
           /\ events'[1] = [name |-> "suite_started"]
           /\ events'[2] = [name |-> "suite_progress", executed |-> 0]
  <1> DEFINE a == [name |-> "suite_started"]
             b == [name |-> "suite_progress", executed |-> 0]
  <1>1. /\ stage = "begin" /\ stage' = "before_all" /\ UNCHANGED <<rows, running, index>>
        /\ events' = events \o <<a, b>>
    BY DEF Begin, itemVars
  <1>2. events = <<>> /\ rows = <<>> /\ index = 0 /\ ~running
    BY <1>1, RunningStages DEF Place, Hooks
  <1>3. events' = <<a, b>>
    BY <1>1, <1>2
  <1> QED
    BY <1>1, <1>2, <1>3

\* Each item_finished event is that of the row closed with it.
LEMMA ItemEventsStep ==
    ASSUME TypeOK, Place, ItemEvents, [Next]_vars
    PROVE  ItemEvents'
  <1> DEFINE L == Len(rows)
             n == Len(events)
  <1>0. L \in Nat /\ DOMAIN rows = 1..L
    BY DEF TypeOK
  <1>1. CASE Begin
    <2>1. EventsNamed("item_finished")' = {}
      <3>1. \A k \in DOMAIN events' : events'[k].name # "item_finished"
        BY <1>1, BeginEvents
      <3> QED
        BY <3>1 DEF EventsNamed
    <2> QED
      BY <1>1, <2>1, BeginEvents DEF ItemEvents
  <1>2. CASE (outcome = "open" /\ SkipHook) \/ CommandEffect \/ Finish \/ FinalLog \/ QuietStep
    <2>1. /\ EventsNamed("item_finished")' = EventsNamed("item_finished")
          /\ \A k \in EventsNamed("item_finished") : events'[k] = events[k]
      BY <1>2, OtherStepsEvents, NamedEvents
    <2>2. UNCHANGED <<rows, running>>
      BY <1>2, RowsUntouched
    <2> QED
      BY <2>1, <2>2 DEF ItemEvents, Executing
  <1>3. CASE StartItem
    <2>1. /\ EventsNamed("item_finished")' = EventsNamed("item_finished")
          /\ \A k \in EventsNamed("item_finished") : events'[k] = events[k]
      BY <1>3, OtherStepsEvents, NamedEvents
    <2>2. /\ ~running /\ running' /\ Len(rows') = L + 1 /\ DOMAIN rows' = 1..(L + 1)
          /\ \A p \in 1..L : rows'[p] = rows[p]
      BY <1>3, StartItemView
    <2>3. \A p \in DOMAIN rows' : p \in 1..L \/ p = L + 1
      BY <1>0, <2>2
    <2>4. 1..L \subseteq 1..(L + 1) /\ L + 1 \notin 1..L
      BY <1>0
    <2> QED
      BY <1>0, <2>1, <2>2, <2>3, <2>4 DEF ItemEvents, Executing
  <1>4. ASSUME NEW status, NEW exc, ItemOver(status, exc)
        PROVE  ItemEvents'
    <2>1. /\ running /\ running' = FALSE /\ DOMAIN rows' = DOMAIN rows /\ L \in DOMAIN rows
          /\ \A p \in DOMAIN rows : p # L => rows'[p] = rows[p]
          /\ rows'[L].status = status
      BY <1>4, ItemOverView DEF ItemOver
    <2>2. /\ n \in Nat /\ DOMAIN events = 1..n
          /\ DOMAIN events' = 1..(IF stage = "test" THEN n + 2 ELSE n + 1)
          /\ AddsEvents({"item_finished", "suite_progress"})
          /\ events'[n + 1].name = "item_finished" /\ events'[n + 1].position = L
          /\ events'[n + 1].status = status
          /\ stage = "test" => events'[n + 2].name = "suite_progress"
      BY <1>4, ItemOverEvents
    <2>3. /\ EventsNamed("item_finished")' = EventsNamed("item_finished") \cup {n + 1}
          /\ \A k \in EventsNamed("item_finished") :
                k \in 1..n /\ events'[k] = events[k]
      BY <2>2 DEF AddsEvents, EventsNamed
    <2>4. ASSUME NEW k \in EventsNamed("item_finished")
          PROVE  /\ events[k].position \in DOMAIN rows /\ events[k].position # L
                 /\ events[k].position < L
                 /\ events[k].status = rows[events[k].position].status
      <3>1. /\ events[k].position \in DOMAIN rows /\ events[k].position # L
            /\ events[k].status = rows[events[k].position].status
        BY <2>1 DEF ItemEvents, Executing
      <3> QED
        BY <3>1, <1>0
    <2>5. \A k \in EventsNamed("item_finished")' :
             /\ events'[k].position \in DOMAIN rows'
             /\ events'[k].status = rows'[events'[k].position].status
      BY <2>1, <2>2, <2>3, <2>4
    <2>6. \A p \in DOMAIN rows' :
             \E k \in EventsNamed("item_finished")' : events'[k].position = p
      <3>1. \A p \in DOMAIN rows : p # L =>
               \E k \in EventsNamed("item_finished") : events[k].position = p
        BY DEF ItemEvents, Executing
      <3> QED
        BY <2>1, <2>2, <2>3, <3>1
    <2>7. ASSUME NEW k \in EventsNamed("item_finished")', NEW l \in EventsNamed("item_finished")',
                 k < l
          PROVE  events'[k].position < events'[l].position
      <3>1. k \in EventsNamed("item_finished")
        <4>1. CASE k = n + 1
          <5>1. l \in 1..n \/ l = n + 1
            BY <2>3
          <5> QED
            BY <5>1, <4>1, <2>2, <2>7
        <4> QED
          BY <4>1, <2>3
      <3>2. CASE l = n + 1
        BY <3>1, <3>2, <2>2, <2>3, <2>4
      <3>3. CASE l \in EventsNamed("item_finished")
        BY <3>1, <3>3, <2>3, <2>7 DEF ItemEvents
      <3> QED
        BY <3>2, <3>3, <2>3
    <2> QED
      BY <2>1, <2>5, <2>6, <2>7 DEF ItemEvents, Executing
  <1> QED
    BY <1>1, <1>2, <1>3, <1>4, StepKinds

\* Progress is reported once for every test whose own row is closed.
LEMMA ProgressEventsStep ==
    ASSUME TypeOK, Place, ProgressEvents, [Next]_vars
    PROVE  ProgressEvents'
  <1> DEFINE n == Len(events)
  <1>1. CASE Begin
    <2>1. EventsNamed("suite_progress")' = {2} /\ events'[2].executed = 0
      <3>1. DOMAIN events' = {1, 2} /\ events'[1].name = "suite_started"
            /\ events'[2].name = "suite_progress" /\ events'[2].executed = 0
        BY <1>1, BeginEvents
      <3> QED
        BY <3>1 DEF EventsNamed
    <2>2. TestsReported' = 0 /\ stage' # "begin"
      BY <1>1, BeginEvents DEF TestsReported
    <2>3. \A m \in 0..0 : m = 0
      OBVIOUS
    <2> QED
      BY <2>1, <2>2, <2>3 DEF ProgressEvents
  <1>2. ASSUME EventsNamed("suite_progress")' = EventsNamed("suite_progress"),
               \A k \in EventsNamed("suite_progress") : events'[k] = events[k],
               TestsReported' = TestsReported, stage # "begin" \/ stage' = "begin"
        PROVE  ProgressEvents'
    BY <1>2 DEF ProgressEvents
  <1>3. CASE (outcome = "open" /\ SkipHook) \/ StartItem \/ CommandEffect \/ Finish \/ FinalLog
               \/ QuietStep
    <2>1. /\ EventsNamed("suite_progress")' = EventsNamed("suite_progress")
          /\ \A k \in EventsNamed("suite_progress") : events'[k] = events[k]
      BY <1>3, OtherStepsEvents, NamedEvents
    <2>2. TestsReported' = TestsReported /\ (stage # "begin" \/ stage' = "begin")
      <3>1. CASE outcome = "open" /\ SkipHook
        <4>1. FollowEffect(stage, FALSE, anyError) /\ stage \in Hooks
          BY <3>1, FollowCases DEF SkipHook
        <4>2. index \in Nat /\ (stage = "before_all" => index = 0)
          BY CurrentTest DEF Place
        <4> QED
          BY <4>1, <4>2 DEF FollowEffect, TestsReported, Hooks
      <3>2. CASE StartItem
        BY <3>2, StartItemView DEF progressVars, TestsReported
      <3>3. CASE CommandEffect \/ QuietStep
        BY <3>3 DEF CommandEffect, QuietStep, progressVars, TestsReported
      <3>4. CASE Finish \/ FinalLog
        BY <3>4 DEF Finish, FinalLog, TestsReported
      <3> QED
        BY <1>3, <3>1, <3>2, <3>3, <3>4
    <2> QED
      BY <1>2, <2>1, <2>2
  <1>4. ASSUME NEW status, NEW exc, ItemOver(status, exc)
        PROVE  ProgressEvents'
    <2>1. /\ n \in Nat /\ DOMAIN events = 1..n
          /\ DOMAIN events' = 1..(IF stage = "test" THEN n + 2 ELSE n + 1)
          /\ AddsEvents({"item_finished", "suite_progress"})
          /\ events'[n + 1].name = "item_finished"
          /\ stage = "test" =>
                events'[n + 2].name = "suite_progress" /\ events'[n + 2].executed = index
      BY <1>4, ItemOverEvents
    <2>2. stage \in Hooks \cup {"test"} /\ FollowEffect(stage, status = "error",
                                                        anyError \/ status = "error")
      BY <1>4, ItemOverView, FollowCases
    <2>3. /\ index \in Nat /\ (stage = "before_all" => index = 0)
          /\ stage = "test" => index # 0
      BY CurrentTest DEF Place, PerTest
    <2>4. CASE stage # "test"
      <3>1. /\ EventsNamed("suite_progress")' = EventsNamed("suite_progress")
            /\ \A k \in EventsNamed("suite_progress") : events'[k] = events[k]
        BY <2>1, <2>4 DEF AddsEvents, EventsNamed
      <3>2. TestsReported' = TestsReported /\ stage # "begin"
        BY <2>2, <2>3, <2>4 DEF FollowEffect, TestsReported, Hooks
      <3> QED
        BY <1>2, <3>1, <3>2
    <2>5. CASE stage = "test"
      <3>1. /\ EventsNamed("suite_progress")' = EventsNamed("suite_progress") \cup {n + 2}
            /\ \A k \in EventsNamed("suite_progress") : k \in 1..n /\ events'[k] = events[k]
        BY <2>1, <2>5 DEF AddsEvents, EventsNamed
      <3>2. TestsReported = index - 1 /\ TestsReported' = index /\ stage' # "begin"
        BY <2>2, <2>5 DEF FollowEffect, TestsReported
      <3>3. \A m \in 0..index : m \in 0..(index - 1) \/ m = index
        BY <2>3
      <3>4. \A m \in 0..(index - 1) : m \in 0..index /\ m < index
        BY <2>3
      <3>5. \A k \in EventsNamed("suite_progress") : events[k].executed \in 0..(index - 1)
        BY <3>2 DEF ProgressEvents
      <3>6. \A m \in 0..(index - 1) : \E k \in EventsNamed("suite_progress") : events[k].executed = m
        BY <3>2, <2>5 DEF ProgressEvents
      <3>7. \A k \in EventsNamed("suite_progress")' : events'[k].executed \in 0..index
        BY <2>1, <2>3, <2>5, <3>1, <3>4, <3>5
      <3>8. \A m \in 0..index : \E k \in EventsNamed("suite_progress")' : events'[k].executed = m
        BY <2>1, <2>5, <3>1, <3>3, <3>6
      <3>9. ASSUME NEW k \in EventsNamed("suite_progress")',
                   NEW l \in EventsNamed("suite_progress")', k < l
            PROVE  events'[k].executed < events'[l].executed
        <4>1. k # n + 2
          <5>1. l \in 1..n \/ l = n + 2
            BY <3>1
          <5> QED
            BY <5>1, <2>1, <3>9
        <4>2. k \in EventsNamed("suite_progress")
          BY <3>1, <4>1
        <4>3. CASE l = n + 2
          BY <4>2, <4>3, <2>1, <2>5, <3>1, <3>4, <3>5
        <4>4. CASE l \in EventsNamed("suite_progress")
          BY <4>2, <4>4, <3>1, <3>9 DEF ProgressEvents
        <4> QED
          BY <4>3, <4>4, <3>1
      <3> QED
        BY <3>2, <3>7, <3>8, <3>9 DEF ProgressEvents
    <2> QED
      BY <2>4, <2>5
  <1> QED
    BY <1>1, <1>3, <1>4, StepKinds

\* suite_finished is published once, with the verdict.
LEMMA FinishedEventsStep ==
    ASSUME TypeOK, Place, FinishedEvents, [Next]_vars
    PROVE  FinishedEvents'
  <1>1. CASE Begin
    <2>1. \A k \in DOMAIN events' : events'[k].name # "suite_finished"
      BY <1>1, BeginEvents
    <2>2. EventsNamed("suite_finished")' = {}
      BY <2>1 DEF EventsNamed
    <2> QED
      BY <1>1, <2>2, BeginEvents DEF FinishedEvents
  <1>2. ASSUME NEW names, AddsEvents(names), "suite_finished" \notin names,
               stage \in {"log", "commit"} <=> stage' \in {"log", "commit"},
               stage \in {"log", "commit"} => UNCHANGED execution
        PROVE  FinishedEvents'
    <2>1. EventsNamed("suite_finished")' = EventsNamed("suite_finished")
      BY <1>2, NamedEvents
    <2>2. \A k \in DOMAIN events : events'[k] = events[k] /\ k \in DOMAIN events'
      BY <1>2 DEF AddsEvents
    <2> QED
      BY <1>2, <2>1, <2>2 DEF FinishedEvents
  <1>3. CASE outcome = "open" /\ SkipHook
    <2>1. AddsEvents({})
      BY <1>3, AddNoEvent DEF SkipHook
    <2>2. stage \notin {"log", "commit"} /\ stage' \notin {"log", "commit"}
      BY <1>3, FollowKeepsTurn DEF SkipHook, Hooks
    <2> QED
      BY <1>2, <2>1, <2>2
  <1>4. CASE StartItem \/ CommandEffect \/ QuietStep
    <2>1. AddsEvents({"item_started", "command_finished"})
      <3>1. CASE StartItem
        <4>1. /\ DOMAIN events = 1..Len(events) /\ DOMAIN events' = 1..(Len(events) + 1)
              /\ Len(events) \in Nat
              /\ \A k \in DOMAIN events : events'[k] = events[k]
              /\ events'[Len(events) + 1].name = "item_started"
          BY <3>1, StartItemView
        <4>2. \A k \in DOMAIN events' \ DOMAIN events : k = Len(events) + 1
          BY <4>1
        <4> QED
          BY <4>1, <4>2 DEF AddsEvents
      <3>2. CASE CommandEffect
        BY <3>2 DEF CommandEffect, AddsEvents
      <3>3. CASE QuietStep
        BY <3>3, AddNoEvent DEF QuietStep
      <3> QED
        BY <1>4, <3>1, <3>2, <3>3
    <2>2. UNCHANGED <<stage, execution>>
      BY <1>4, StartItemView DEF CommandEffect, QuietStep, progressVars, rowVars
    <2> QED
      BY <1>2, <2>1, <2>2
  <1>5. ASSUME NEW status, NEW exc, ItemOver(status, exc)
        PROVE  FinishedEvents'
    <2>1. AddsEvents({"item_finished", "suite_progress"})
      BY <1>5, ItemOverEvents
    <2>2. stage \notin {"log", "commit"} /\ stage' \notin {"log", "commit"}
      BY <1>5, ItemOverView, FollowKeepsTurn DEF Hooks
    <2> QED
      BY <1>2, <2>1, <2>2
  <1>6. CASE Finish
    <2> DEFINE st == IF anyError THEN "error" ELSE "success"
               e == [name |-> "suite_finished", status |-> st]
               n == Len(events)
    <2>1. /\ stage = "finish" /\ stage' = "log" /\ execution'.status = st
          /\ events' = Append(events, e)
      BY <1>6 DEF Finish, Publish
    <2>2. e \in Event /\ events \in Seq(Event)
      BY DEF Event, Statuses, TypeOK
    <2>3. /\ AddsEvents({e.name}) /\ n \in Nat /\ DOMAIN events = 1..n
          /\ DOMAIN events' = 1..(n + 1) /\ events'[n + 1] = e
      BY <2>1, <2>2, AddOneEvent
    <2>4. EventsNamed("suite_finished") = {}
      BY <2>1 DEF FinishedEvents
    <2>5. EventsNamed("suite_finished")' = {n + 1}
      BY <2>3, <2>4 DEF EventsNamed, AddsEvents
    <2> QED
      BY <2>1, <2>3, <2>5 DEF FinishedEvents
  <1>7. CASE FinalLog
    <2> DEFINE e == [name |-> "execution_log"]
    <2>1. /\ stage = "log" /\ stage' = "commit" /\ UNCHANGED execution
          /\ events' = Append(events, e)
      BY <1>7 DEF FinalLog, Publish, rowVars
    <2>2. e \in Event /\ events \in Seq(Event)
      BY DEF Event, TypeOK
    <2>3. AddsEvents({e.name}) /\ "suite_finished" \notin {e.name}
      BY <2>1, <2>2, AddOneEvent
    <2> QED
      BY <1>2, <2>1, <2>3
  <1> QED
    BY <1>1, <1>3, <1>4, <1>5, <1>6, <1>7, StepKinds

-----------------------------------------------------------------------------
(* The theorems.                                                           *)

LEMMA InitIInv ==
    ASSUME Init
    PROVE  IInv
  <1>1. TypeOK
    <2>1. /\ suite \in Suites /\ tests = <<>> /\ stage = "begin" /\ index = 0
          /\ running = FALSE /\ raised = "none" /\ commands = 0
          /\ testFailed = FALSE /\ anyError = FALSE /\ firstError = 0 /\ local = {}
          /\ execution = [status |-> "none", error |-> 0]
          /\ rows = <<>> /\ commandRows = <<>> /\ events = <<>> /\ outcome = "open"
      BY DEF Init, NoExecution
    <2>2. /\ tests \in Seq(1..MaxTests) /\ index \in 0..Len(tests)
          /\ rows \in Seq(RowType) /\ Len(rows) = 0
          /\ commandRows \in Seq(CommandRowType) /\ events \in Seq(Event)
      BY <2>1
    <2>3. /\ commands \in 0..MaxCommands /\ firstError \in 0..Len(rows)
          /\ execution \in [status : Statuses \cup {"none"}, error : 0..Len(rows)]
      BY <2>1, <2>2, ExecutorAssumption
    <2> QED
      BY <2>1, <2>2, <2>3 DEF TypeOK, Stages, RowType, CommandRowType
  <1>2. Place /\ VerdictSoFar /\ OpenCommands /\ HooksSoFar /\ LocalsSoFar
    BY DEF Init, Place, VerdictSoFar, OpenCommands, HooksSoFar, LocalsSoFar, PerTest
  <1>3. TestsSoFar
    <2>1. RowsOf("test") = {} /\ index = 0 /\ stage = "begin" /\ rows = <<>>
      BY DEF Init, RowsOf
    <2>2. Cardinality(RowsOf("test")) = 0
      BY <2>1, FS_EmptySet
    <2> QED
      BY <2>1, <2>2 DEF TestsSoFar, TestsBegun, PerTest
  <1>4. ItemEvents /\ ProgressEvents /\ FinishedEvents
    BY DEF Init, ItemEvents, ProgressEvents, FinishedEvents, EventsNamed
  <1> QED
    BY <1>1, <1>2, <1>3, <1>4 DEF IInv

LEMMA NextIInv ==
    ASSUME IInv, [Next]_vars
    PROVE  IInv'
  BY TypeStep, PlaceStep, VerdictStep, OpenCommandsStep, HooksStep, TestsStep,
     ItemEventsStep, ProgressEventsStep, FinishedEventsStep, LocalsStep DEF IInv

(* The invariant the properties of a run rest on: it relates the stage,    *)
(* the rows inserted so far, the flags of _execute and what was published. *)
THEOREM InductiveInvariant == Spec => []IInv
  <1>1. Init => IInv
    BY InitIInv
  <1>2. IInv /\ [Next]_vars => IInv'
    BY NextIInv
  <1> QED
    BY <1>1, <1>2, PTL DEF Spec

\* The variables of a run keep their shape.
THEOREM TypeCorrect == Spec => []TypeOK
  <1>1. IInv => TypeOK
    BY DEF IInv
  <1> QED
    BY <1>1, InductiveInvariant, PTL

\* When the run commits nothing is in execution any more.
LEMMA CommittedPlace ==
    ASSUME IInv, Committed
    PROVE  /\ stage = "commit" /\ ~running
           /\ Len(rows) \in Nat /\ DOMAIN rows = 1..Len(rows)
           /\ \A p \in DOMAIN rows : ItemClosed(p)
           /\ Exceptions \subseteq {"empty", "text"}
  <1>1. stage = "commit"
    BY DEF IInv, Place, Committed
  <1>2. ~running
    BY <1>1, RunningStages DEF IInv, Hooks
  <1>3. Len(rows) \in Nat /\ DOMAIN rows = 1..Len(rows)
    BY DEF IInv, TypeOK
  <1> QED
    BY <1>1, <1>2, <1>3, ExecutorAssumption DEF IInv, Place, Executing

(* The stored verdict is an error exactly if an item failed, with the      *)
(* message of the earliest item whose message is not empty.                *)
THEOREM VerdictIsThatOfTheItems == Spec => []VerdictMatchesItems
  <1>1. ASSUME IInv
        PROVE  VerdictMatchesItems
    <2>1. SUFFICES ASSUME Committed
                   PROVE  /\ execution.status = IF Failed = {} THEN "success" ELSE "error"
                          /\ IF \E p \in Failed : rows[p].error = "text"
                               THEN /\ execution.error \in Failed
                                    /\ rows[execution.error].error = "text"
                                    /\ \A p \in Failed :
                                          p < execution.error => rows[p].error = "empty"
                               ELSE execution.error = 0
      BY DEF VerdictMatchesItems
    <2>2. /\ \A p \in DOMAIN rows : ItemClosed(p)
          /\ Exceptions \subseteq {"empty", "text"} /\ DOMAIN rows \subseteq Nat
      BY <1>1, <2>1, CommittedPlace
    <2>3. /\ execution.status = IF anyError THEN "error" ELSE "success"
          /\ execution.error = firstError
          /\ anyError <=> Failed # {}
          /\ \A p \in DOMAIN rows : rows[p].error = "text" => firstError # 0 /\ firstError <= p
          /\ firstError # 0 => firstError \in DOMAIN rows /\ rows[firstError].error = "text"
          /\ firstError \in Nat
      <3>1. VerdictSoFar /\ stage = "commit" /\ firstError \in Nat
        BY <1>1, <2>1, CommittedPlace DEF IInv, TypeOK
      <3> QED
        BY <3>1 DEF VerdictSoFar, Failed
    <2>4. \A p \in DOMAIN rows : /\ rows[p].error = "text" => p \in Failed
                                 /\ p \in Failed => rows[p].error \in {"empty", "text"}
      BY <2>2 DEF ItemClosed, Failed
    <2>5. Failed \subseteq DOMAIN rows
      BY DEF Failed
    <2>6. CASE \E p \in Failed : rows[p].error = "text"
      <3>1. firstError # 0
        BY <2>3, <2>5, <2>6
      <3>2. ASSUME NEW p \in Failed, p < firstError
            PROVE  rows[p].error = "empty"
        <4>1. p \in Nat /\ p \in DOMAIN rows /\ ~(firstError <= p)
          BY <2>2, <2>3, <2>5, <3>2
        <4> QED
          BY <2>3, <2>4, <3>2, <4>1
      <3> QED
        BY <2>3, <2>4, <2>6, <3>1, <3>2
    <2>7. CASE ~\E p \in Failed : rows[p].error = "text"
      BY <2>3, <2>4, <2>7
    <2> QED
      BY <2>6, <2>7
  <1> QED
    BY <1>1, InductiveInvariant, PTL

(* What is stored is finished, but for a command row whose configuration   *)
(* could not be converted.                                                 *)
THEOREM StoredRunsAreClosed == Spec => []StoredRowsAreClosed
  <1>1. ASSUME IInv
        PROVE  StoredRowsAreClosed
    <2>1. SUFFICES ASSUME Committed
                   PROVE  /\ \A p \in DOMAIN rows : rows[p].status # "running"
                          /\ \A c \in DOMAIN commandRows : commandRows[c].status = "running" =>
                                /\ commandRows[c].item \in Failed
                                /\ \A d \in DOMAIN commandRows :
                                      commandRows[d].item = commandRows[c].item => d <= c
      BY DEF StoredRowsAreClosed
    <2>2. ~running /\ \A p \in DOMAIN rows : ItemClosed(p)
      BY <1>1, <2>1, CommittedPlace
    <2>3. \A c \in DOMAIN commandRows : commandRows[c].item \in DOMAIN rows
      <3>1. commandRows \in Seq(CommandRowType) /\ DOMAIN rows = 1..Len(rows)
        BY <1>1 DEF IInv, TypeOK, CommandRowType
      <3>2. \A c \in DOMAIN commandRows : commandRows[c] \in CommandRowType
        BY <3>1, ElementFacts
      <3> QED
        BY <3>1, <3>2 DEF CommandRowType
    <2> QED
      BY <1>1, <2>2, <2>3 DEF IInv, OpenCommands, Executing, ItemClosed, Failed
  <1> QED
    BY <1>1, InductiveInvariant, PTL

\* Every test runs between its hooks, and after_all closes every stored run.
THEOREM HooksSurroundTests == Spec => []HooksBracketTests
  <1>1. ASSUME IInv
        PROVE  HooksBracketTests
    <2>0. Len(rows) \in Nat /\ DOMAIN rows = 1..Len(rows)
      BY <1>1 DEF IInv, TypeOK
    <2>1. ASSUME NEW p \in RowsOf("test")
          PROVE  /\ "before_each" \in suite.hooks =>
                       /\ p > 1
                       /\ rows[p - 1].stage = "before_each" /\ rows[p - 1].test = rows[p].test
                 /\ "after_each" \in suite.hooks /\ (Committed \/ p < Len(rows)) =>
                       /\ p < Len(rows)
                       /\ rows[p + 1].stage = "after_each" /\ rows[p + 1].test = rows[p].test
      <3>1. p \in DOMAIN rows /\ rows[p].stage = "test" /\ HooksSoFar
        BY <1>1 DEF RowsOf, IInv
      <3>2. ASSUME Committed, "after_each" \in suite.hooks
            PROVE  p < Len(rows)
        <4>1. stage = "commit" /\ ~running
          BY <1>1, <3>2, CommittedPlace
        <4>2. p # Len(rows)
          BY <3>1, <3>2, <4>1, <2>0 DEF HooksSoFar
        <4>3. p \in 1..Len(rows) /\ Len(rows) \in Nat
          BY <3>1, <2>0
        <4> QED
          BY <4>2, <4>3
      <3> QED
        BY <3>1, <3>2 DEF HooksSoFar
    <2>2. ASSUME Committed, "after_all" \in suite.hooks
          PROVE  rows[Len(rows)].stage = "after_all"
      BY <1>1, <2>2, CommittedPlace DEF IInv, HooksSoFar
    <2> QED
      BY <2>1, <2>2 DEF HooksBracketTests
  <1> QED
    BY <1>1, InductiveInvariant, PTL

(* The tests that ran are the requested ones up to the point where the run *)
(* gives up.                                                               *)
THEOREM RunsTheRequestedTests == Spec => []RequestedTestsRun
  <1>1. ASSUME IInv
        PROVE  RequestedTestsRun
    <2>1. SUFFICES ASSUME Committed
                   PROVE  RequestedTestsRun
      BY DEF RequestedTestsRun
    <2> DEFINE ran == Cardinality(RowsOf("test"))
               failedTests == {rows[p].test : p \in {q \in Failed : rows[q].stage \in PerTest}}
               aborts(t) == t \in failedTests /\ suite.onFailure[t] = "ABORT"
    <2>2. stage = "commit" /\ TestsSoFar
      BY <1>1, <2>1, CommittedPlace DEF IInv
    <2>3. ran = index /\ TestsBegun = index
      BY <2>2 DEF TestsSoFar, TestsBegun
    <2>4. Len(tests) \in Nat /\ index \in 0..Len(tests)
      BY <1>1 DEF IInv, TypeOK
    <2>5. \A t : aborts(t) <=> TestFailed(t) /\ suite.onFailure[t] = "ABORT"
      BY DEF Failed, TestFailed
    <2>6. {rows[p].test : p \in RowsOf("test")} = {tests[i] : i \in 1..index}
      BY <2>2, <2>3 DEF TestsSoFar
    <2>7. \A p, q \in RowsOf("test") : p < q => rows[p].test < rows[q].test
      BY <2>2 DEF TestsSoFar
    <2> HIDE DEF ran, aborts
    <2>8. \A i \in 1..index : i < index => ~aborts(tests[i])
      BY <2>2, <2>5 DEF TestsSoFar
    <2>9. index < Len(tests) => IF index = 0 THEN RowsOf("before_all") \cap Failed # {}
                                             ELSE aborts(tests[index])
      <3>1. ASSUME NEW p \in RowsOf("before_all"), rows[p].status = "error"
            PROVE  p \in RowsOf("before_all") \cap Failed
        BY <3>1 DEF RowsOf, Failed
      <3> QED
        BY <2>2, <2>5, <3>1 DEF TestsSoFar
    <2>10. /\ ran <= Len(tests)
           /\ {rows[p].test : p \in RowsOf("test")} = {tests[i] : i \in 1..ran}
           /\ \A p, q \in RowsOf("test") : p < q => rows[p].test < rows[q].test
           /\ \A i \in 1..ran : i < ran => ~aborts(tests[i])
           /\ ran < Len(tests) => IF ran = 0 THEN RowsOf("before_all") \cap Failed # {}
                                            ELSE aborts(tests[ran])
      <3>1. ran <= Len(tests)
        BY <2>3, <2>4
      <3> QED
        BY <2>3, <2>6, <2>7, <2>8, <2>9, <3>1
    <2> QED
      BY <2>10, Zenon DEF RequestedTestsRun, ran, aborts
  <1> QED
    BY <1>1, InductiveInvariant, PTL

(* A client that reads all events of a stored run knows its items, its     *)
(* tests and its verdict.                                                  *)
THEOREM EventsTellTheStore == Spec => []EventsMatchStore
  <1>1. ASSUME IInv
        PROVE  EventsMatchStore
    <2>1. SUFFICES ASSUME Committed
                   PROVE  EventsMatchStore
      BY DEF EventsMatchStore
    <2>2. stage = "commit" /\ ~running
      BY <1>1, <2>1, CommittedPlace
    <2>3. ItemEvents /\ ProgressEvents /\ FinishedEvents /\ TestsSoFar
      BY <1>1 DEF IInv
    <2>4. TestsReported = index /\ Cardinality(RowsOf("test")) = index
      BY <2>2, <2>3 DEF TestsReported, TestsSoFar, TestsBegun
    <2>5. {events[k].position : k \in EventsNamed("item_finished")} = DOMAIN rows
      BY <2>2, <2>3 DEF ItemEvents, Executing
    <2>6. {events[k].executed : k \in EventsNamed("suite_progress")} = 0..index
      BY <2>2, <2>3, <2>4 DEF ProgressEvents
    <2>7. \E k \in DOMAIN events : /\ EventsNamed("suite_finished") = {k}
                                   /\ events[k].status = execution.status
      BY <2>2, <2>3 DEF FinishedEvents
    <2> QED
      BY <2>3, <2>4, <2>5, <2>6, <2>7 DEF EventsMatchStore, ItemEvents, ProgressEvents
  <1> QED
    BY <1>1, InductiveInvariant, PTL

\* An item sees local constants of its own test only.
THEOREM LocalConstantsAreLocal == Spec => []LocalConstantsStayLocal
  <1>1. ASSUME IInv
        PROVE  LocalConstantsStayLocal
    <2>1. SUFFICES ASSUME running, NEW p \in local
                   PROVE  /\ rows[p].test = rows[Len(rows)].test
                          /\ rows[Len(rows)].stage \notin PerTest => p = Len(rows)
      BY DEF LocalConstantsStayLocal, Position
    <2>2. stage \in Hooks \cup {"test"} /\ rows[Len(rows)].stage = stage
      BY <1>1, <2>1, RunningStages DEF IInv, Place
    <2>3. stage \in PerTest => rows[Len(rows)].test = tests[index]
      BY <1>1, <2>1 DEF IInv, Place
    <2> QED
      BY <1>1, <2>1, <2>2, <2>3 DEF IInv, LocalsSoFar, Executing, Hooks, PerTest
  <1> QED
    BY <1>1, InductiveInvariant, PTL
=============================================================================
