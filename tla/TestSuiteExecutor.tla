------------------------- MODULE TestSuiteExecutor -------------------------
(***************************************************************************)
(* One run of a test suite: the thread TestSuiteExecutorThread and the     *)
(* function _execute it calls                                              *)
(* (app/elaborations/services/test_suites/test_suite_executor_thread.py),  *)
(* down to the commands of each item                                       *)
(* (app/elaborations/services/operations/command_executor_composite.py).   *)
(*                                                                         *)
(* The whole run is one database transaction: every row it inserts or      *)
(* updates becomes visible when managed_session commits at the end, or     *)
(* never.  Events are published as the run goes and cannot be taken back.  *)
(*                                                                         *)
(* A test is its place in the suite's list.  An item row is identified by  *)
(* its position (execution_position), its index in the sequence rows.  An  *)
(* error message is reduced to whether it is the empty string, which the   *)
(* code's "if not first_error_message" takes for no error.                 *)
(***************************************************************************)
EXTENDS Naturals, Sequences, FiniteSets

CONSTANTS
    MaxTests,     \* bound: tests of a suite
    MaxCommands,  \* bound: commands of an item
    HookSets,     \* the sets of hooks a suite may define
    Exceptions    \* exceptions by their text: str(exc) is "empty" or a "text"

Hooks == {"before_all", "before_each", "after_each", "after_all"}

ASSUME ExecutorAssumption == /\ MaxTests \in Nat /\ MaxCommands \in Nat
                             /\ HookSets \subseteq SUBSET Hooks
                             /\ Exceptions \subseteq {"empty", "text"}

VARIABLES
    suite,        \* the stored suite and the request: hooks, on_failure, target
    tests,        \* the tests to execute
    stage,        \* the part of _execute that is reached
    index,        \* the turn of the loop over tests
    running,      \* an item is being executed
    raised,       \* the exception that is propagating inside the item
    commands,     \* commands the current item has started
    testFailed,   \* test_failed
    anyError,     \* any_error
    firstError,   \* position whose message is first_error_message, 0 if empty
    local,        \* positions that wrote the local constants in force
    execution,    \* the execution row
    rows,         \* the item rows, by position
    commandRows,  \* the command rows
    events,       \* what was published
    outcome       \* "open", "committed" or "rolledback"

progressVars == <<tests, stage, index, testFailed, anyError, firstError>>
itemVars == <<running, raised, commands, local>>
rowVars == <<execution, rows, commandRows>>
vars == <<suite, progressVars, itemVars, rowVars, events, outcome>>

-----------------------------------------------------------------------------

\* The stages of one turn of the loop over tests.
PerTest == {"before_each", "test", "after_each"}

Stages == Hooks \cup {"begin", "test", "finish", "log", "commit"}

Statuses == {"running", "success", "error"}

Suites == UNION {[hooks : HookSets, onFailure : [1..n -> {"ABORT", "CONTINUE"}],
                  target : 0..(n + 1)] : n \in 0..MaxTests}

NoExecution == [status |-> "none", error |-> 0]

\* The items _execute_item is called with.
HasItem(st) == st = "test" \/ st \in suite.hooks

\* Mutant: places counted from zero.
ResolveTestsFromZero(s) == IF s.target = 0 THEN [i \in 1..Len(s.onFailure) |-> i - 1]
                                           ELSE <<s.target - 1>>

\* _resolve_tests_to_execute: no target means all the tests of the suite.
ResolveTests(s) == IF s.target = 0 THEN [i \in 1..Len(s.onFailure) |-> i]
                                   ELSE <<s.target>>

Publish(e) == events' = Append(events, e)

-----------------------------------------------------------------------------

Init ==
    /\ suite \in Suites
    /\ tests = <<>>
    /\ stage = "begin"
    /\ index = 0
    /\ running = FALSE
    /\ raised = "none"
    /\ commands = 0
    /\ testFailed = FALSE
    /\ anyError = FALSE
    /\ firstError = 0
    /\ local = {}
    /\ execution = NoExecution
    /\ rows = <<>>
    /\ commandRows = <<>>
    /\ events = <<>>
    /\ outcome = "open"

\* _execute up to the first hook: the execution row, the tests, the first two
\* events.
Begin ==
    /\ outcome = "open" /\ stage = "begin"
    /\ suite.target <= Len(suite.onFailure)
    /\ execution' = [status |-> "running", error |-> 0]
    /\ tests' = ResolveTests(suite)
    /\ events' = events \o <<[name |-> "suite_started"],
                             [name |-> "suite_progress", executed |-> 0]>>
    /\ stage' = "before_all"
    /\ UNCHANGED <<suite, index, testFailed, anyError, firstError, itemVars,
                   rows, commandRows, outcome>>

\* The requested test is not one of the suite: the exception leaves _execute.
TargetMissing ==
    /\ outcome = "open" /\ stage = "begin"
    /\ suite.target > Len(suite.onFailure)
    /\ outcome' = "rolledback"
    /\ UNCHANGED <<suite, progressVars, itemVars, rowVars, events>>

-----------------------------------------------------------------------------
(* The order of the items.  EnterTest is the head of the loop over tests:  *)
(* a fresh local_context, test_failed = False.                             *)

\* Mutant: the local constants of the previous test stay in force.
EnterTestDirty(i) ==
    /\ index' = i
    /\ stage' = "before_each"
    /\ testFailed' = FALSE
    /\ UNCHANGED local

EnterTest(i) ==
    /\ index' = i
    /\ stage' = "before_each"
    /\ testFailed' = FALSE
    /\ local' = {}

\* after_all gets local constants of its own.
EnterAfterAll ==
    /\ stage' = "after_all"
    /\ local' = {}
    /\ UNCHANGED <<index, testFailed>>

\* Mutant: a failure skips the rest of the test's turn.
NextInTestFailFast(st, failed) == IF failed THEN "after_all"
                                  ELSE IF st = "test" THEN "after_each" ELSE "test"

\* A failure does not keep the test from running, nor its after_each.
NextInTest(st, failed) == IF st = "test" THEN "after_each" ELSE "test"

\* Mutant: every failure ends the loop.
GivesUpAlways(failed) == failed

\* if test_failed and on_failure == ABORT: break
GivesUp(failed) == failed /\ suite.onFailure[tests[index]] = "ABORT"

\* What follows the stage st; failed says that its item, if any, failed, and
\* error is the resulting any_error.
Follow(st, failed, error) ==
    CASE st = "before_all" ->
           IF error \/ tests = <<>> THEN EnterAfterAll ELSE EnterTest(1)
      [] st \in {"before_each", "test"} ->
           /\ stage' = NextInTest(st, failed)
           /\ testFailed' = (testFailed \/ failed)
           /\ UNCHANGED <<index, local>>
      [] st = "after_each" ->
           IF index = Len(tests) \/ GivesUp(testFailed \/ failed)
             THEN EnterAfterAll ELSE EnterTest(index + 1)
      [] st = "after_all" ->
           /\ stage' = "finish"
           /\ UNCHANGED <<index, testFailed, local>>

\* Mutant: a suite without after_all never gets past it.
SkipHookButLast ==
    /\ outcome = "open" /\ stage \in Hooks \ {"after_all"} /\ ~HasItem(stage)
    /\ Follow(stage, FALSE, anyError)
    /\ UNCHANGED <<suite, tests, anyError, firstError, running, raised, commands,
                   rowVars, events, outcome>>

\* if hook: ... is false
SkipHook ==
    /\ outcome = "open" /\ stage \in Hooks /\ ~HasItem(stage)
    /\ Follow(stage, FALSE, anyError)
    /\ UNCHANGED <<suite, tests, anyError, firstError, running, raised, commands,
                   rowVars, events, outcome>>

-----------------------------------------------------------------------------
(* _execute_item and execute_operations.                                   *)

Position == Len(rows)

\* _create_item_execution and the started event.
StartItem ==
    /\ outcome = "open" /\ ~running /\ HasItem(stage)
    /\ running' = TRUE /\ raised' = "none" /\ commands' = 0
    /\ rows' = Append(rows, [stage |-> stage, status |-> "running", error |-> "none",
                             test |-> IF stage \in PerTest THEN tests[index] ELSE 0])
    /\ Publish([name |-> "item_started", position |-> Position + 1])
    /\ UNCHANGED <<suite, progressVars, local, execution, commandRows, outcome>>

InItem == outcome = "open" /\ running /\ raised = "none"

CommandOpen == \E c \in DOMAIN commandRows :
                   commandRows[c].item = Position /\ commandRows[c].status = "running"

\* One turn of execute_operations begins: the command row.
StartCommand ==
    /\ InItem /\ ~CommandOpen /\ commands < MaxCommands
    /\ commands' = commands + 1
    /\ commandRows' = Append(commandRows, [item |-> Position, status |-> "running"])
    /\ UNCHANGED <<suite, progressVars, running, raised, local, execution, rows,
                   events, outcome>>

CloseCommand(status) ==
    /\ commandRows' = [commandRows EXCEPT ![Len(commandRows)].status = status]
    /\ Publish([name |-> "command_finished", position |-> Position, status |-> status])

\* The command succeeds; it may have written a local constant.
CommandSucceeds(writes) ==
    /\ InItem /\ CommandOpen
    /\ CloseCommand("success")
    /\ local' = IF writes THEN local \cup {Position} ELSE local
    /\ UNCHANGED <<suite, progressVars, running, raised, commands, execution, rows, outcome>>

\* The policy check or the executor raises: the row is closed, the exception
\* goes on.
CommandFails(exc) ==
    /\ InItem /\ CommandOpen
    /\ CloseCommand("error")
    /\ raised' = exc
    /\ UNCHANGED <<suite, progressVars, running, commands, local, execution, rows, outcome>>

\* convert_to_config_command_type raises, outside the try: the row stays open.
ConversionFails(exc) ==
    /\ InItem /\ CommandOpen
    /\ raised' = exc
    /\ UNCHANGED <<suite, progressVars, running, commands, local, rowVars, events, outcome>>

\* The log entry execute_operations starts with cannot be stored.
StartLogFails(exc) ==
    /\ InItem /\ commands = 0
    /\ raised' = exc
    /\ UNCHANGED <<suite, progressVars, running, commands, local, rowVars, events, outcome>>

\* Mutant: only a successful item updates its row.
CloseItemOnSuccess(status, exc) ==
    rows' = IF status = "success" THEN [rows EXCEPT ![Position].status = status] ELSE rows

\* item_execution_service.update
CloseItem(status, exc) ==
    rows' = [rows EXCEPT ![Position].status = status, ![Position].error = exc]

\* Mutant: the last message wins.
LastMessage(exc) == IF exc = "text" THEN Position ELSE firstError

\* if not first_error_message: first_error_message = result["error"]
FirstMessage(exc) == IF firstError = 0 /\ exc = "text" THEN Position ELSE firstError

\* Mutant: progress is reported after every item of the turn.
ProgressOfItems == IF stage \in PerTest
                     THEN <<[name |-> "suite_progress", executed |-> index]>> ELSE <<>>

\* Progress is reported after the test itself; executed_tests is then index.
Progress == IF stage = "test"
              THEN <<[name |-> "suite_progress", executed |-> index]>> ELSE <<>>

\* The rest of _execute_item and what _execute does with its result.
ItemDone(status, exc) ==
    /\ running' = FALSE
    /\ raised' = "none"
    /\ CloseItem(status, exc)
    /\ events' = events \o
         <<[name |-> "item_finished", position |-> Position, status |-> status]>> \o Progress
    /\ anyError' = (anyError \/ status = "error")
    /\ firstError' = FirstMessage(exc)
    /\ Follow(stage, status = "error", anyError \/ status = "error")
    /\ UNCHANGED <<suite, tests, commands, execution, commandRows, outcome>>

ItemSucceeds == InItem /\ ~CommandOpen /\ ItemDone("success", "none")

ItemFails == outcome = "open" /\ running /\ raised # "none" /\ ItemDone("error", raised)

-----------------------------------------------------------------------------

\* The final update of the execution row and suite_finished.
Finish ==
    /\ outcome = "open" /\ stage = "finish"
    /\ execution' = [status |-> IF anyError THEN "error" ELSE "success",
                     error |-> firstError]
    /\ Publish([name |-> "suite_finished", status |-> IF anyError THEN "error" ELSE "success"])
    /\ stage' = "log"
    /\ UNCHANGED <<suite, tests, index, testFailed, anyError, firstError, itemVars,
                   rows, commandRows, outcome>>

\* The log entry of the finished run, in a session of its own.
FinalLog ==
    /\ outcome = "open" /\ stage = "log"
    /\ Publish([name |-> "execution_log"])
    /\ stage' = "commit"
    /\ UNCHANGED <<suite, tests, index, testFailed, anyError, firstError, itemVars,
                   rowVars, outcome>>

\* managed_session commits when the with block ends normally.
Commit ==
    /\ outcome = "open" /\ stage = "commit"
    /\ outcome' = "committed"
    /\ UNCHANGED <<suite, progressVars, itemVars, rowVars, events>>

(* An exception leaves _execute, at any point: a statement of the run's    *)
(* session fails (the session is then unusable, so the except clause of    *)
(* _execute_item fails in turn), the final log cannot be stored, the       *)
(* commit fails or the process ends.                                       *)
RollBack ==
    /\ outcome = "open"
    /\ outcome' = "rolledback"
    /\ UNCHANGED <<suite, progressVars, itemVars, rowVars, events>>

RunStep ==
    \/ Begin
    \/ TargetMissing
    \/ SkipHook
    \/ StartItem
    \/ StartCommand
    \/ \E w \in BOOLEAN : CommandSucceeds(w)
    \/ \E x \in Exceptions : CommandFails(x)
    \/ \E x \in Exceptions : ConversionFails(x)
    \/ \E x \in Exceptions : StartLogFails(x)
    \/ ItemSucceeds
    \/ ItemFails
    \/ Finish
    \/ FinalLog
    \/ Commit

Next == RunStep \/ RollBack

(* The thread runs on as long as its process lives, and every command      *)
(* returns: requests, queries and receive loops have time limits.          *)
Spec == Init /\ [][Next]_vars /\ WF_vars(RunStep)

-----------------------------------------------------------------------------

Event == [name : {"suite_started", "execution_log"}]
           \cup [name : {"suite_progress"}, executed : 0..MaxTests]
           \cup [name : {"item_started"}, position : Nat]
           \cup [name : {"item_finished", "command_finished"}, position : Nat,
                 status : Statuses]
           \cup [name : {"suite_finished"}, status : Statuses]

\* Every variable of the run has the shape the code gives it.
TypeOK ==
    /\ suite \in Suites
    /\ tests \in Seq(1..MaxTests)
    /\ stage \in Stages
    /\ index \in 0..Len(tests)
    /\ running \in BOOLEAN
    /\ raised \in Exceptions \cup {"none"}
    /\ commands \in 0..MaxCommands
    /\ testFailed \in BOOLEAN
    /\ anyError \in BOOLEAN
    /\ firstError \in 0..Len(rows)
    /\ local \in SUBSET (1..Len(rows))
    /\ execution \in [status : Statuses \cup {"none"}, error : 0..Len(rows)]
    /\ rows \in Seq([stage : Stages, status : Statuses, error : Exceptions \cup {"none"},
                     test : 0..MaxTests])
    /\ commandRows \in Seq([item : 1..Len(rows), status : Statuses])
    /\ events \in Seq(Event)
    /\ outcome \in {"open", "committed", "rolledback"}

Committed == outcome = "committed"

RowsOf(st) == {p \in DOMAIN rows : rows[p].stage = st}

Failed == {p \in DOMAIN rows : rows[p].status = "error"}

EventsNamed(name) == {k \in DOMAIN events : events[k].name = name}

(* The stored verdict is that of the items, over all hooks and tests: an   *)
(* error exactly if some item failed, with the message of the earliest     *)
(* item whose message is not empty (any_error and first_error_message of   *)
(* _execute, through five places that update them).                        *)
VerdictMatchesItems ==
    Committed =>
        /\ execution.status = IF Failed = {} THEN "success" ELSE "error"
        /\ IF \E p \in Failed : rows[p].error = "text"
             THEN /\ execution.error \in Failed
                  /\ rows[execution.error].error = "text"
                  /\ \A p \in Failed : p < execution.error => rows[p].error = "empty"
             ELSE execution.error = 0

(* What is stored is finished: no item row is left running, and a command  *)
(* row is left running only for a command whose configuration could not be *)
(* converted, which fails its item and is its last command.                *)
StoredRowsAreClosed ==
    Committed =>
        /\ \A p \in DOMAIN rows : rows[p].status # "running"
        /\ \A c \in DOMAIN commandRows : commandRows[c].status = "running" =>
              /\ commandRows[c].item \in Failed
              /\ \A d \in DOMAIN commandRows :
                    commandRows[d].item = commandRows[c].item => d <= c

(* Every test runs between its before_each and its after_each, whether or  *)
(* not one of the three fails, and after_all closes every stored run.      *)
HooksBracketTests ==
    /\ \A p \in RowsOf("test") :
          /\ "before_each" \in suite.hooks =>
                /\ p > 1
                /\ rows[p - 1].stage = "before_each" /\ rows[p - 1].test = rows[p].test
          /\ "after_each" \in suite.hooks /\ (Committed \/ p < Len(rows)) =>
                /\ p < Len(rows)
                /\ rows[p + 1].stage = "after_each" /\ rows[p + 1].test = rows[p].test
    /\ Committed /\ "after_all" \in suite.hooks => rows[Len(rows)].stage = "after_all"

(* The tests that ran are the requested ones, each once and in the order   *)
(* of the suite (a test is its place in it), up to the point where the     *)
(* run gives up: before the first if before_all failed, after a test that  *)
(* is set to ABORT and failed itself or in one of its hooks.               *)
RequestedTestsRun ==
    Committed =>
        LET ran == Cardinality(RowsOf("test"))
            failedTests == {rows[p].test : p \in {q \in Failed : rows[q].stage \in PerTest}}
            aborts(t) == t \in failedTests /\ suite.onFailure[t] = "ABORT"
        IN  /\ ran <= Len(tests)
            /\ {rows[p].test : p \in RowsOf("test")} = {tests[i] : i \in 1..ran}
            /\ \A p, q \in RowsOf("test") : p < q => rows[p].test < rows[q].test
            /\ \A i \in 1..ran : i < ran => ~aborts(tests[i])
            /\ ran < Len(tests) =>
                  IF ran = 0 THEN RowsOf("before_all") \cap Failed # {}
                             ELSE aborts(tests[ran])

(* A client that reads all events knows what is stored: the item_finished  *)
(* events are the item rows in order, the progress counts the tests, and   *)
(* suite_finished carries the stored status.                               *)
EventsMatchStore ==
    Committed =>
        LET itemFinished == EventsNamed("item_finished")
            progress == EventsNamed("suite_progress")
        IN  /\ {events[k].position : k \in itemFinished} = DOMAIN rows
            /\ \A k \in itemFinished : events[k].status = rows[events[k].position].status
            /\ \A k, l \in itemFinished : k < l => events[k].position < events[l].position
            /\ {events[k].executed : k \in progress} = 0..Cardinality(RowsOf("test"))
            /\ \A k, l \in progress : k < l => events[k].executed < events[l].executed
            /\ \E k \in DOMAIN events : /\ EventsNamed("suite_finished") = {k}
                                        /\ events[k].status = execution.status

(* An item sees local constants of its own test only: those written by     *)
(* that test, its before_each and its after_each; before_all and after_all *)
(* see none but their own (local_context, bind_suite_item_context).        *)
LocalConstantsStayLocal ==
    running => \A p \in local :
                  /\ rows[p].test = rows[Position].test
                  /\ rows[Position].stage \notin PerTest => p = Position

\* Every run ends, committed or rolled back.
RunEnds == <>(outcome # "open")
=============================================================================
