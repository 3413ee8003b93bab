------------------------- MODULE ExecutionListener -------------------------
(***************************************************************************)
(* What a user sees of a running test suite: the executor's events, the    *)
(* bus (ExecutionEventBus, with one stream), the listener thread of the UI *)
(* that folds the frames into a state                                      *)
(* (ui/test_suites/services/execution_stream_service.py), and the page     *)
(* that shows it (ui/test_suites/components/test_suites_component.py).     *)
(*                                                                         *)
(* The executor writes its rows in one transaction, so other sessions see  *)
(* the execution when it is committed, after suite_finished.  The run has  *)
(* two ids: the one of the thread, which is the one of the bus and of the  *)
(* listener's state, and the one of the row, which is the one in the list  *)
(* of executions.                                                          *)
(***************************************************************************)
EXTENDS ExecutionEventBus, FiniteSets

CONSTANTS Items,      \* number of tests of the run
          HookSets,   \* bound: the sets of hooks its suite may have
          Stream,     \* the only member of Streams
          ThreadId, RowId, OldRow,
          MaxBreaks,  \* bound on broken connections
          MaxLogs,    \* bound on log entries before suite_finished
          None

HookPhases == {"before_all", "before_each", "after_each", "after_all"}

ASSUME ListenerAssumption ==
    /\ Items \in Nat /\ MaxBreaks \in Nat /\ MaxLogs \in Nat
    /\ HookSets \subseteq SUBSET HookPhases
    /\ Streams = {Stream} /\ ThreadId # RowId

VARIABLES hooks,      \* the phases for which the suite has a hook
          stage,      \* what the executor does next
          index,      \* the test whose turn it is, or 0
          open,       \* the item that has started and not closed, or NoItem
          verdict,    \* the rows of the closed items, in order
          stored,     \* "open", "committed" or "undone"
          conn,       \* listener thread: "none", "open" or "ended"
          read,       \* frames the listener has applied
          client,     \* _EXECUTION_STATES[ThreadId]
          executions, \* ids of the executions the page has loaded
          selected,   \* the selected execution
          last,       \* id of the execution started last
          breaks

runVars == <<hooks, stage, index, open, verdict, stored>>
clientVars == <<conn, read, client, breaks>>
pageVars == <<executions, selected, last>>
allVars == <<vars, runVars, clientVars, pageVars>>

(* A hook is one item however often it runs; a test runs once.             *)
Hook(p) == <<p, 0>>
Test(i) == <<"test", i>>
ItemStages == HookPhases \cup {"test"}
ItemIds == {Hook(h) : h \in HookPhases} \cup {Test(i) : i \in 1 .. Items}
NoItem == <<"none", 0>>
Executed(i) == <<"executed", i>>

Status == {"success", "error"}
Event(kind, item, status) == [kind |-> kind, item |-> item, status |-> status]

(* The frames of a run.  "started" and "finished" are hook_started or      *)
(* test_started, hook_finished or test_finished, as the item tells.        *)
(* execution_log also stands for the command_finished events in between,   *)
(* which change nothing of what is modelled here.                          *)
Frames ==
    {Event(k, NoItem, None) : k \in {"suite_started", "execution_log"}}
      \cup {Event("suite_finished", NoItem, st) : st \in Status}
      \cup {Event("suite_progress", Executed(i), None) : i \in 0 .. Items}
      \cup {Event("started", x, None) : x \in ItemIds}
      \cup {Event("finished", x, st) : x \in ItemIds, st \in Status}

(* The bus takes whatever text it is given.                                *)
ASSUME FramesAssumption == Frames \subseteq Frame

(* any_error, and the test_failed of a turn, among the rows v.             *)
AnyError(v) == \E r \in DOMAIN v : v[r].status = "error"
TurnFailed(v, i) == \E r \in DOMAIN v : v[r].turn = i /\ v[r].status = "error"

Overall == IF AnyError(verdict) THEN "error" ELSE "success"

NewClient == [running |-> TRUE, status |-> "running", done |-> 0,
              item |-> [x \in {} |-> None], error |-> FALSE]

ListenerInit ==
    /\ Init
    /\ hooks \in HookSets
    /\ stage = "idle" /\ index = 0 /\ open = NoItem
    /\ verdict = <<>>
    /\ stored = "open"
    /\ conn = "none" /\ read = 0 /\ client = NewClient /\ breaks = 0
    /\ executions = {OldRow} /\ selected = OldRow /\ last = None

----------------------------------------------------------------------------
(* The executor: before_all, for each test before_each, the test, its      *)
(* progress and after_each, and after_all.  A failed before_all skips the  *)
(* tests; a failed turn ends them when its test is set to abort.           *)

(* Where _execute goes from here, when v are the rows of the closed items. *)
Onwards(v) ==
    CASE stage = "begin" -> {<<"progress", 0>>}
      [] stage = "progress" -> {IF index = 0 THEN <<"before_all", 0>>
                                             ELSE <<"after_each", index>>}
      [] stage = "before_all" -> {IF AnyError(v) \/ Items = 0 THEN <<"after_all", 0>>
                                                             ELSE <<"before_each", 1>>}
      [] stage = "before_each" -> {<<"test", index>>}
      [] stage = "test" -> {<<"progress", index>>}
      [] stage = "after_each" ->
            (IF index < Items THEN {<<"before_each", index + 1>>} ELSE {})
              \cup (IF index < Items /\ ~TurnFailed(v, index) THEN {}
                                                            ELSE {<<"after_all", 0>>})
      [] stage = "after_all" -> {<<"end", 0>>}
      [] stage = "end" -> {<<"close", 0>>}
      [] stage = "close" -> {<<"commit", 0>>}

MovesOn(v) == \E place \in Onwards(v) : stage' = place[1] /\ index' = place[2]

Says(e) == Publish(e) /\ UNCHANGED <<hooks, stored, clientVars, pageVars>>

SuiteStarts ==
    /\ stage = "begin"
    /\ Says(Event("suite_started", NoItem, None))
    /\ MovesOn(verdict) /\ UNCHANGED <<open, verdict>>

Progresses ==
    /\ stage = "progress"
    /\ Says(Event("suite_progress", Executed(index), None))
    /\ MovesOn(verdict) /\ UNCHANGED <<open, verdict>>

Here == IF stage = "test" THEN Test(index) ELSE Hook(stage)

SkipHook ==
    /\ stage \in HookPhases \ hooks /\ pending = {}
    /\ MovesOn(verdict)
    /\ UNCHANGED <<vars, hooks, open, verdict, stored, clientVars, pageVars>>

ItemStarts ==
    /\ stage \in hooks \cup {"test"} /\ open = NoItem
    /\ Says(Event("started", Here, None))
    /\ open' = Here
    /\ UNCHANGED <<stage, index, verdict>>

ItemFinishes(st) ==
    /\ stage \in ItemStages /\ open # NoItem
    /\ Says(Event("finished", Here, st))
    /\ open' = NoItem
    /\ verdict' = Append(verdict, [item |-> Here, turn |-> index, status |-> st])
    /\ MovesOn(verdict')

SuiteFinishes ==
    /\ stage = "end"
    /\ Says(Event("suite_finished", NoItem, Overall))
    /\ MovesOn(verdict) /\ UNCHANGED <<open, verdict>>

(* A command logs, or closes.                                              *)
LogEntry ==
    /\ stage \in ItemStages /\ open # NoItem
    /\ Cardinality({n \in DOMAIN published : published[n].kind = "execution_log"}) < MaxLogs
    /\ Says(Event("execution_log", NoItem, None))
    /\ UNCHANGED <<stage, index, open, verdict>>

(* The log entry of the executor itself, after suite_finished.             *)
LastLogEntry ==
    /\ stage = "close"
    /\ Says(Event("execution_log", NoItem, None))
    /\ MovesOn(verdict) /\ UNCHANGED <<open, verdict>>

(* The session ends with the commit.                                       *)
RunCloses ==
    /\ stage = "commit" /\ pending = {}
    /\ stored' = "committed"
    /\ stage' = "over"
    /\ UNCHANGED <<vars, hooks, index, open, verdict, clientVars, pageVars>>

(* An exception leaves _execute, from wherever it is: a row that cannot be *)
(* written, a payload that cannot be published, the log entry after        *)
(* suite_finished, the commit.  The transaction is rolled back and nothing *)
(* is published any more.                                                  *)
RunDies ==
    /\ stage \notin {"idle", "over"} /\ pending = {}
    /\ stored' = "undone"
    /\ stage' = "over"
    /\ UNCHANGED <<vars, hooks, index, open, verdict, clientVars, pageVars>>

----------------------------------------------------------------------------
(* The listener thread.                                                    *)

(* The button that starts the run: the thread is started, and the listener *)
(* is registered under its id.                                             *)
RunSuite ==
    /\ stage = "idle"
    /\ stage' = "begin"
    /\ conn' = "open"
    /\ client' = NewClient
    /\ last' = ThreadId
    /\ UNCHANGED <<vars, hooks, index, open, verdict, stored, read, breaks,
                   executions, selected>>

Connects ==
    /\ conn = "open"
    /\ Subscribe(Stream)
    /\ UNCHANGED <<runVars, clientVars, pageVars>>

StreamMoves ==
    /\ \/ Put(Stream) \/ ReplayFrame(Stream) \/ ReplayDone(Stream)
       \/ LiveFrame(Stream) \/ Heartbeat(Stream) \/ Unsubscribe(Stream)
    /\ UNCHANGED <<runVars, clientVars, pageVars>>

(* The server notices that its client is gone.                             *)
StreamCloses ==
    /\ conn = "ended"
    /\ Disconnect(Stream)
    /\ UNCHANGED <<runVars, clientVars, pageVars>>

With(item, x, st) == [y \in DOMAIN item \cup {x} |-> IF y = x THEN st ELSE item[y]]

\* Mutant: what a hook or test that has finished came to is not kept.
ApplyEvent_Forgets(c, e) ==
    CASE e.kind = "suite_progress" -> [c EXCEPT !.done = e.item[2]]
      [] e.kind \in {"started", "finished"} -> [c EXCEPT !.item = With(c.item, e.item, "running")]
      [] e.kind = "suite_finished" -> [c EXCEPT !.running = FALSE, !.status = e.status]
      [] OTHER -> c

(* _apply_event.  What is not listed changes nothing.                      *)
ApplyEvent(c, e) ==
    CASE e.kind = "suite_started" -> [NewClient EXCEPT !.error = c.error]
      [] e.kind = "suite_progress" -> [c EXCEPT !.done = e.item[2]]
      [] e.kind = "started" -> [c EXCEPT !.item = With(c.item, e.item, "running")]
      [] e.kind = "finished" -> [c EXCEPT !.item = With(c.item, e.item, e.status)]
      [] e.kind = "suite_finished" -> [c EXCEPT !.running = FALSE, !.status = e.status]
      [] e.kind = "execution_log" -> c

Hears_ToTheEnd ==
    /\ conn = "open" /\ read < Len(sent[Stream])
    /\ read' = read + 1
    /\ client' = ApplyEvent(client, published[sent[Stream][read + 1]])
    /\ UNCHANGED <<conn, vars, runVars, breaks, pageVars>>

(* One event of the stream; the thread leaves after suite_finished.        *)
Hears ==
    /\ conn = "open" /\ read < Len(sent[Stream])
    /\ read' = read + 1
    /\ LET e == published[sent[Stream][read + 1]]
       IN  /\ client' = ApplyEvent(client, e)
           /\ conn' = IF e.kind = "suite_finished" THEN "ended" ELSE "open"
    /\ UNCHANGED <<vars, runVars, breaks, pageVars>>

(* The connection fails: the state says so and nothing connects again.     *)
ConnectionBreaks ==
    /\ conn = "open" /\ breaks < MaxBreaks
    /\ breaks' = breaks + 1
    /\ conn' = "ended"
    /\ client' = [client EXCEPT !.running = FALSE, !.status = "error", !.error = TRUE]
    /\ UNCHANGED <<vars, runVars, read, pageVars>>

----------------------------------------------------------------------------
(* The page.                                                               *)

(* _load_execution_history: the pending selection is the id of the thread; *)
(* it is looked for among the ids of rows.                                 *)
LoadHistory ==
    LET ids == {OldRow} \cup (IF stored = "committed" THEN {RowId} ELSE {})
    IN  /\ executions' = ids
        /\ selected' = CASE last \in ids -> last
                         [] last \notin ids /\ selected \in ids -> selected
                         [] OTHER -> CHOOSE e \in ids : TRUE
        /\ UNCHANGED <<vars, runVars, clientVars, last>>

Select(e) ==
    /\ e \in executions
    /\ selected' = e
    /\ UNCHANGED <<vars, runVars, clientVars, executions, last>>

(* _get_execution_item_status: the state of the listener under the id that *)
(* is selected, or the rows of that execution.                             *)
LiveItems(e) ==
    IF e = ThreadId /\ conn # "none" THEN client.item ELSE [i \in {} |-> None]

(* The last row of an item is the one that counts: the rows are read in    *)
(* order into a dictionary.                                                *)
LastRow(r) == \A later \in r + 1 .. Len(verdict) : verdict[later].item # verdict[r].item

StoredItems ==
    [x \in {verdict[r].item : r \in DOMAIN verdict} |->
        verdict[CHOOSE r \in DOMAIN verdict : verdict[r].item = x /\ LastRow(r)].status]

ShownItems ==
    CASE DOMAIN LiveItems(selected) # {} -> LiveItems(selected)
      [] DOMAIN LiveItems(selected) = {} /\ selected = RowId -> StoredItems
      [] OTHER -> <<>>

----------------------------------------------------------------------------
Executor ==
    \/ SuiteStarts \/ Progresses \/ SkipHook \/ ItemStarts
    \/ SuiteFinishes \/ LogEntry \/ LastLogEntry \/ RunCloses \/ RunDies
    \/ \E st \in Status : ItemFinishes(st)

ListenerNext ==
    \/ Executor
    \/ RunSuite \/ Connects \/ StreamMoves \/ StreamCloses \/ Hears \/ ConnectionBreaks
    \/ LoadHistory \/ \E e \in executions : Select(e)

ListenerSpec ==
    /\ ListenerInit /\ [][ListenerNext]_allVars
    /\ WF_allVars(Connects) /\ WF_allVars(Hears)
    /\ WF_allVars(Put(Stream) /\ StreamMoves)
    /\ WF_allVars(StreamStep(Stream) /\ StreamMoves)

----------------------------------------------------------------------------
(* The listener never runs ahead of the run or beside it: an item it shows *)
(* as running was started, one it shows as closed was closed with that     *)
(* status (a hook: at one of its turns), and the tests it counts are       *)
(* closed (_apply_event against _execute_item).                            *)
ClientFollowsRun ==
    /\ \A x \in DOMAIN client.item :
           \/ client.item[x] = "running" /\ x = open
           \/ \E r \in DOMAIN verdict :
                  verdict[r].item = x /\ client.item[x] \in {"running", verdict[r].status}
    /\ \A i \in 1 .. client.done : \E r \in DOMAIN verdict : verdict[r].item = Test(i)

Announced == \E n \in DOMAIN published : published[n].kind = "suite_finished"

(* When the listener says that the suite has finished, other than by a     *)
(* broken connection, the executor announced that, with the verdict of     *)
(* every hook and test; and if no frame was lost the listener shows the    *)
(* items that were run and no others, each as its last run ended.          *)
EndIsTheEnd ==
    ~client.running /\ ~client.error =>
        /\ Announced /\ client.status = Overall
        /\ dropped[Stream] = {} /\ from[Stream] = 1 =>
              /\ DOMAIN client.item = {verdict[r].item : r \in DOMAIN verdict}
              /\ \A r \in DOMAIN verdict :
                    LastRow(r) => client.item[verdict[r].item] = verdict[r].status

(* What a user is told of a run is true of it (ClientFollowsRun,           *)
(* EndIsTheEnd), at every moment and at the end (_apply_event).            *)
StateIsTrue == ClientFollowsRun /\ EndIsTheEnd

Settled == conn = "none" \/ (conn = "ended" /\ ~client.running)

(* The listener learns of an announced end and lets go of the stream,      *)
(* although the bus itself would keep it open: it ends a stream only at    *)
(* execution_finished, which no executor publishes.  A listener that       *)
(* connects late still finds suite_finished in the history, behind the     *)
(* last log entry; only a full queue can keep it from the listener         *)
(* (_listen_execution_events).                                             *)
LearnsTheEnd ==
    Announced ~> \/ Settled
                 \/ \E n \in dropped[Stream] : published[n].kind = "suite_finished"

(* The listener learns that the run is over, announced or not.             *)
LearnsThatItIsOver == stage = "over" ~> Settled \/ dropped[Stream] # {}

(* "Try live stream state first" (test_suites_component.py): while the     *)
(* execution is selected, the page shows what the listener knows of it.    *)
LiveFirst ==
    selected \in {ThreadId, RowId} /\ DOMAIN client.item # {} => ShownItems = client.item
=============================================================================
