------------------------- MODULE TestSuiteScheduler -------------------------
(***************************************************************************)
(* Scheduled runs of one test suite: the scheduler thread                  *)
(* (scheduler_runtime.py, test_suite_scheduler_service.py), the schedule   *)
(* rows and the time of the next run (test_suite_schedule_service.py), the *)
(* REST handlers that edit schedules or run them now                       *)
(* (test_suite_schedules_api.py), and the runs both start.                 *)
(*                                                                         *)
(* trigger_schedule is one transaction of the scheduler thread or of the   *)
(* API's event loop: it reads the schedule, decides, starts a run in a new *)
(* thread and writes the schedule back.  The two actors interleave between *)
(* these steps; the other handlers are short transactions of the event     *)
(* loop and are atomic.  The ORM writes back only the columns that differ  *)
(* from what the transaction had read.                                     *)
(*                                                                         *)
(* A run is known by its number; its row enters the store when the run's   *)
(* own transaction commits (module TestSuiteExecutor).  The id a schedule  *)
(* remembers is that of the thread, not that of the row.                   *)
(*                                                                         *)
(* Time is counted in ticks from 1; 0 stands for an absent time.           *)
(***************************************************************************)
EXTENDS Naturals, Sequences

CONSTANTS
    Schedules,    \* the schedules of the suite
    Frequencies,  \* frequency_value and frequency_unit, in ticks
    StartTimes,   \* choices of start_at, 0 for none
    EndTimes,     \* choices of end_at, 0 for none
    MaxTime,      \* bound: ticks of the clock
    MaxRuns,      \* bound: runs started
    MaxRequests,     \* bound: requests to the API after creation
    MaxFaults     \* bound: failures of the environment

ASSUME SchedulerAssumption == /\ Frequencies \subseteq Nat \ {0}
                              /\ StartTimes \subseteq Nat /\ EndTimes \subseteq Nat
                              /\ MaxTime \in Nat \ {0} /\ MaxRuns \in Nat
                              /\ MaxRequests \in Nat /\ MaxFaults \in Nat

VARIABLES
    now,          \* the clock
    life,         \* "new", "stored" or "deleted", per schedule
    row,          \* the committed schedule row
    runs,         \* the state of each run started
    due,          \* due_schedule_ids still to be triggered by the loop
    polledAt,     \* current_time of process_due_schedules
    tx,           \* the trigger_schedule transaction of each actor
    requests,     \* requests so far
    faults,       \* failures so far
    intent,       \* what the API last set, per schedule (ghost)
    crossed,      \* schedules the API set while a trigger had read them (ghost)
    touched,      \* schedules the API changed since the last poll (ghost)
    lastStart     \* time of the last scheduled run, 0 if an edit, a fault or a
                  \* manual run came since its trigger read the schedule (ghost)

vars == <<now, life, row, runs, due, polledAt, tx, requests, faults, intent, crossed, touched,
          lastStart>>

-----------------------------------------------------------------------------

Actors == {"scheduler", "api"}

\* What a client sets: the fields of CreateTestSuiteScheduleDto that matter,
\* validated by the DTO.
Settings == {d \in [active : BOOLEAN, freq : Frequencies, start : StartTimes, end : EndTimes] :
                d.start # 0 /\ d.end # 0 => d.start < d.end}

NoRow == [active |-> FALSE, freq |-> 0, start |-> 0, end |-> 0,
          next |-> 0, status |-> "idle", exec |-> 0]

NoTx == [phase |-> "none"]

\* Mutant: the frequency is not added.
NextRunWithoutDelta(active, d, t, again) ==
    LET candidate == IF t < d.start THEN d.start ELSE t
    IN  IF ~active \/ (d.end # 0 /\ candidate > d.end) THEN 0 ELSE candidate

(* compute_next_run_at.  again says that reference_time is given (it is    *)
(* then the current time t), as it is after a run.                         *)
NextRun(active, d, t, again) ==
    LET delayed == IF t + d.freq < d.start THEN d.start ELSE t + d.freq
        candidate == IF ~again /\ d.start > t THEN d.start ELSE delayed
    IN  IF ~active \/ (d.end # 0 /\ candidate > d.end) THEN 0 ELSE candidate

(* The execution rows other sessions can read.  A run inserts its row with *)
(* status "running" but commits it only when it is finished ("success" or  *)
(* "error", which no decision here tells apart).                           *)
StoredRuns == {r \in DOMAIN runs : runs[r] = "finished"}

\* has_running_execution
HasRunningExecution == \E r \in StoredRuns : runs[r] = "running"

(* _refresh_running_schedule_states: the execution with the remembered id  *)
(* is looked up among the row ids, which are no thread ids.                *)
RowId(r) == <<"row", r>>
ThreadId(r) == <<"thread", r>>

\* Mutant: the run is looked up by its thread, stored or not.
RefreshedFromThread(w) ==
    IF w.status = "running" /\ w.exec # 0 THEN runs[w.exec] ELSE w.status

RefreshedStatus(w) ==
    IF w.status = "running" /\ w.exec # 0 /\ \E r \in StoredRuns : RowId(r) = ThreadId(w.exec)
      THEN runs[CHOOSE r \in StoredRuns : RowId(r) = ThreadId(w.exec)]
      ELSE w.status

Refresh(rw) == [s \in Schedules |-> [rw[s] EXCEPT !.status = RefreshedStatus(rw[s])]]

\* Mutant: every column is written back.
WriteAll(current, read, new) == new

\* The flush of a transaction that had read one version of the row and leaves
\* another: only the columns it changed are written.
WriteChanged(current, read, new) ==
    [f \in DOMAIN current |-> IF new[f] # read[f] THEN new[f] ELSE current[f]]

-----------------------------------------------------------------------------

Init ==
    /\ now = 1
    /\ life = [s \in Schedules |-> "new"]
    /\ row = [s \in Schedules |-> NoRow]
    /\ runs = <<>>
    /\ due = {}
    /\ polledAt = 0
    /\ tx = [a \in Actors |-> NoTx]
    /\ requests = 0
    /\ faults = 0
    /\ intent = [s \in Schedules |-> NoRow]
    /\ crossed = {} /\ touched = {}
    /\ lastStart = [s \in Schedules |-> 0]

Tick ==
    /\ now < MaxTime
    /\ now' = now + 1
    /\ UNCHANGED <<life, row, runs, due, polledAt, tx, requests, faults, intent, crossed,
                   touched, lastStart>>

-----------------------------------------------------------------------------
(* The handlers of the REST API.  They run on the event loop one at a      *)
(* time, so none runs inside a run-now of the API.                         *)

ApiIdle == tx["api"].phase = "none"

SetRow(s, r) ==
    /\ row' = [row EXCEPT ![s] = r]
    /\ intent' = [intent EXCEPT ![s] = r]
    /\ crossed' = IF \E a \in Actors : tx[a].phase # "none" /\ tx[a].sched = s
                    THEN crossed \cup {s} ELSE crossed \ {s}
    /\ touched' = touched \cup {s}
    /\ lastStart' = [lastStart EXCEPT ![s] = 0]
    /\ UNCHANGED <<now, runs, due, polledAt, tx, faults>>

\* insert_test_suite_schedule_api
Create(s, d) ==
    /\ ApiIdle /\ life[s] = "new"
    /\ life' = [life EXCEPT ![s] = "stored"]
    /\ SetRow(s, [NoRow EXCEPT !.active = d.active, !.freq = d.freq, !.start = d.start,
                               !.end = d.end, !.next = NextRun(d.active, d, now, FALSE)])
    /\ UNCHANGED requests

Edit(s, r) ==
    /\ ApiIdle /\ life[s] = "stored" /\ requests < MaxRequests
    /\ requests' = requests + 1
    /\ SetRow(s, r)
    /\ UNCHANGED life

\* update_test_suite_schedule_api
Update(s, d) ==
    Edit(s, [row[s] EXCEPT !.active = d.active, !.freq = d.freq, !.start = d.start,
                           !.end = d.end, !.next = NextRun(d.active, d, now, FALSE)])

\* activate_test_suite_schedule_api
Activate(s) ==
    Edit(s, [row[s] EXCEPT !.active = TRUE, !.next = NextRun(TRUE, row[s], now, FALSE)])

\* deactivate_test_suite_schedule_api
Deactivate(s) == Edit(s, [row[s] EXCEPT !.active = FALSE, !.next = 0])

\* delete_test_suite_schedule_api
Delete(s) ==
    /\ ApiIdle /\ life[s] = "stored" /\ requests < MaxRequests
    /\ requests' = requests + 1
    /\ life' = [life EXCEPT ![s] = "deleted"]
    /\ SetRow(s, NoRow)

-----------------------------------------------------------------------------
(* trigger_schedule.                                                       *)

\* The transaction of a ends; an exception ends the scheduler's iteration.
Leave(a, exception) ==
    /\ tx' = [tx EXCEPT ![a] = NoTx]
    /\ due' = IF exception /\ a = "scheduler" THEN {} ELSE due

(* The schedule is read; a missing one is an exception.  The refresh of    *)
(* the other schedules, part of this transaction, is taken as done here.   *)
Open(a, s, t) ==
    /\ tx[a].phase = "none"
    /\ IF life[s] = "stored"
         THEN /\ tx' = [tx EXCEPT ![a] = [phase |-> "read", sched |-> s, at |-> t,
                                          read |-> Refresh(row)[s]]]
              /\ row' = Refresh(row)
         ELSE UNCHANGED <<tx, row>>

\* run_test_suite_schedule_now_api
RunNow(s) ==
    /\ life[s] # "new" /\ requests < MaxRequests
    /\ requests' = requests + 1
    /\ Open("api", s, now)
    /\ lastStart' = [lastStart EXCEPT ![s] = 0]
    /\ UNCHANGED <<now, life, runs, due, polledAt, faults, intent, crossed, touched>>

\* Mutant: the list is not advanced, so that a schedule is triggered again.
TriggerDueAgain(s) ==
    /\ s \in due
    /\ Open("scheduler", s, polledAt)
    /\ due' = IF life[s] = "stored" THEN due ELSE {}
    /\ UNCHANGED <<now, life, runs, polledAt, requests, faults, intent, crossed, touched,
                   lastStart>>

\* The next turn of the loop over due_schedule_ids.
TriggerDue(s) ==
    /\ s \in due
    /\ Open("scheduler", s, polledAt)
    /\ due' = IF life[s] = "stored" THEN due \ {s} ELSE {}
    /\ UNCHANGED <<now, life, runs, polledAt, requests, faults, intent, crossed,
                   touched, lastStart>>

Inactive(t) == ~t.read.active
NotDue(t) == t.read.start # 0 /\ t.at < t.read.start
Expired(t) == t.read.end # 0 /\ t.at > t.read.end

\* The early returns that write nothing; a manual run has none.
Refuses(a) == a = "scheduler" /\ (Inactive(tx[a]) \/ NotDue(tx[a]))

TriggerRefused(a) ==
    /\ tx[a].phase = "read" /\ Refuses(a)
    /\ Leave(a, FALSE)
    /\ UNCHANGED <<now, life, row, runs, polledAt, requests, faults, intent, crossed,
                   touched, lastStart>>

TriggerWrites(a, new) ==
    tx' = [tx EXCEPT ![a] = [phase |-> "write", sched |-> @.sched, at |-> @.at,
                             read |-> @.read, new |-> new]]

\* The end of the window has passed: the schedule is switched off.
TriggerExpired(a) ==
    /\ tx[a].phase = "read" /\ a = "scheduler" /\ ~Refuses(a) /\ Expired(tx[a])
    /\ TriggerWrites(a, [tx[a].read EXCEPT !.active = FALSE, !.next = 0, !.status = "idle"])
    /\ UNCHANGED <<now, life, row, runs, due, polledAt, requests, faults, intent, crossed,
                   touched, lastStart>>

MayStart(a) == tx[a].phase = "read" /\ ~Refuses(a) /\ ~(a = "scheduler" /\ Expired(tx[a]))

NextAfter(a) == NextRun(tx[a].read.active, tx[a].read, tx[a].at, TRUE)

(* A run is started in its own thread, before the schedule is written; if  *)
(* the suite has a running execution the schedule is skipped instead.      *)
TriggerStarts(a) ==
    /\ MayStart(a)
    /\ Len(runs) < MaxRuns
    /\ IF HasRunningExecution
         THEN /\ TriggerWrites(a, [tx[a].read EXCEPT !.status = "skipped",
                    !.next = IF tx[a].read.active THEN NextAfter(a) ELSE @])
              /\ UNCHANGED runs
         ELSE /\ runs' = Append(runs, "running")
              /\ TriggerWrites(a, [tx[a].read EXCEPT !.status = "running",
                    !.next = NextAfter(a), !.exec = Len(runs) + 1])
    /\ UNCHANGED <<now, life, row, due, polledAt, requests, faults, intent, crossed,
                   touched, lastStart>>

(* The thread cannot be started: the update in the except clause is undone *)
(* by the exception raised after it, which leaves managed_session.         *)
TriggerStartFails(a) ==
    /\ MayStart(a) /\ faults < MaxFaults
    /\ faults' = faults + 1
    /\ Leave(a, TRUE)
    /\ UNCHANGED <<now, life, row, runs, polledAt, requests, intent, crossed, touched,
                   lastStart>>

\* The transaction commits; a row deleted meanwhile makes the flush fail.
TriggerCommits(a) ==
    /\ tx[a].phase = "write"
    /\ LET s == tx[a].sched IN
         IF life[s] = "stored"
           THEN /\ row' = [row EXCEPT ![s] = WriteChanged(@, tx[a].read, tx[a].new)]
                /\ lastStart' = [lastStart EXCEPT ![s] =
                      IF a = "scheduler" /\ row[s] = tx[a].read /\ tx[a].new.exec # row[s].exec
                        THEN tx[a].at ELSE 0]
                /\ touched' = IF a = "api" THEN touched \cup {s} ELSE touched
                /\ Leave(a, FALSE)
           ELSE /\ UNCHANGED <<row, lastStart, touched>>
                /\ Leave(a, TRUE)
    /\ UNCHANGED <<now, life, runs, polledAt, requests, faults, intent, crossed>>

\* The commit fails: the run that was started is not undone.
TriggerCommitFails(a) ==
    /\ tx[a].phase = "write" /\ faults < MaxFaults
    /\ faults' = faults + 1
    /\ lastStart' = [lastStart EXCEPT ![tx[a].sched] = 0]
    /\ Leave(a, TRUE)
    /\ UNCHANGED <<now, life, row, runs, polledAt, requests, intent, crossed, touched>>

-----------------------------------------------------------------------------
(* The scheduler thread and the runs.                                      *)

DueAt(s, t) == row[s].active /\ row[s].next # 0 /\ row[s].next <= t

Due(s) == life[s] = "stored" /\ DueAt(s, now)

\* Mutant: the loop ends with the first exception.
PollUntilFailure ==
    /\ due = {} /\ tx["scheduler"].phase = "none" /\ faults = 0
    /\ row' = Refresh(row)
    /\ due' = {s \in Schedules : Due(s)}
    /\ polledAt' = now /\ touched' = {}
    /\ UNCHANGED <<now, life, runs, tx, requests, faults, intent, crossed,
                   lastStart>>

\* One iteration of _scheduler_loop begins: process_due_schedules lists the due
\* schedules.
Poll ==
    /\ due = {} /\ tx["scheduler"].phase = "none"
    /\ row' = Refresh(row)
    /\ due' = {s \in Schedules : Due(s)}
    /\ polledAt' = now /\ touched' = {}
    /\ UNCHANGED <<now, life, runs, tx, requests, faults, intent, crossed,
                   lastStart>>

\* A run's transaction commits with its verdict or is rolled back.
RunEnds(r, status) ==
    /\ runs[r] = "running"
    /\ runs' = [runs EXCEPT ![r] = status]
    /\ UNCHANGED <<now, life, row, due, polledAt, tx, requests, faults, intent, crossed,
                   touched, lastStart>>

\* The process ends and starts again: open transactions and threads are gone.
Restart ==
    /\ faults < MaxFaults
    /\ faults' = faults + 1
    /\ runs' = [r \in DOMAIN runs |-> IF runs[r] = "running" THEN "rolledback" ELSE runs[r]]
    /\ due' = {}
    /\ tx' = [a \in Actors |-> NoTx]
    /\ lastStart' = [s \in Schedules |-> 0]
    /\ UNCHANGED <<now, life, row, polledAt, requests, intent, crossed, touched>>

-----------------------------------------------------------------------------

SchedulerStep ==
    \/ Poll
    \/ \E s \in Schedules : TriggerDue(s)
    \/ TriggerRefused("scheduler")
    \/ TriggerExpired("scheduler")
    \/ TriggerStarts("scheduler")
    \/ TriggerCommits("scheduler")

ApiStep ==
    \/ \E s \in Schedules, d \in Settings : Create(s, d) \/ Update(s, d)
    \/ \E s \in Schedules : Activate(s) \/ Deactivate(s) \/ Delete(s) \/ RunNow(s)
    \/ TriggerStarts("api")
    \/ TriggerCommits("api")

RunStep == \E r \in DOMAIN runs, st \in {"finished", "rolledback"} : RunEnds(r, st)

FaultStep ==
    \/ Restart
    \/ \E a \in Actors : TriggerStartFails(a) \/ TriggerCommitFails(a)

Next == Tick \/ SchedulerStep \/ ApiStep \/ RunStep \/ FaultStep

Spec == Init /\ [][Next]_vars

(* The loop of the scheduler thread never ends, its transactions and those *)
(* of the API wait for nobody, and every run ends (TestSuiteExecutor).     *)
FairSpec == /\ Spec
            /\ WF_vars(SchedulerStep)
            /\ WF_vars(TriggerStarts("api") \/ TriggerCommits("api"))
            /\ WF_vars(RunStep)

-----------------------------------------------------------------------------

RowType == [active : BOOLEAN, freq : Frequencies \cup {0}, start : StartTimes \cup {0},
            end : EndTimes \cup {0}, next : Nat,
            status : {"idle", "running", "skipped", "finished"}, exec : 0..MaxRuns]

ReadTx == [phase : {"read"}, sched : Schedules, at : 1..MaxTime, read : RowType]

WriteTx == [phase : {"write"}, sched : Schedules, at : 1..MaxTime, read : RowType,
            new : RowType]

\* Every variable has the shape the code gives it.
TypeOK ==
    /\ now \in 1..MaxTime
    /\ life \in [Schedules -> {"new", "stored", "deleted"}]
    /\ row \in [Schedules -> RowType]
    /\ runs \in Seq({"running", "finished", "rolledback"}) /\ Len(runs) <= MaxRuns
    /\ due \in SUBSET Schedules
    /\ polledAt \in 0..now
    /\ tx \in [Actors -> {NoTx} \cup ReadTx \cup WriteTx]
    /\ requests \in 0..MaxRequests /\ faults \in 0..MaxFaults
    /\ intent \in [Schedules -> RowType]
    /\ crossed \subseteq Schedules /\ touched \subseteq Schedules
    /\ lastStart \in [Schedules -> 0..MaxTime]

\* The window of a schedule has ended.
WindowEnded(s) == row[s].end # 0 /\ now > row[s].end

(* The schedule does what its settings say: it is switched off only when   *)
(* its window has ended, and its next run is the one the API set, or the   *)
(* one its present settings give after some run, or none once it is off.   *)
FollowsSettings(s) ==
    /\ intent[s].active => row[s].active \/ WindowEnded(s)
    /\ \/ row[s].next = intent[s].next
       \/ \E t \in 1..now : row[s].next = NextRun(TRUE, row[s], t, TRUE)
       \/ row[s].next = 0 /\ ~row[s].active

(* The frequency and the window are those the API last set, and a schedule *)
(* that was switched off stays off, although trigger_schedule writes back  *)
(* a row it had read before.  Further, unless the API set the schedule     *)
(* while a trigger had it read (the exception is needed, see               *)
(* EditsAreFinal), the schedule follows its settings.                      *)
EditsSurvive ==
    \A s \in Schedules :
        /\ row[s].freq = intent[s].freq
        /\ row[s].start = intent[s].start /\ row[s].end = intent[s].end
        /\ row[s].active => intent[s].active
        /\ s \notin crossed => FollowsSettings(s)

(* The same without the exception, which the code does not keep: a trigger *)
(* that found the old window ended switches the schedule off although an   *)
(* edit has extended the window meanwhile, and one that started a run      *)
(* writes the next run that the old settings give.                         *)
EditsAreFinal == \A s \in Schedules : FollowsSettings(s)

ScheduledStart(s) ==
    /\ Len(runs') > Len(runs)
    /\ tx["scheduler"].phase = "read" /\ tx'["scheduler"].phase = "write"
    /\ tx["scheduler"].sched = s

(* Two scheduled runs of a schedule are at least its frequency apart,      *)
(* unless an edit, a manual run or a fault came in between: the next run   *)
(* is moved on by the transaction that starts the run, and no list of due  *)
(* schedules read before that is used after it.                            *)
FrequencyKept ==
    [][\A s \in Schedules :
          ScheduledStart(s) /\ lastStart[s] # 0 =>
              tx["scheduler"].at >= lastStart[s] + row[s].freq]_vars

(* process_due_schedules works off its list one transaction after another, *)
(* and trigger_schedule does not look at next_run_at again.  Still a run   *)
(* is started only for a schedule that is active and was due at the time   *)
(* of the poll, unless the API changed the schedule since that poll (the   *)
(* exception is needed, see StartsOnlyDue): no entry of the list is used   *)
(* twice, none outlives its iteration, and no trigger of the loop makes    *)
(* another entry stale.                                                    *)
StartsWhatIsDue ==
    [][\A s \in Schedules :
          ScheduledStart(s) /\ s \notin touched => DueAt(s, polledAt)]_vars

(* The same without the exception, which the code does not keep: a         *)
(* schedule that a manual run or an edit has moved on after the listing is *)
(* started all the same.                                                   *)
StartsOnlyDue ==
    [][\A s \in Schedules : ScheduledStart(s) => DueAt(s, polledAt)]_vars

(* A due schedule is served: unless the API takes it away, its next run is *)
(* moved on, whatever else is due and although one failing schedule ends   *)
(* the iteration for all.  (MaxRuns is a bound of the model.)              *)
DueIsServed ==
    \A s \in Schedules, n \in 1..MaxTime :
        (Due(s) /\ row[s].next = n /\ row[s].start <= now)
          ~> (row[s].next # n \/ life[s] # "stored" \/ ~row[s].active \/ Len(runs) = MaxRuns)

(* What "Skipped because the suite is already running." and the test of    *)
(* that name promise: a schedule never starts the suite while a run of it  *)
(* is under way.                                                           *)
NoOverlap ==
    [][Len(runs') > Len(runs) => \A r \in DOMAIN runs : runs[r] # "running"]_vars

(* What sync_schedule_execution_states is for: once the remembered run has *)
(* committed its verdict, the schedule does not say "running" for ever.    *)
StatusFollowsRun ==
    \A s \in Schedules, r \in 1..MaxRuns :
        (row[s].status = "running" /\ row[s].exec = r /\ r \in StoredRuns)
          ~> (row[s].status # "running" \/ row[s].exec # r)
=============================================================================
