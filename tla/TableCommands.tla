---------------------------- MODULE TableCommands ----------------------------
(***************************************************************************)
(* The commands that write tables and datasets: exportDataset, saveTable,  *)
(* dropTable, cleanTable, dropDataset, cleanDataset                        *)
(* (app/elaborations/services/operations/export_dataset_command_executor   *)
(* .py and its neighbours), as commands of runs that go on side by side.   *)
(*                                                                         *)
(* A run changes the rows of datasets in its session, which ends with the  *)
(* run.  The tables are changed over engines that a command makes for      *)
(* itself: each of their transactions is committed at once.  insert-update *)
(* opens one for its DELETEs and, inside it, another one for its INSERT.   *)
(*                                                                         *)
(* External: the locks of the database, as PostgreSQL has them.  A DROP    *)
(* waits for every open transaction that uses the table, and who comes     *)
(* after the waiting DROP waits for it; a DELETE waits for rows that       *)
(* another transaction has deleted, and does not see rows that were        *)
(* committed after it began; an INSERT waits for a deleted row of the same *)
(* unique key.                                                             *)
(***************************************************************************)
EXTENDS Naturals, Sequences, FiniteSets, SequencesExt

CONSTANTS
    None,
    New,          \* exportDataset without a dataset_id
    Runs,
    Tables,
    Datasets,     \* ids of datasets
    Named,        \* the table each dataset names at the start, or None
    Keys,         \* values of the mapping keys; None: the record lacks one
    Commands,     \* the commands a run may have
    Lengths,      \* for each run, of how many commands its suite may be
    MaxCommands,  \* bound: commands of a run
    MaxFaults     \* bound: statements that fail on their own account

Kinds == {"export", "save", "dropTable", "cleanTable", "dropDataset", "cleanDataset"}
Modes == {"append", "drop-create", "insert-update"}

\* rows: the mapping keys of the records that inputRef leads to, in order.
TableCommandsAssumption ==
    /\ None \notin Keys \cup Tables \cup Datasets /\ New \notin Datasets \cup {None}
    /\ Named \in [Datasets -> Tables \cup {None}]
    /\ \A c \in Commands :
           /\ c.kind \in Kinds /\ c.table \in Tables /\ c.dataset \in Datasets \cup {New, None}
           /\ c.rows \in Seq(Keys \cup {None}) /\ c.mode \in Modes /\ c.keyed \in BOOLEAN
           /\ c.kind = "export" => c.dataset # None
           /\ c.kind \in {"dropDataset", "cleanDataset"} => c.dataset \in Datasets
    /\ MaxCommands \in Nat /\ MaxFaults \in Nat /\ Lengths \subseteq [Runs -> 0..MaxCommands]

VARIABLES
    tables,    \* for each table: is it there, has it a unique key, the rows others see
    datasets,  \* the table each committed dataset names, or None
    runs,      \* for each run, where its command stands
    breaks     \* statements that failed so far

vars == <<tables, datasets, runs, breaks>>

Absent == [there |-> FALSE, unique |-> FALSE, rows |-> {}]
Created == [there |-> TRUE, unique |-> FALSE, rows |-> {}]
Places == {"idle", "drop", "dropping", "ensure", "recreate", "look", "erase", "insert",
           "commit", "register", "write", "unregister", "log", "over"}

\* A row knows the command that inserted it, and its place among the records.
Row == [key : Keys \cup {None}, by : Runs \cup {None}, nth : 0..MaxCommands, at : Nat]

\* command, table: what the run is doing, and where.  found: the rows a DELETE
\* saw.  erased: those it deleted, not yet committed.  view: the datasets of the
\* session that are not committed.  nth, left: commands done and to come.
\* before, disturbed: the table when the command began, and whether another run
\* wrote to it since.
Idle == [step |-> "idle", command |-> None, table |-> None, found |-> {}, erased |-> {},
         view |-> <<>>, dataset |-> None, nth |-> 0, left |-> 0, before |-> {}, disturbed |-> FALSE]

Init ==
    /\ \E unique \in BOOLEAN :
           tables = [t \in Tables |->
               IF \E d \in Datasets : Named[d] = t
               THEN [there |-> TRUE, unique |-> unique,
                     rows |-> {[key |-> k, by |-> None, nth |-> 0, at |-> 1] : k \in Keys}]
               ELSE Absent]
    /\ datasets = Named
    /\ \E lengths \in Lengths : runs = [r \in Runs |-> [Idle EXCEPT !.left = lengths[r]]]
    /\ breaks = 0

-----------------------------------------------------------------------------
(* What a command wants.                                                   *)

\* The rows a command inserts.
Records(r, c) ==
    {[key |-> c.rows[i], by |-> r, nth |-> runs[r].nth + 1, at |-> i] : i \in DOMAIN c.rows}

WithoutKey(rows, c) == {row \in rows : row.key = None \/ row.key \notin Range(c.rows)}

\* insert-update without mapping keys only inserts.
Replaces(c) == c.kind = "export" /\ c.mode = "insert-update" /\ c.keyed

Recreates(c) == c.kind = "export" /\ c.mode = "drop-create"

\* The rows the command's DELETE is for; k = NULL is true of no row.
Matching(c, rows) == IF Replaces(c) THEN rows \ WithoutKey(rows, c) ELSE rows

\* What the rows of a table are after the command, if nobody else is about.
Meant(r, c, before) ==
    IF c.kind \notin {"export", "save"} THEN {}
    ELSE IF c.rows = <<>> THEN before
    ELSE IF Recreates(c) THEN Records(r, c)
    ELSE (IF Replaces(c) THEN WithoutKey(before, c) ELSE before) \cup Records(r, c)

\* What a session sees of a dataset: its own change, or what is committed.
Seen(r, d) == IF d \in DOMAIN runs[r].view THEN runs[r].view[d] ELSE datasets[d]

-----------------------------------------------------------------------------
(* Locks of the database.                                                  *)

\* Run r has a transaction on the table that has begun its DELETE.
Holds(r, t) == runs[r].table = t /\ runs[r].step \in {"erase", "insert", "commit"}
               /\ (runs[r].step = "insert" => Replaces(runs[r].command))

\* A DROP waits for the table.
DropWaits(t) == \E q \in Runs : runs[q].step = "dropping" /\ runs[q].table = t

\* Another run has changed the dataset and not ended.
RowLocked(r, d) == \E q \in Runs \ {r} : d \in DOMAIN runs[q].view

-----------------------------------------------------------------------------
(* Steps of a command.                                                     *)

Go(r, step) == [runs EXCEPT ![r].step = step]

\* The rows of table t become new; others who are at work there notice.
Write(r, t, new, self) ==
    /\ tables' = [tables EXCEPT ![t] = new]
    /\ runs' = [q \in Runs |->
           IF q = r THEN self
           ELSE IF runs[q].table = t /\ new # tables[t] THEN [runs[q] EXCEPT !.disturbed = TRUE]
           ELSE runs[q]]
    /\ UNCHANGED <<datasets, breaks>>

Ended(r) == [runs[r] EXCEPT !.step = "idle", !.command = None, !.table = None, !.found = {},
             !.erased = {}, !.dataset = None, !.nth = @ + 1, !.left = @ - 1, !.before = {},
             !.disturbed = FALSE]

\* The command raises: its transactions are undone, the run goes on with the
\* next item.
Fail(r) == runs' = [runs EXCEPT ![r] = Ended(r)] /\ UNCHANGED <<tables, datasets>>

\* A command of run r begins on table t.
Begin(r, c, t, step) ==
    /\ runs' = [runs EXCEPT ![r].step = step, ![r].command = c, ![r].table = t,
                   ![r].before = tables[t].rows, ![r].disturbed = \E q \in Runs : Holds(q, t)]
    /\ UNCHANGED <<tables, datasets>>

\* Mutant: drop-create drops before it looks at the rows.
ExportDataset_DropEmpty(r, c) ==
    /\ c.kind = "export"
    /\ Begin(r, c, c.table, IF Recreates(c) THEN "drop" ELSE IF c.rows = <<>> THEN "log" ELSE "ensure")

\* Without rows an export does nothing, and drops nothing.
ExportDataset(r, c) ==
    /\ c.kind = "export"
    /\ Begin(r, c, c.table, IF c.rows = <<>> THEN "log" ELSE IF Recreates(c) THEN "drop" ELSE "ensure")

SaveTable(r, c) ==
    c.kind = "save" /\ Begin(r, c, c.table, IF c.rows = <<>> THEN "log" ELSE "ensure")

DropTable(r, c) == c.kind = "dropTable" /\ Begin(r, c, c.table, "drop")
CleanTable(r, c) == c.kind = "cleanTable" /\ Begin(r, c, c.table, "look")

\* A dataset gives these their table.
DropDataset(r, c) ==
    /\ c.kind = "dropDataset"
    /\ IF Seen(r, c.dataset) = None THEN Fail(r) ELSE Begin(r, c, Seen(r, c.dataset), "drop")

CleanDataset(r, c) ==
    /\ c.kind = "cleanDataset"
    /\ IF Seen(r, c.dataset) = None THEN Fail(r) ELSE Begin(r, c, Seen(r, c.dataset), "look")

StartCommand(r, c) ==
    /\ runs[r].step = "idle" /\ runs[r].left > 0
    /\ \/ ExportDataset(r, c) \/ SaveTable(r, c) \/ DropTable(r, c) \/ CleanTable(r, c)
       \/ DropDataset(r, c) \/ CleanDataset(r, c)
    /\ UNCHANGED breaks

\* DROP TABLE IF EXISTS is sent, and then done and committed.
SendDrop(r) == runs[r].step = "drop" /\ runs' = Go(r, "dropping") /\ UNCHANGED <<tables, datasets, breaks>>

Drop(r) ==
    LET t == runs[r].table  kind == runs[r].command.kind IN
    /\ runs[r].step = "dropping" /\ \A q \in Runs : ~Holds(q, t)
    /\ Write(r, t, Absent, [runs[r] EXCEPT !.step =
           CASE kind = "export" -> "ensure" [] kind = "dropDataset" -> "unregister" [] OTHER -> "log"])

\* ensure_table_exists; drop-create calls it twice.
EnsureTable(r) ==
    LET t == runs[r].table  c == runs[r].command IN
    /\ runs[r].step \in {"ensure", "recreate"}
    /\ Write(r, t, IF tables[t].there THEN tables[t] ELSE Created, [runs[r] EXCEPT !.step =
           IF Replaces(c) THEN "look"
           ELSE IF Recreates(c) /\ runs[r].step = "ensure" THEN "recreate" ELSE "insert"])

\* A DELETE begins; it acts on the rows that are committed now.
Look(r) ==
    LET t == runs[r].table IN
    /\ runs[r].step = "look" /\ ~DropWaits(t)
    /\ IF tables[t].there
       THEN /\ runs' = [runs EXCEPT ![r].step = "erase",
                           ![r].found = Matching(runs[r].command, tables[t].rows)]
            /\ UNCHANGED <<tables, datasets>>
       ELSE Fail(r)
    /\ UNCHANGED breaks

\* Mutant: the DELETEs of insert-update are committed before its INSERT.
Erase_Committed(r) ==
    LET t == runs[r].table IN
    /\ runs[r].step = "erase" /\ \A q \in Runs \ {r} : runs[q].erased \cap runs[r].found = {}
    /\ Write(r, t, [tables[t] EXCEPT !.rows = @ \ runs[r].found],
             [runs[r] EXCEPT !.step = IF Replaces(runs[r].command) THEN "insert" ELSE "log"])

\* The rows are deleted when no other transaction has them; clean commands
\* commit, insert-update leaves the transaction open.
Erase(r) ==
    LET t == runs[r].table IN
    /\ runs[r].step = "erase" /\ \A q \in Runs \ {r} : runs[q].erased \cap runs[r].found = {}
    /\ IF Replaces(runs[r].command)
       THEN /\ runs' = [runs EXCEPT ![r].step = "insert", ![r].erased = runs[r].found \cap tables[t].rows]
            /\ UNCHANGED <<tables, datasets, breaks>>
       ELSE Write(r, t, [tables[t] EXCEPT !.rows = @ \ runs[r].found], [runs[r] EXCEPT !.step = "log"])

\* Live rows whose unique key a record has, and such rows that a transaction
\* has deleted, that of the same command not excepted.
Clashes(r, t) ==
    IF tables[t].unique THEN {row \in tables[t].rows : row.key # None /\ row.key \in Range(runs[r].command.rows)}
    ELSE {}
Erased == UNION {runs[q].erased : q \in Runs}

\* insert_rows, in a transaction of its own.
Insert(r) ==
    LET t == runs[r].table  c == runs[r].command
        Twice == tables[t].unique /\ \E i, j \in DOMAIN c.rows : i < j /\ c.rows[i] = c.rows[j] /\ c.rows[i] # None
    IN
    /\ runs[r].step = "insert" /\ ~DropWaits(t)
    /\ IF ~tables[t].there \/ Twice \/ Clashes(r, t) \ Erased # {}
       THEN Fail(r) /\ UNCHANGED breaks
       ELSE /\ Clashes(r, t) = {}
            /\ Write(r, t, [tables[t] EXCEPT !.rows = @ \cup Records(r, c)], [runs[r] EXCEPT !.step =
                   CASE Replaces(c) -> "commit" [] c.kind = "save" -> "log" [] OTHER -> "register"])

\* The end of engine.begin around the DELETEs.
CommitErase(r) ==
    LET t == runs[r].table IN
    /\ runs[r].step = "commit"
    /\ Write(r, t, [tables[t] EXCEPT !.rows = @ \ runs[r].erased],
             [runs[r] EXCEPT !.step = "register", !.erased = {}])

-----------------------------------------------------------------------------
(* The dataset of an export, and of dropDataset.                           *)

\* DatasetService.update looks the dataset up; an id of no dataset is let pass.
\* insert takes an id nobody has.
Register(r) ==
    LET c == runs[r].command IN
    /\ runs[r].step = "register"
    /\ \/ /\ c.dataset = New
          /\ \E d \in Datasets :
                 /\ datasets[d] = None /\ \A q \in Runs : d \notin DOMAIN runs[q].view
                 /\ runs' = [runs EXCEPT ![r].step = "write", ![r].dataset = d]
       \/ /\ c.dataset # New
          /\ runs' = [runs EXCEPT
                 ![r].step = IF Seen(r, c.dataset) = None THEN "log" ELSE "write",
                 ![r].dataset = c.dataset]
    /\ UNCHANGED <<tables, datasets, breaks>>

\* The run's session is unusable: nothing of it is committed.
Abort(r) ==
    /\ runs' = [runs EXCEPT ![r] = [Ended(r) EXCEPT !.step = "over", !.view = <<>>]]
    /\ UNCHANGED <<tables, datasets>>

\* session.flush: an UPDATE of a row that was deleted meanwhile raises
\* StaleDataError, in the command and again when its failure is to be stored.
\* An UPDATE that changes nothing is not sent.
WriteDataset(r) ==
    LET d == runs[r].dataset
        named == [x \in DOMAIN runs[r].view \cup {d} |-> IF x = d THEN runs[r].table ELSE runs[r].view[x]]
    IN
    /\ runs[r].step = "write" /\ ~RowLocked(r, d)
    /\ \/ /\ runs[r].command.dataset # New /\ Seen(r, d) = None
          /\ Abort(r)
       \/ /\ runs[r].command.dataset = New \/ Seen(r, d) # None
          /\ runs' = [runs EXCEPT ![r].step = "log", ![r].view = named]
          /\ UNCHANGED <<tables, datasets>>
       \/ /\ Seen(r, d) = runs[r].table
          /\ runs' = Go(r, "log") /\ UNCHANGED <<tables, datasets>>
    /\ UNCHANGED breaks

\* DatasetService.delete_by_id; a row that is gone already is no error.
Unregister(r) ==
    LET d == runs[r].command.dataset IN
    /\ runs[r].step = "unregister" /\ ~RowLocked(r, d)
    /\ runs' = [runs EXCEPT ![r].step = "log",
           ![r].view = [x \in DOMAIN @ \cup {d} |-> IF x = d THEN None ELSE @[x]]]
    /\ UNCHANGED <<tables, datasets, breaks>>

\* The result constant and the log entry.
Finish(r) ==
    /\ runs[r].step = "log"
    /\ runs' = [runs EXCEPT ![r] = Ended(r)]
    /\ UNCHANGED <<tables, datasets, breaks>>

\* A statement over the command's engines, or the log entry, fails.
Break(r) ==
    /\ breaks < MaxFaults /\ breaks' = breaks + 1
    /\ runs[r].step \notin {"idle", "over", "register", "write", "unregister"}
    /\ Fail(r)

\* A run ends, with its changes or, after an exception between two commands,
\* without.
EndRun(r) ==
    /\ runs[r].step = "idle"
    /\ runs' = [runs EXCEPT ![r].step = "over", ![r].view = <<>>]
    /\ \/ datasets' = [d \in Datasets |-> Seen(r, d)]
       \/ datasets' = datasets
    /\ UNCHANGED <<tables, breaks>>

Next ==
    \E r \in Runs :
        \/ \E c \in Commands : StartCommand(r, c)
        \/ SendDrop(r) \/ Drop(r) \/ EnsureTable(r)
        \/ Look(r) \/ Erase(r) \/ Insert(r) \/ CommitErase(r)
        \/ Register(r) \/ WriteDataset(r) \/ Unregister(r) \/ Finish(r)
        \/ Break(r) \/ EndRun(r)

Spec == Init /\ [][Next]_vars

\* A command whose next step waits for nobody takes it.
Step(r) ==
    SendDrop(r) \/ Drop(r) \/ EnsureTable(r) \/ Look(r) \/ Erase(r) \/ Insert(r) \/ CommitErase(r)
    \/ Register(r) \/ WriteDataset(r) \/ Unregister(r) \/ Finish(r)
FairSpec == Spec /\ \A r \in Runs : WF_vars(Step(r)) /\ WF_vars(EndRun(r))

-----------------------------------------------------------------------------
(* Properties.                                                             *)

\* Types; and rows that are deleted and not committed are rows others see, of
\* one transaction only (export_dataset_command_executor.py, engine.begin).
TypeOK ==
    /\ \A t \in Tables : tables[t].rows \subseteq Row /\ (~tables[t].there => tables[t].rows = {})
    /\ datasets \in [Datasets -> Tables \cup {None}]
    /\ \A r \in Runs : /\ runs[r].step \in Places
                       /\ runs[r].erased # {} => runs[r].erased \subseteq tables[runs[r].table].rows
    /\ \A q, r \in Runs : q # r => runs[q].erased \cap runs[r].erased = {}
    /\ breaks \in 0..MaxFaults

\* A command that succeeds while no other run writes to its table leaves there
\* what its mode says, over however many transactions it does so: append adds,
\* drop-create starts anew, insert-update replaces the rows with the keys of its
\* records, and an export of nothing changes nothing, not even with drop-create
\* (SaveToExternalDbOperationExecutor.execute).
DoesWhatTheModeSays ==
    \A r \in Runs : runs[r].step = "log" /\ ~runs[r].disturbed =>
        tables[runs[r].table].rows = Meant(r, runs[r].command, runs[r].before)

HasKey(t, k) == \E row \in tables[t].rows : row.key = k

\* A key of a table is lost only to a command that drops or cleans it: appends
\* and insert-updates keep a row for every key there was, in the middle of
\* their work, when one of their statements fails, and beside other runs
\* (the INSERT is committed within the transaction of the DELETEs).
KeysSurvive ==
    \A t \in Tables, k \in Keys :
        HasKey(t, k) /\ ~HasKey(t, k)' =>
            \E r \in Runs : /\ runs[r].table = t /\ runs[r] # runs'[r]
                            /\ \/ runs[r].command.kind \notin {"export", "save"}
                               \/ Recreates(runs[r].command)

\* Not so, though all commands be insert-updates: one row for a key is left.
\* Two runs that replace a key at the same time both delete the old row only.
OneRowPerKey ==
    \A t \in Tables : \A row, other \in tables[t].rows :
        (\A r \in Runs : runs[r].table # t) /\ row.key # None /\ row.key = other.key => row = other

\* Not so: "Dropped dataset ... and table ...".  The table is dropped at once,
\* the dataset only with the run, which may be rolled back.
DatasetsHaveTables ==
    (\A r \in Runs : runs[r].step \in {"idle", "over"}) =>
        \A d \in Datasets : datasets[d] # None => tables[datasets[d]].there

\* Not so: a command ends.  The INSERT of insert-update waits for the DELETE of
\* its own command when the table has a unique key, or for a DROP that waits
\* for that DELETE; no party of the wait is in the database's sight.
CommandsEnd == \A r \in Runs : []<>(runs[r].step \in {"idle", "over"})

=============================================================================
