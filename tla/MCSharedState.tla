---------------------------- MODULE MCSharedState ----------------------------
(***************************************************************************)
(* What is kept in several places at once: the mock servers, in their      *)
(* table, their registry and their threads; the tables and datasets that   *)
(* the commands of runs write; and what the sessions of two pages keep,    *)
(* the datasets and the commands of a hook.  A behaviour follows one part; *)
(* the variables of the others are absent.                                 *)
(***************************************************************************)
EXTENDS Naturals, TLC

CONSTANTS None,
          Servers, Endpoints, Queues, Tenants, TenantOf, Bindings, Faults, MaxStarts, \* of MockServerRegistry
          New, Runs, Tables, Datasets, Named, Keys, Commands, Lengths, MaxCommands,
          MaxFaults,                                                 \* of TableCommands
          Ids, PageFaults, MaxVersion,                               \* of DatasetsPage
          Loaded, MaxOfHook, MaxClicks                               \* of SuiteEditor

VARIABLES
    part,                                                            \* the part that is followed
    up, table, servers, byEndpoint, registered, listeners, broken, halfway, \* MockServerRegistry
    tables, datasets, runs, breaks,                                  \* TableCommands
    rows, list, loaded, previews, selected, opened, visible, edited, page, \* DatasetsPage
    ops, stored, chosen, marks, fields, apiRows, dialog, tags, clicks, shifted, last  \* SuiteEditor

ofRegistry == <<up, table, servers, byEndpoint, registered, listeners, broken, halfway>>
ofTables == <<tables, datasets, runs, breaks>>
ofPage == <<rows, list, loaded, previews, selected, opened, visible, edited, page>>
ofEditor == <<ops, stored, chosen, marks, fields, apiRows, dialog, tags, clicks, shifted, last>>
vars == <<part, ofRegistry, ofTables, ofPage, ofEditor>>

Registry == INSTANCE MockServerRegistry
Writers == INSTANCE TableCommands
Page == INSTANCE DatasetsPage WITH Faults <- PageFaults
Editor == INSTANCE SuiteEditor WITH
    selected <- chosen, rows <- apiRows, MaxCommands <- MaxOfHook

ASSUME SharedAssumption ==
    /\ Registry!RegistryAssumption
    /\ Writers!TableCommandsAssumption
    /\ Page!PageAssumption
    /\ Editor!EditorAssumption

\* Values for the constants.  Two mock servers in the database of one tenant; a
\* server has no queue or two, and its list is edited under its listeners.
CONSTANTS m1, m2, q1, q2, t1
OneTenant == m1 :> t1 @@ m2 :> t1
ListsOfQueues == {<<>>, <<q1, q2>>}

\* Every kind of command on a table with two keys, that one dataset names;
\* records without the key, the same key twice, a dataset that is not there.
OnTable(kind, mode, keyed, records, dataset) ==
    [kind |-> kind, table |-> "t", mode |-> mode, keyed |-> keyed, rows |-> records, dataset |-> dataset]
MCCommands ==
    {OnTable("export", "append", FALSE, <<"a">>, "new"),
     OnTable("export", "insert-update", TRUE, <<"a", None>>, "d"),
     OnTable("export", "insert-update", TRUE, <<"a", "a">>, "new"),
     OnTable("export", "insert-update", FALSE, <<"a">>, "e"),
     OnTable("export", "drop-create", FALSE, <<"b">>, "d"),
     OnTable("export", "drop-create", FALSE, <<>>, "d"),
     OnTable("save", "append", FALSE, <<"b">>, None)}
    \cup {OnTable(kind, "append", FALSE, <<>>, None) : kind \in {"dropTable", "cleanTable"}}
    \cup {OnTable(kind, "append", FALSE, <<>>, "d") : kind \in {"dropDataset", "cleanDataset"}}

MCNamed == "d" :> "t" @@ "e" :> None

\* Two runs side by side; one run with several commands.
MCLengths == {<<1, 1>>, <<3, 0>>}

\* A hook with one command for each kind of editor.
MCLoaded == <<"typed", "api", "generic">>

-----------------------------------------------------------------------------
NoRegistry == /\ up = None /\ table = None /\ servers = None /\ byEndpoint = None
              /\ registered = None /\ listeners = None /\ broken = None /\ halfway = None
NoTables == tables = None /\ datasets = None /\ runs = None /\ breaks = None
NoPage == /\ rows = None /\ list = None /\ loaded = None /\ previews = None /\ selected = None
          /\ opened = None /\ visible = None /\ edited = None /\ page = None
NoEditor == /\ ops = None /\ stored = None /\ chosen = None /\ marks = None /\ fields = None /\ apiRows = None
            /\ dialog = None /\ tags = None /\ clicks = None /\ shifted = None /\ last = None

Init ==
    \/ part = "registry" /\ Registry!Init /\ NoTables /\ NoPage /\ NoEditor
    \/ part = "tables" /\ Writers!Init /\ NoRegistry /\ NoPage /\ NoEditor
    \/ part = "page" /\ Page!Init /\ NoRegistry /\ NoTables /\ NoEditor
    \/ part = "editor" /\ Editor!Init /\ NoRegistry /\ NoTables /\ NoPage

\* Step A of a part.
OfRegistry(A) == part = "registry" /\ A /\ UNCHANGED <<part, ofTables, ofPage, ofEditor>>
OfTables(A) == part = "tables" /\ A /\ UNCHANGED <<part, ofRegistry, ofPage, ofEditor>>
OfPage(A) == part = "page" /\ A /\ UNCHANGED <<part, ofRegistry, ofTables, ofEditor>>
OfEditor(A) == part = "editor" /\ A /\ UNCHANGED <<part, ofRegistry, ofTables, ofPage>>

Next ==
    \/ OfRegistry(Registry!Next)
    \/ OfTables(Writers!Next)
    \/ OfPage(Page!Next)
    \/ OfEditor(Editor!Next)

\* A listener's thread goes on.
Fairness ==
    \A l \in 1 .. MaxStarts :
        WF_vars(OfRegistry(l \in DOMAIN listeners /\ Registry!Exit(l)))

Spec == Init /\ [][Next]_vars /\ Fairness

-----------------------------------------------------------------------------
\* An endpoint of the registry leads to a server registered with that endpoint
\* (mock_server_runtime_registry.py), whatever was restarted, failed or stopped;
\* an active server is registered as its row says, and within one tenant is
\* reached there, unless its last handler stopped halfway (a deletion after the
\* stop, a failed start before is_active was written again); and a listener that is
\* neither asked to stop nor dead belongs to the list the next stop_server goes
\* through, as long as every broker connection can be loaded.
RegistryFollowsTable ==
    part = "registry" => /\ Registry!TypeOK
                         /\ Registry!EndpointsAgree /\ Registry!ActiveIsServed
                         /\ Registry!ListenersOwned

\* A command on a table that succeeds while no other run writes to the table
\* leaves there what its mode says (export_dataset_command_executor.py).
TablesAreAsMeant == part = "tables" => Writers!TypeOK /\ Writers!DoesWhatTheModeSays

\* A preview the session keeps was made of the dataset as it is
\* (invalidate_database_datasource_preview), and nothing in the session points
\* to a dataset that this session deleted
\* (clear_database_datasource_selection_if_matches).  The keys of a hook's
\* commands differ (_stable_ui_key), a form shows its own command or nothing as
\* long as no command was deleted, moved or given another editor, and what the
\* draft holds and the server does not is the commands whose adding was refused
\* (_persist_changes restores nothing), whatever else was refused.
SessionsAreTrue ==
    /\ part = "page" => Page!TypeOK /\ Page!PreviewsAreCurrent /\ Page!NothingPointsToTheDeleted
    /\ part = "editor" => Editor!TypeOK /\ Editor!KeysDiffer /\ Editor!ForeignOnlyAfterShift
                         /\ Editor!OnlyAdditionsWait

\* An export that appends or replaces rows loses no key of its table, in the
\* middle of its work, when a statement fails, and beside other runs.
NothingIsLost == [][part = "tables" => Writers!KeysSurvive]_vars

\* A listener asked to stop does stop, and none is revived.
StoppedListenersEnd ==
    \A l \in 1 .. MaxStarts :
        (part = "registry" /\ l \in DOMAIN listeners /\ listeners[l].stop)
            ~> (part = "registry" /\ l \in DOMAIN listeners /\ ~listeners[l].alive)

=============================================================================
