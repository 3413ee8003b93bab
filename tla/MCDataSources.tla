----------------------------- MODULE MCDataSources -----------------------------
(***************************************************************************)
(* Data on small instances: datasets as they are stored, previewed and     *)
(* run, the editor of a perimeter, and the requests that mock servers tell *)
(* apart by their documents.  A behaviour follows one part; the variables  *)
(* of the others are absent.                                               *)
(***************************************************************************)
EXTENDS Naturals, Sequences, TLC

CONSTANTS Unused,
          Tables, ConstantValues, AllSent, SomeSent, Bindings,  \* of Datasets
          Stored, TypedConditions, Rows,                        \* of PerimeterEditor
          Routes, Requests, Values                              \* of MockDispatcher

VARIABLES
    part,                                                  \* the part that is followed
    answer,                                                \* of more than one part
    table, dataset, source, sent,                          \* Datasets
    stored, local, session, boxes, open, found, wish, astray, edits, visits,  \* PerimeterEditor
    rows, apis, loads, calls                               \* MockDispatcher

ofDatasets == <<table, dataset, source, sent>>
ofEditor == <<stored, local, session, boxes, open, found, wish, astray, edits, visits>>
ofDispatcher == <<rows, apis, loads, calls>>
vars == <<part, answer, ofDatasets, ofEditor, ofDispatcher>>

\* Every perimeter; or a few of them, two objects that exist, and sources of
\* suites that copy the perimeters.
Alone == INSTANCE MCDatasets WITH
    Objects <- {"t"}, SentPerimeters <- AllSent, BindingSets <- {}
Copied == INSTANCE MCDatasets WITH
    Objects <- {"t", "u"}, Tables <- Tables \ {<<>>}, SentPerimeters <- SomeSent, BindingSets <- Bindings

Literal(v) == [kind |-> "literal", v |-> v]
Ref(n) == [kind |-> "parameter", v |-> n]
Cond(f, o, v) == [field |-> f, operator |-> o, value |-> v]
One == Cond("a", "in", Literal("oneText"))

\* The page opened for a dataset, and for a source of a hook, where no perimeter
\* and the largest one are stored, and only lists of one are typed.
OfDataset == INSTANCE PerimeterEditor WITH
    Mode <- "dataset", TypedConditions <- TypedConditions \ {One},
    Columns <- {"a", "b"}, MaxEdits <- 2, MaxVisits <- 2
OfSource == INSTANCE PerimeterEditor WITH
    Mode <- "hook", Stored <- {p \in Stored : p.has = {} \/ "parameters" \in p.has},
    TypedConditions <- {c \in TypedConditions : c = One \/ c.value.kind = "parameter"}, Columns <- {"a", "b"}, MaxEdits <- 2, MaxVisits <- 2

Dispatcher == INSTANCE MockDispatcher WITH Loads <- 1, WithTenant <- TRUE

\* The values the constants stand for.
GivenDatasets == INSTANCE MCDatasets WITH
    Objects <- {}, Tables <- {}, SentPerimeters <- {}, BindingSets <- {}, ConstantValues <- {}
GivenEditor == INSTANCE PerimeterEditor WITH
    Mode <- "dataset", Stored <- {}, Columns <- {"a", "b"}, TypedConditions <- {}, Rows <- {},
    MaxEdits <- 0, MaxVisits <- 0

MCTables == GivenDatasets!TwoTables
MCConstantValues == GivenDatasets!SomeConstants
MCAllSent == GivenDatasets!AllPerimeters
MCSomeSent == GivenDatasets!SomePerimeters
MCBindings == GivenDatasets!SomeBindings

\* A table with two columns; perimeters that name a third one, hold a number as
\* a text or a list, or have a parameter.
Plain(c) == [kind |-> "condition", logic |-> "AND", conditions |-> <<c>>]
Row(m, v, f) == [name |-> "p", type |-> "string", mode |-> m, value |-> v, function |-> f]

SomeStored ==
    {GivenEditor!NoPerimeter,
     [GivenEditor!NoPerimeter EXCEPT !.has = {"columns"}, !.columns = <<"b", "gone">>],
     [GivenEditor!NoPerimeter EXCEPT !.has = {"columns", "parameters", "filter"}, !.columns = <<"a">>,
        !.params = <<[name |-> "p", type |-> "string", value |-> "word", binding |-> "none"]>>, !.logic = "OR",
        !.items = <<[kind |-> "group", logic |-> "AND",
                     conditions |-> <<Cond("a", "eq", Literal("intText")), Cond("b", "is_null", Literal("null"))>>],
                    Plain(Cond("a", "eq", Ref("p")))>>],
     [GivenEditor!NoPerimeter EXCEPT !.has = {"filter"}, !.items = <<Plain(Cond("a", "in", Literal("list")))>>]}
MCStored == {GivenEditor!normalize(p) : p \in SomeStored}

MCTypedConditions ==
    {Cond("a", "in", Literal("listText")), One, Cond("b", "contains", Literal("intText")), Cond("a", "eq", Ref("p"))}
MCRows == {Row("None", "null", ""), Row("Literal", "word", ""), Row("Function", "null", "")}

\* Small documents; routes that differ in what they ask for; requests over all
\* the documents.
Str(n) == [kind |-> "str", length |-> n]
Num(n) == [kind |-> "num", value |-> n]
Dict(m) == [kind |-> "dict", map |-> m]
Items(s) == [kind |-> "list", items |-> s]
Empty == [k \in {} |-> 0]
Kind(k) == [kind |-> k]

Leaves == {Str(1), Str(2), Num(0)}
MCValues ==
    Leaves
    \cup {Dict([k \in K |-> f[k]]) : K \in SUBSET {"k", "n"},
                                     f \in [{"k", "n"} -> Leaves]}
    \cup {Items(<<>>)} \cup {Items(<<a>>) : a \in Leaves}
    \cup {Items(<<a, b>>) : a, b \in Leaves}
    \cup {Items(<<Dict("k" :> a)>>) : a \in Leaves}

Route(id, priority, order, params, headers, body, match, pre, post, legacy) ==
    [id |-> id, priority |-> priority, order |-> order, target |-> "GET /o",
     params |-> params, headers |-> headers, body |-> body,
     body_match |-> match, pre |-> pre, post |-> post, legacy |-> legacy,
     response |-> ToString(id)]

MCRoutes == {
    Route(1, 0, 2, Empty, Empty, Kind("none"), "contains", FALSE, "unset", "legacy"),
    Route(2, 0, 1, "q" :> 1, Empty, Kind("any"), "contains", TRUE, "own", "legacy"),
    Route(3, 1, 1, Empty, "x-env" :> 1, Dict("k" :> Str(1)), "contains", TRUE, "empty", "legacy"),
    Route(4, 0, 3, Empty, "X-Env" :> 1, Items(<<Str(1)>>), "contains", FALSE, "own", "empty"),
    Route(5, 0, 2, Empty, Empty, Dict("k" :> Str(2)), "equals", FALSE, "unset", "empty")}

MCRequests ==
    [target : {"GET /o", "GET /p"}, params : {Empty, "q" :> 1},
     headers : {Empty, "X-Env" :> 1}, body : MCValues]

-----------------------------------------------------------------------------
NoDatasets == table = Unused /\ dataset = Unused /\ source = Unused /\ sent = Unused
NoEditor == /\ stored = Unused /\ local = Unused /\ session = Unused /\ boxes = Unused /\ open = Unused
            /\ found = Unused /\ wish = Unused /\ astray = Unused /\ edits = Unused /\ visits = Unused
NoDispatcher == rows = Unused /\ apis = Unused /\ loads = Unused /\ calls = Unused

Init ==
    \/ /\ \/ part = "alone" /\ Alone!Init
          \/ part = "copied" /\ Copied!Init
       /\ NoEditor /\ NoDispatcher
    \/ /\ \/ part = "editor of a dataset" /\ OfDataset!Init
          \/ part = "editor of a source" /\ OfSource!Init
       /\ NoDatasets /\ NoDispatcher
    \/ part = "dispatcher" /\ Dispatcher!Init /\ answer = Unused /\ NoDatasets /\ NoEditor

\* Step A of part p.
OfDatasets(p, A) == part = p /\ A /\ UNCHANGED <<part, ofEditor, ofDispatcher>>
OfEditor(p, A) == part = p /\ A /\ UNCHANGED <<part, ofDatasets, ofDispatcher>>
OfDispatcher(A) == part = "dispatcher" /\ A /\ UNCHANGED <<part, answer, ofDatasets, ofEditor>>

Next ==
    \/ OfDatasets("alone", Alone!Next)
    \/ OfDatasets("copied", Copied!Next)
    \/ OfEditor("editor of a dataset", OfDataset!Next)
    \/ OfEditor("editor of a source", OfSource!Next)
    \/ OfDispatcher(Dispatcher!Next)

Spec == Init /\ [][Next]_vars

-----------------------------------------------------------------------------
\* A perimeter that was accepted and is not empty is stored with the meaning it
\* was sent with, and is accepted again, and unchanged, every time it is
\* normalised (perimeter_compiler.py); a query never meets a parameter without a
\* value; the preview of a source shows what a run will read, unless a
\* parameter is bound to a constant of the run; and when the editor has saved,
\* the server holds what it shows until another session stores something
\* (_autosave_perimeter).  The route a request takes is the least, by priority,
\* order and id, of those that accept it (mock_runtime_dispatcher.py), where
\* containing the body a rule asks for is reflexive and transitive.
DataKeepsItsMeaning ==
    /\ part = "alone" => /\ Alone!TypeOK /\ Alone!StoredIsNormal /\ Alone!NeverMissing
                         /\ Alone!StoredMeansWhatWasSent
    /\ part = "copied" => /\ Copied!TypeOK /\ Copied!StoredIsNormal /\ Copied!NeverMissing
                          /\ Copied!PreviewShowsTheRun
    /\ part = "editor of a dataset" => OfDataset!TypeOK /\ OfDataset!SavedMeansWhatIsShown
    /\ part = "editor of a source" => OfSource!TypeOK /\ OfSource!SavedMeansWhatIsShown
    /\ part = "dispatcher" => /\ calls = <<>> => Dispatcher!BestRouteTaken
                              /\ Dispatcher!ContainsIsPreorder

\* Editing the perimeter of a dataset, or making it name another object with the
\* same columns, does not change what the suites that copied it read.  And unless a save was refused, or another session stored a
\* perimeter, since the page saved last: a change of the order that is saved
\* does nothing to the rest but read it again as the editor reads it, and coming
\* back to the page changes nothing on the server.
EditsStayWhereTheyAre ==
    [][/\ part = "copied" => Copied!SuitesKeepTheirPerimeter
       /\ part = "editor of a dataset" =>
              OfDataset!OtherPartsAreOnlyReread /\ OfDataset!EnteringChangesNothing
       /\ part = "editor of a source" =>
              OfSource!OtherPartsAreOnlyReread /\ OfSource!EnteringChangesNothing]_vars

=============================================================================
