------------------------------ MODULE Datasets ------------------------------
(***************************************************************************)
(* A dataset, and a suite that reads it (data_sources/api/                 *)
(* database_table_data_source_api.py, services/dataset_query_service.py).  *)
(* The dataset names an object of a database and keeps a perimeter; a      *)
(* source of a suite keeps its own copy of the perimeter and the bindings  *)
(* of its parameters (elaborations/models/dtos/test_suite_dto.py), which a *)
(* run resolves (elaborations/services/operations/                         *)
(* command_data_resolver.py) and a preview too (api/test_suites_api.py).   *)
(* Connections and limits are left out: a preview reads the first rows of  *)
(* the same statement.                                                     *)
(***************************************************************************)
EXTENDS Perimeters

CONSTANTS
    Objects,    \* names of database objects
    Tables,     \* sequences of columns an object may have; the empty one: it does not exist
    SentPerimeters,  \* perimeters a client may send
    BindingSets,  \* parameterBindings a source may have: functions to [kind, v]
    ConstantValues  \* what a constant may hold during a run; "unset": nothing

VARIABLES
    table,    \* the columns of every object
    dataset,  \* the row of the dataset
    source,   \* the source of a suite that reads it
    sent,     \* the last perimeter that was sent for the dataset and accepted
    answer    \* how the last query ended

vars == <<table, dataset, source, sent, answer>>

NoDataset == [exists |-> FALSE, object |-> "", perimeter |-> NoPerimeter]
NoBindings == [n \in {} |-> [kind |-> "literal", v |-> "null"]]
NoSource == [exists |-> FALSE, perimeter |-> NoPerimeter, bindings |-> NoBindings]

-----------------------------------------------------------------------------
(* The handlers of /data-source/database. *)

\* insert_database_data_source_api
Insert(object, p) ==
    /\ ~dataset.exists
    /\ ~Refused(p)
    /\ dataset' = [exists |-> TRUE, object |-> object, perimeter |-> normalize(p)]
    /\ sent' = p
    /\ UNCHANGED <<table, source, answer>>

\* The perimeter is stored as it was sent.
StoredByUpdate_Raw(old, p) == IF p.has = {} THEN old ELSE p

\* update_database_data_source_api: update_entity leaves a column alone when
\* its new value is None.
StoredByUpdate(old, p) == IF normalize(p).has = {} THEN old ELSE normalize(p)

Update(object, p) ==
    /\ dataset.exists
    /\ ~Refused(p)
    /\ dataset' = [dataset EXCEPT !.object = object, !.perimeter = StoredByUpdate(@, p)]
    /\ sent' = p
    /\ UNCHANGED <<table, source, answer>>

\* The row keeps its object.
Delete_KeepsObject ==
    /\ dataset.exists
    /\ dataset' = [dataset EXCEPT !.exists = FALSE]
    /\ sent' = NoPerimeter
    /\ UNCHANGED <<table, source, answer>>

\* delete_database_data_source_api: the sources of suites are not looked at.
Delete ==
    /\ dataset.exists
    /\ dataset' = NoDataset
    /\ sent' = NoPerimeter
    /\ UNCHANGED <<table, source, answer>>

\* Someone changes the database.
Alter(object, columns) ==
    /\ table' = [table EXCEPT ![object] = columns]
    /\ UNCHANGED <<dataset, source, sent, answer>>

-----------------------------------------------------------------------------
(* The source of a suite. *)

\* DatasetSourceDto, when the suite is saved.  The dataset is not looked at,
\* nor are the bindings compared with the parameters.
SaveSource(p, bindings) ==
    /\ ~Refused(p)
    /\ source' = [exists |-> TRUE, perimeter |-> normalize(p), bindings |-> bindings]
    /\ UNCHANGED <<table, dataset, sent, answer>>

\* _resolve_preview_dataset_parameter_bindings
Previewable(bindings) == \A n \in DOMAIN bindings : bindings[n].kind # "constant_ref"

\* _resolve_dataset_parameter_bindings.  A binding that is no object of a
\* known kind is the value itself.
BoundValue(binding, constant) ==
    CASE binding.kind = "constant_ref" -> constant
      [] binding.kind = "built_in" -> resolve_builtin(binding.v)
      [] OTHER -> binding.v
Explicit(bindings, constant) == [n \in DOMAIN bindings |-> BoundValue(bindings[n], constant)]
Bindable(bindings, constant) == constant = "unset" => Previewable(bindings)

\* What preview_suite_source_api answers.
SourcePreview ==
    IF ~dataset.exists \/ ~Previewable(source.bindings) THEN NoAnswer("refused")
    ELSE execute_dataset_query(table[dataset.object], source.perimeter, Explicit(source.bindings, "unset"))

\* A run reads the perimeter of the dataset.
SourceRows_Dataset(constant) ==
    IF ~dataset.exists \/ ~Bindable(source.bindings, constant) THEN NoAnswer("refused")
    ELSE execute_dataset_query(table[dataset.object], dataset.perimeter, Explicit(source.bindings, constant))

\* Bindings of a constant only are resolved.
SourceRows_ConstantsOnly(constant) ==
    IF ~dataset.exists \/ ~Bindable(source.bindings, constant) THEN NoAnswer("refused")
    ELSE execute_dataset_query(table[dataset.object], source.perimeter,
             [n \in {m \in DOMAIN source.bindings : source.bindings[m].kind # "built_in"} |->
                 BoundValue(source.bindings[n], constant)])

\* What _resolve_source_payload reads during a run.
SourceRows(constant) ==
    IF ~dataset.exists \/ ~Bindable(source.bindings, constant) THEN NoAnswer("refused")
    ELSE execute_dataset_query(table[dataset.object], source.perimeter, Explicit(source.bindings, constant))

-----------------------------------------------------------------------------
(* Queries. *)

\* preview_database_data_source_api
DatasetPreview ==
    IF dataset.exists THEN execute_dataset_query(table[dataset.object], dataset.perimeter, [n \in {} |-> "null"])
    ELSE NoAnswer("refused")

Query ==
    /\ \/ answer' = DatasetPreview.status
       \/ source.exists /\ answer' = SourcePreview.status
       \/ source.exists /\ \E v \in ConstantValues : answer' = SourceRows(v).status
    /\ UNCHANGED <<table, dataset, source, sent>>

Init ==
    /\ table \in [Objects -> Tables]
    /\ dataset = NoDataset
    /\ source = NoSource
    /\ sent = NoPerimeter
    /\ answer = "none"

Next ==
    \/ \E o \in Objects, p \in SentPerimeters : Insert(o, p) \/ Update(o, p)
    \/ Delete
    \/ \E o \in Objects, columns \in Tables : Alter(o, columns)
    \/ \E p \in SentPerimeters, b \in BindingSets : SaveSource(p, b)
    \/ Query

Spec == Init /\ [][Next]_vars

-----------------------------------------------------------------------------
(* Properties. *)

TypeOK ==
    /\ table \in [Objects -> Tables]
    /\ dataset.object \in Objects \cup {""} /\ (dataset.exists <=> dataset.object # "")
    /\ source.bindings \in BindingSets \cup {NoBindings}
    /\ answer \in {"none", "rows", "refused", "missing", "failed"}

\* A perimeter that was accepted is accepted again, and unchanged, every time
\* it is read, previewed or run: normalize is applied on each of these
\* (execute_dataset_query, compile) and never finds anything to correct.
StoredIsNormal ==
    \A p \in {dataset.perimeter, source.perimeter} : ~Refused(p) /\ normalize(p) = p

\* compile never meets a parameter without a value ("Resolved dataset
\* parameter ... is missing."): whatever names, defaults and bindings were
\* accepted, resolve gives every parameter of a stored filter a value or
\* refuses.
NeverMissing == answer # "missing"

\* A perimeter that was accepted and is not empty is stored with the meaning
\* it was sent with: the same columns and order, and the same rows whichever
\* of its conditions hold, also when it was sent in the old form without
\* groups.
StoredMeansWhatWasSent ==
    dataset.exists /\ normalize(sent).has # {} =>
        LET conditions == {NormalCondition(c) : c \in ToSet(Conditions(sent.items))}
        IN  /\ dataset.perimeter.columns = sent.columns
            /\ dataset.perimeter.sort = sent.sort
            /\ \A sat \in SUBSET conditions : KeepsRow(dataset.perimeter, sat) <=> KeepsRow(sent, sat)

\* The preview of a source shows what a run will read, unless a parameter is
\* bound to a constant of the run: two functions resolve the bindings.
PreviewShowsTheRun ==
    source.exists /\ Previewable(source.bindings) => \A v \in ConstantValues : SourceRows(v) = SourcePreview

\* Editing the perimeter of a dataset, or making it name another object with
\* the same columns, does not change what the suites that copied it read: only
\* the object is shared.
SuitesKeepTheirPerimeter ==
    (/\ source.exists /\ source' = source /\ dataset' # dataset
     /\ dataset.exists /\ dataset'.exists
     /\ table'[dataset'.object] = table[dataset.object])
        => \A v \in ConstantValues : SourceRows(v)' = SourceRows(v)

\* "Use parameters to bind dataset filters at runtime with None, Literal or
\* Function defaults.": an accepted dataset whose columns exist can be
\* previewed with its defaults.
DefaultsCanBeUsed ==
    LET p == dataset.perimeter
        used == {c.field : c \in ToSet(Conditions(p.items))} \cup {p.sort[i].field : i \in DOMAIN p.sort}
    IN  dataset.exists /\ ToSet(p.columns) \cup used \subseteq ToSet(table[dataset.object]) /\ table[dataset.object] # <<>>
        => DatasetPreview.status = "rows"

\* A perimeter that was sent and accepted is the one that is used, the empty
\* one (all the columns, all the rows) included.
EmptyPerimeterReadsAll ==
    dataset.exists /\ normalize(sent).has = {} => dataset.perimeter.has = {}
=============================================================================
