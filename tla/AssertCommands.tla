--------------------------- MODULE AssertCommands ---------------------------
(***************************************************************************)
(* The assert commands of one item and the values they judge:              *)
(* AssertOperationExecutor                                                 *)
(* (app/elaborations/services/operations/assert_command_executor.py) and   *)
(* the evaluators (app/elaborations/services/asserts), between commands    *)
(* that set, delete and query the values.                                  *)
(*                                                                         *)
(* Every command gets the data of the one before it                        *)
(* (ExecutionResultDto.extend) besides the values of the run context.      *)
(*                                                                         *)
(* A JSON value is a record with one field: [list |-> items],              *)
(* [obj |-> object] or [scalar |-> s].  An object is a function from some  *)
(* of Keys to scalars, an item an [obj] or a [scalar].  A scalar is given  *)
(* by how it prints (json.dumps with default=str) and by its value: 1, a   *)
(* Decimal 1 out of a database and the text "1" print as 1, "1" and "1".   *)
(***************************************************************************)
EXTENDS Naturals, Sequences, FiniteSets, Functions

CONSTANTS
    Names,        \* constants of the run context
    Sources,      \* the lists of rows of the visible sources, by code
    StoredArrays, \* the payloads of the stored json arrays, by id
    Commands,     \* the commands the item may have
    MaxCommands,  \* bound: commands of an item
    LogMayFail    \* the log entry of a command may fail

AssertAssumption == MaxCommands \in Nat /\ LogMayFail \in BOOLEAN

VARIABLES
    values,     \* the constants of the run context; Null if there is none
    data,       \* execution_result.data
    artifacts,  \* result_scope["artifacts"]["asserts"]
    executed,   \* commands that were started
    item        \* "running" or "failed"

vars == <<values, data, artifacts, executed, item>>

-----------------------------------------------------------------------------

Null == [scalar |-> "null"]

IsList(v) == "list" \in DOMAIN v
IsObject(v) == "obj" \in DOMAIN v

NoRef == [kind |-> "none"]

\* What json.dumps makes of a scalar: a Decimal is printed as a text.
Printed(s) == IF s \in {"dec1", "txt1"} THEN "'1'" ELSE s

\* ==: a Decimal equals the number.
SameScalar(s, t) == s = t \/ {s, t} = {"int1", "dec1"}

SameObject(o, p) == DOMAIN o = DOMAIN p /\ \A k \in DOMAIN o : SameScalar(o[k], p[k])

SameItem(x, y) ==
    \/ IsObject(x) /\ IsObject(y) /\ SameObject(x.obj, y.obj)
    \/ ~IsObject(x) /\ ~IsObject(y) /\ SameScalar(x.scalar, y.scalar)

Same(v, w) ==
    CASE IsList(v) /\ IsList(w) -> /\ Len(v.list) = Len(w.list)
                                   /\ \A i \in DOMAIN v.list : SameItem(v.list[i], w.list[i])
      [] ~IsList(v) /\ ~IsList(w) -> SameItem(v, w)
      [] OTHER -> FALSE

\* _is_empty_json_value
IsEmpty(v) ==
    CASE IsList(v) -> v.list = <<>>
      [] IsObject(v) -> DOMAIN v.obj = {}
      [] OTHER -> v.scalar \in {"null", "blank"}

\* _normalize_rows: a list of objects.
AreRows(v) == IsList(v) /\ \A i \in DOMAIN v.list : IsObject(v.list[i])

RowsOf(v) == [i \in DOMAIN v.list |-> v.list[i].obj]

\* _build_multiset needs every compare key in every row.
HaveKeys(rows, keys) == \A i \in DOMAIN rows : keys \subseteq DOMAIN rows[i]

Tuple(row, keys) == [k \in keys |-> Printed(row[k])]

\* The counters: how often a tuple occurs.
Count(rows, keys, t) == Cardinality({i \in DOMAIN rows : Tuple(rows[i], keys) = t})

Tuples(rows, keys) == {Tuple(rows[i], keys) : i \in DOMAIN rows}

\* Mutant: the sets of rows are compared, not how often each occurs.
Contained_AsSets(a, e, keys) == Tuples(a, keys) \subseteq Tuples(e, keys)

\* JsonArrayContainsDataAssertEvaluator: the actual rows are among the expected.
Contained(a, e, keys) ==
    \A t \in Tuples(a, keys) : Count(a, keys, t) <= Count(e, keys, t)

\* JsonArrayEqualsDataAssertEvaluator
EqualRows(a, e, keys) ==
    \A t \in Tuples(a, keys) \cup Tuples(e, keys) : Count(a, keys, t) = Count(e, keys, t)

-----------------------------------------------------------------------------
(* The references of a command.                                            *)

\* _resolve_source_payload raises for a code that is not visible.
Resolvable(ref) == ref.kind = "source" => ref.code \in DOMAIN Sources

\* resolve_input_reference: a constant nobody set is None.
Resolve(ref) == IF ref.kind = "source" THEN [list |-> Sources[ref.code]] ELSE values[ref.name]

\* cfg.expected, a literal or a "$ref".
Literal(c) == IF "ref" \in DOMAIN c.expected THEN values[c.expected.ref] ELSE c.expected

UsesExpectedRef(c) == Literal(c) = Null /\ c.expectedRef # NoRef

Expected(c) == IF UsesExpectedRef(c) THEN Resolve(c.expectedRef) ELSE Literal(c)

\* What evaluate_assert makes of the command's data.
DataRows == IF IsList(data) THEN data ELSE [list |-> <<>>]

\* data_to_evaluate
Judged(actual) == IF IsList(actual) THEN actual ELSE DataRows

\* _load_expected_json_array_rows: the rows, or an error.
ExpectedPayload(c, expected) ==
    IF expected # Null THEN expected
    ELSE IF c.array \in DOMAIN StoredArrays THEN StoredArrays[c.array] ELSE Null

ExpectedRows(v) == IF IsObject(v) THEN <<v.obj>> ELSE RowsOf(v)

ArrayPasses(c, judged, expected) ==
    LET e == ExpectedPayload(c, expected)
    IN  /\ AreRows(judged)
        /\ IsObject(e) \/ AreRows(e)
        /\ HaveKeys(RowsOf(judged), c.keys)
        /\ HaveKeys(ExpectedRows(e), c.keys)
        /\ IF c.code = "jsonArrayContains"
           THEN Contained(RowsOf(judged), ExpectedRows(e), c.keys)
           ELSE EqualRows(RowsOf(judged), ExpectedRows(e), c.keys)

\* ContainsDataAssertEvaluator
ContainsPasses(c, actual, expected) ==
    /\ IsObject(actual) /\ IsObject(expected)
    /\ c.keys \subseteq DOMAIN expected.obj
    /\ c.keys \subseteq DOMAIN actual.obj
    /\ \A k \in c.keys : SameScalar(actual.obj[k], expected.obj[k])

Passes(c, actual, expected) ==
    CASE c.code \in {"jsonArrayContains", "jsonArrayEquals"} -> ArrayPasses(c, Judged(actual), expected)
      [] c.code \in {"jsonEmpty", "jsonArrayEmpty"} -> IsEmpty(actual)
      [] c.code \in {"jsonNotEmpty", "jsonArrayNotEmpty"} -> ~IsEmpty(actual)
      [] c.code = "jsonContains" -> ContainsPasses(c, actual, expected)
      [] OTHER -> Same(actual, expected)

-----------------------------------------------------------------------------

Init ==
    /\ values = [n \in Names |-> Null]
    /\ data = [list |-> <<>>]
    /\ artifacts = <<>>
    /\ executed = 0
    /\ item = "running"

\* Mutant: the command is counted although it does not start.
Start_Again ==
    /\ item = "running"
    /\ executed <= MaxCommands
    /\ executed' = executed + 1

Start ==
    /\ item = "running"
    /\ executed < MaxCommands
    /\ executed' = executed + 1

\* The log entry, then ExecutionResultDto.extend.  When the entry fails the
\* command fails, after what it did.
Finish(newData) ==
    \/ data' = newData /\ item' = item
    \/ LogMayFail /\ UNCHANGED data /\ item' = "failed"

\* setVariable: DataOperationExecutor
SetVariable(c) ==
    /\ c.op = "set" /\ Start
    /\ values' = [values EXCEPT ![c.name] = c.value]
    /\ Finish(c.value)
    /\ UNCHANGED artifacts

\* deleteVariable
DeleteVariable(c) ==
    /\ c.op = "delete" /\ Start
    /\ values' = [values EXCEPT ![c.name] = Null]
    /\ Finish(data)
    /\ UNCHANGED artifacts

\* queryDatabase: the rows become the data, and a constant when there is a target.
QueryDatabase(c) ==
    /\ c.op = "query" /\ Start
    /\ values' = IF c.target \in Names THEN [values EXCEPT ![c.target] = c.rows] ELSE values
    /\ Finish(c.rows)
    /\ UNCHANGED artifacts

\* A command that reads no data and returns it (sleep).
Sleep(c) ==
    /\ c.op = "sleep" /\ Start
    /\ Finish(data)
    /\ UNCHANGED <<values, artifacts>>

Artifact(c, status) == [cfg |-> c, actual |-> Resolve(c.actual), expected |-> Expected(c), status |-> status]

AssertPasses(c) ==
    /\ c.op = "assert" /\ Start
    /\ Resolvable(c.actual) /\ (UsesExpectedRef(c) => Resolvable(c.expectedRef))
    /\ Passes(c, Resolve(c.actual), Expected(c))
    /\ artifacts' = Append(artifacts, Artifact(c, "passed"))
    /\ Finish(data)
    /\ UNCHANGED values

\* Mutant: the failure is recorded and the item goes on.
AssertFails_GoesOn(c) ==
    /\ c.op = "assert" /\ Start
    /\ Resolvable(c.actual) /\ (UsesExpectedRef(c) => Resolvable(c.expectedRef))
    /\ ~Passes(c, Resolve(c.actual), Expected(c))
    /\ artifacts' = Append(artifacts, Artifact(c, "failed"))
    /\ UNCHANGED <<values, data, item>>

\* The failure is recorded and raised.
AssertFails(c) ==
    /\ c.op = "assert" /\ Start
    /\ Resolvable(c.actual) /\ (UsesExpectedRef(c) => Resolvable(c.expectedRef))
    /\ ~Passes(c, Resolve(c.actual), Expected(c))
    /\ artifacts' = Append(artifacts, Artifact(c, "failed"))
    /\ item' = "failed"
    /\ UNCHANGED <<values, data>>

\* A source that is not visible is raised before the evaluation.
AssertUnresolved(c) ==
    /\ c.op = "assert" /\ Start
    /\ ~Resolvable(c.actual) \/ (UsesExpectedRef(c) /\ ~Resolvable(c.expectedRef))
    /\ item' = "failed"
    /\ UNCHANGED <<values, data, artifacts>>

Next ==
    \E c \in Commands :
        \/ SetVariable(c) \/ DeleteVariable(c) \/ QueryDatabase(c) \/ Sleep(c)
        \/ AssertPasses(c) \/ AssertFails(c) \/ AssertUnresolved(c)

Spec == Init /\ [][Next]_vars

-----------------------------------------------------------------------------

TypeOK ==
    /\ DOMAIN values = Names
    /\ \A n \in Names : DOMAIN values[n] \in {{"list"}, {"obj"}, {"scalar"}}
    /\ DOMAIN data \in {{"list"}, {"obj"}, {"scalar"}}
    /\ executed \in 0..MaxCommands /\ Len(artifacts) <= executed
    /\ item \in {"running", "failed"}

\* Rows of an array assert match when they print alike under every key.
Match(row, other, keys) ==
    /\ keys \subseteq DOMAIN row \cap DOMAIN other
    /\ \A k \in keys : Printed(row[k]) = Printed(other[k])

\* What an array assert is to decide, without counting: the actual rows can be
\* paired with expected rows, no two with the same one; for equality no
\* expected row is left over.
Paired(a, e, c) ==
    /\ c.code = "jsonArrayEquals" => Len(a) = Len(e)
    /\ HaveKeys(a, c.keys) /\ HaveKeys(e, c.keys)
    /\ \E f \in Injection(DOMAIN a, DOMAIN e) : \A i \in DOMAIN a : Match(a[i], e[f[i]], c.keys)

RightVerdict(a) ==
    LET c == a.cfg
        e == ExpectedPayload(c, a.expected)
    IN  CASE c.code \in {"jsonArrayContains", "jsonArrayEquals"} ->
               AreRows(a.actual) /\ (IsObject(e) \/ AreRows(e))
                   /\ Paired(RowsOf(a.actual), ExpectedRows(e), c)
          [] c.code = "jsonContains" ->
               /\ IsObject(a.actual) /\ IsObject(a.expected)
               /\ c.keys \subseteq DOMAIN a.actual.obj \cap DOMAIN a.expected.obj
               /\ \A k \in c.keys : SameScalar(a.actual.obj[k], a.expected.obj[k])
          [] c.code \in {"jsonEmpty", "jsonArrayEmpty"} -> IsEmpty(a.actual)
          [] c.code \in {"jsonNotEmpty", "jsonArrayNotEmpty"} -> ~IsEmpty(a.actual)
          [] OTHER -> Same(a.actual, a.expected)

\* json_data_assert_evaluators: the verdict an array assert records for a list is
\* the one a pairing of its rows with rows that print alike under the compared
\* keys gives, whatever their order and however often one occurs; that of another
\* assert is the one its code names, for any value.
VerdictIsRight ==
    \A i \in DOMAIN artifacts :
        LET a == artifacts[i]
        IN  (a.cfg.code \notin {"jsonArrayContains", "jsonArrayEquals"} \/ IsList(a.actual))
                => (a.status = "passed" <=> RightVerdict(a))

\* AssertOperationExecutor.execute: an assert that is recorded as failed has
\* failed its item, and nothing was executed after it.
FailureStopsTheItem ==
    \A i \in DOMAIN artifacts :
        artifacts[i].status = "failed" => item = "failed" /\ i = Len(artifacts)

\* "actualRef is required for assert commands.": what passes is the actual value
\* the command refers to, the one its artifact shows.
JudgesItsActual ==
    \A i \in DOMAIN artifacts :
        artifacts[i].status = "passed" => RightVerdict(artifacts[i])

\* "Rows are mapped to plain dicts to keep the payload serializable end-to-end
\* (logs, run context, assert evaluation)": rows that equal the expected ones,
\* in the same order, are equal for jsonArrayEquals.
QueriedRowsCompare ==
    \A i \in DOMAIN artifacts :
        LET a == artifacts[i]
        IN  (/\ a.cfg.code = "jsonArrayEquals" /\ AreRows(a.actual) /\ AreRows(a.expected)
             /\ HaveKeys(RowsOf(a.actual), a.cfg.keys)
             /\ Same(a.actual, a.expected)) => a.status = "passed"

=============================================================================
