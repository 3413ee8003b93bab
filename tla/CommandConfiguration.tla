------------------------ MODULE CommandConfiguration ------------------------
(***************************************************************************)
(* The life of a command's configuration                                   *)
(* (app/elaborations/models/dtos/configuration_command_dto.py).  A payload *)
(* is parsed by a union of sixteen classes that only share the field       *)
(* commandCode: pydantic keeps the class with the most fields present, the *)
(* leftmost of those.  Its dump is stored; saving also converts the dump   *)
(* with convert_to_config_command_type, only to see that it can be done.   *)
(* A run converts the stored dump again, field by field, with defaults of  *)
(* its own; a client may send back what it was given.                      *)
(*                                                                         *)
(* A payload maps the fields that are present to tokens: "none" is null,   *)
(* "" a blank string, numbers are "-1", "0", "1", a reference is the kind  *)
(* it resolves to ("runtime", "source") or "bad" when its id is missing.   *)
(* Fields that are only copied (descriptions, schemas, template ids) and   *)
(* further spellings of one field are left out.                            *)
(***************************************************************************)
EXTENDS Naturals, Sequences, FiniteSets, SequencesExt

CONSTANTS
    Codes,       \* the command codes that are tried
    MaxResaves   \* bound: times a stored configuration is sent back

ConfigurationAssumption == MaxResaves \in Nat

VARIABLES
    code,      \* commandCode of the command
    written,   \* the payload the user sent
    stored,    \* configuration_json
    executed,  \* the configuration object of the last run
    status,    \* "new", "refused", "stored", "ran" or "failed"
    resaves

vars == <<code, written, stored, executed, status, resaves>>

-----------------------------------------------------------------------------
(* The classes, in the order of ConfigurationCommandTypes. *)

Classes == <<"setVariable", "deleteVariable", "sleep", "readApi", "writeApi",
             "sendMessageQueue", "saveTable", "dropTable", "cleanTable",
             "exportDataset", "dropDataset", "cleanDataset", "receiveQueue",
             "queryDatabase", "runSuite", "assert">>

Asserts == {"jsonEquals", "jsonEmpty", "jsonNotEmpty", "jsonContains",
            "jsonArrayEquals", "jsonArrayEmpty", "jsonArrayNotEmpty", "jsonArrayContains"}

ClassOf(c) == IF c \in Asserts THEN "assert" ELSE c

HttpFields == {"method", "url", "queryParams", "headers", "pathParams", "authorization",
               "bodyType", "timeoutSeconds", "resultConstant"}

\* The fields of each class, but for commandCode and commandType.
Fields(class) ==
    CASE class = "setVariable" -> {"definitionId", "name", "key", "context", "scope", "valueType",
                                   "sourceType", "value", "data", "functionName", "target"}
      [] class = "deleteVariable" -> {"targetRuntimeValueRef", "targetConstantRef"}
      [] class = "sleep" -> {"duration"}
      [] class = "readApi" -> HttpFields
      [] class = "writeApi" -> HttpFields \cup {"body"}
      [] class = "sendMessageQueue" -> {"queue_id", "inputRef", "sourceConstantRef",
                                        "message_template", "resultConstant"}
      [] class = "saveTable" -> {"table_name", "inputRef", "sourceConstantRef", "resultConstant"}
      [] class \in {"dropTable", "cleanTable"} -> {"table_name"}
      [] class = "exportDataset" -> {"connection_id", "table_name", "inputRef", "sourceConstantRef",
                                     "mode", "mapping_keys", "dataset_id", "resultConstant"}
      [] class \in {"dropDataset", "cleanDataset"} -> {"dataset_id"}
      [] class = "receiveQueue" -> {"queue_id", "max_messages", "retry", "wait_time_seconds",
                                    "target", "resultConstant"}
      [] class = "queryDatabase" -> {"connection_id", "query", "target", "resultConstant"}
      [] class = "runSuite" -> {"suite_id", "runtimeValueRefs", "constantRefs", "resultConstant"}
      [] class = "assert" -> {"actualRef", "actualConstantRef", "expected", "expectedRef",
                              "expected_json_array_id", "compare_keys"}

\* Fields without a default.
Required(class) ==
    CASE class = "sleep" -> {"duration"}
      [] class = "readApi" -> {"url"}
      [] class = "writeApi" -> {"method", "url"}
      [] class \in {"sendMessageQueue", "receiveQueue"} -> {"queue_id"}
      [] class \in {"saveTable", "dropTable", "cleanTable"} -> {"table_name"}
      [] class \in {"dropDataset", "cleanDataset"} -> {"dataset_id"}
      [] class = "queryDatabase" -> {"connection_id", "query"}
      [] class = "runSuite" -> {"suite_id"}
      [] OTHER -> {}

\* Fields whose type does not admit null.
NotNull(class) ==
    Required(class) \cup
    (CASE class \in {"readApi", "writeApi"} -> {"method", "bodyType"}
       [] class = "exportDataset" -> {"mode"}
       [] class = "receiveQueue" -> {"max_messages", "retry", "wait_time_seconds"}
       [] OTHER -> {})

Default(f) ==
    CASE f = "method" -> "GET"
      [] f = "bodyType" -> "json"
      [] f = "timeoutSeconds" -> "30"
      [] f = "mode" -> "append"
      [] f \in {"max_messages", "wait_time_seconds"} -> "1"
      [] f = "retry" -> "3"
      [] f \in {"runtimeValueRefs", "constantRefs"} -> <<>>
      [] OTHER -> "none"

-----------------------------------------------------------------------------
(* Conversions shared by the classes. *)

Blank(v) == v \in {"none", ""}

\* "a or b" on strings.
Or(a, b) == IF Blank(a) THEN b ELSE a

\* _normalize_token and the like: a missing token is the empty string.
Token(v) == IF Blank(v) THEN "" ELSE v

\* _coerce_input_ref, _coerce_runtime_value_ref, _coerce_result_constant: an
\* object without its id is an error.
RefValid(v) == v # "bad"

\* _normalize_target_path
TargetPath(v) == IF Blank(v) THEN "none" ELSE v

\* The context and the name a target path stands for.
TargetContext(v) == IF v = "$.global.constants.n" THEN "global" ELSE "none"
TargetName(v) == IF v = "$.global.constants.n" THEN "n" ELSE "none"

\* _normalize_http_body_type
BodyType(v) == CASE v = "" -> "json"
                 [] v = "x-www-form-urlencoded" -> "formUrlEncoded"
                 [] OTHER -> v
BodyTypeValid(v) == BodyType(v) \in {"json", "text", "formUrlEncoded"}

\* _coerce_http_kv_params: nothing in it is null.
KeyValues(v) == IF v = "empty" THEN "none" ELSE v

\* _coerce_authorization_guided, and the leaves of an unknown type.
Authorization(v) == IF v = "untyped" THEN "empty" ELSE v
AuthorizationValid(v) == v # "unknownType"

\* _coerce_http_form_body and _coerce_http_input_tree
Body(type, v) == IF type = "formUrlEncoded" /\ v = "empty" THEN "none" ELSE v
BodyValid(type, v) ==
    /\ type = "formUrlEncoded" => v \notin {"list", "sourceNode", "nested"}
    /\ v # "badNode"

-----------------------------------------------------------------------------
(* The validators.  Normal(class, q) is the object a valid q becomes; q    *)
(* has all the fields of the class.                                        *)

\* SetVariableConfigurationCommandDto: legacy spellings are folded in.
SetContext(q) ==
    LET c == Or(Or(q["context"], TargetContext(q["target"])), Or(q["scope"], "local"))
    IN  CASE c = "vars" -> "global" [] c = "auto" -> "local" [] c = "run" -> "runEnvelope" [] OTHER -> c

SetName(q) == Token(Or(Or(q["name"], TargetName(q["target"])), q["key"]))

SetType(q) == LET t == Or(q["sourceType"], Or(q["valueType"], "value"))
              IN  IF t = "raw" THEN "value" ELSE t

SetValid(q) ==
    /\ ~Blank(q["definitionId"])
    /\ SetName(q) # ""
    /\ SetContext(q) \in {"runEnvelope", "global", "local", "result"}
    /\ SetType(q) \in {"value", "json", "function", "jsonArray", "dataset"}
    /\ SetType(q) = "function" => q["functionName"] \in {"now", "today"}

SetNormal(q) ==
    [q EXCEPT !["context"] = SetContext(q),
              !["name"] = SetName(q),
              !["target"] = TargetPath(q["target"]),
              !["valueType"] = SetType(q),
              !["value"] = IF SetType(q) = "function" THEN "none"
                           ELSE IF q["value"] = "none" THEN q["data"] ELSE q["value"],
              !["functionName"] = IF SetType(q) = "function" THEN q["functionName"] ELSE "none"]

\* ReadApiConfigurationCommandDto and WriteApiConfigurationCommandDto
HttpValid(class, q) ==
    /\ IF class = "readApi" THEN q["method"] \in {"GET", ""} ELSE q["method"] \in {"POST", "DELETE"}
    /\ ~Blank(q["url"])
    /\ AuthorizationValid(q["authorization"])
    /\ BodyTypeValid(q["bodyType"])
    /\ class = "writeApi" => BodyValid(BodyType(q["bodyType"]), q["body"])
    /\ q["timeoutSeconds"] \notin {"0", "-1"}
    /\ RefValid(q["resultConstant"])

HttpNormal(class, q) ==
    [f \in DOMAIN q |->
        CASE f = "method" -> Or(q[f], "GET")
          [] f \in {"queryParams", "headers", "pathParams"} -> KeyValues(q[f])
          [] f = "authorization" -> Authorization(q[f])
          [] f = "bodyType" -> BodyType(q[f])
          [] f = "body" -> Body(BodyType(q["bodyType"]), q[f])
          [] OTHER -> q[f]]

\* The classes with an inputRef, whose older spelling is sourceConstantRef.
InputRef(q) == Or(q["inputRef"], q["sourceConstantRef"])

InputValid(class, q) ==
    /\ RefValid(q["inputRef"]) /\ RefValid(q["sourceConstantRef"])
    /\ InputRef(q) # "none"
    /\ RefValid(q["resultConstant"])
    /\ class = "exportDataset" => Or(q["mode"], "append") \in {"append", "drop-create", "insert-update"}
    /\ class = "sendMessageQueue" => q["message_template"] # "empty"

InputNormal(class, q) ==
    [f \in DOMAIN q |-> CASE f = "inputRef" -> InputRef(q)
                          [] f = "mode" -> Or(q[f], "append")
                          [] f = "mapping_keys" -> IF q[f] = "empty" THEN "none" ELSE q[f]
                          [] OTHER -> q[f]]

\* ReceiveQueueConfigurationCommandDto
ReceiveValid(q) ==
    /\ ~Blank(q["queue_id"])
    /\ q["max_messages"] \notin {"0", "-1"}
    /\ q["retry"] # "-1" /\ q["wait_time_seconds"] # "-1"
    /\ RefValid(q["resultConstant"])

\* QueryDatabaseConfigurationCommandDto
QueryValid(q) == ~Blank(q["connection_id"]) /\ ~Blank(q["query"]) /\ RefValid(q["resultConstant"])

TargetNormal(q) == [q EXCEPT !["target"] = TargetPath(q["target"])]

\* RunSuiteConfigurationCommandDto: the older list is appended.
RunSuiteValid(q) == ~Blank(q["suite_id"]) /\ RefValid(q["resultConstant"])
RunSuiteNormal(q) == [q EXCEPT !["runtimeValueRefs"] = q["runtimeValueRefs"] \o q["constantRefs"]]

\* DeleteVariableConfigurationCommandDto
DeleteValid(q) == /\ RefValid(q["targetRuntimeValueRef"]) /\ RefValid(q["targetConstantRef"])
                  /\ Or(q["targetRuntimeValueRef"], q["targetConstantRef"]) # "none"
DeleteNormal(q) == [q EXCEPT !["targetRuntimeValueRef"] =
                                Or(q["targetRuntimeValueRef"], q["targetConstantRef"])]

\* AssertConfigurationCommandDto: an older json array id is a source reference.
ActualRef(q) == Or(q["actualRef"], q["actualConstantRef"])
ExpectedRef(q) == IF q["expectedRef"] = "none" /\ ~Blank(q["expected_json_array_id"]) THEN "source"
                  ELSE q["expectedRef"]
CompareKeys(q) == IF q["compare_keys"] \in {"empty", ""} THEN "none" ELSE q["compare_keys"]

AssertValid(c, q) ==
    /\ c \in Asserts
    /\ RefValid(q["actualRef"]) /\ RefValid(q["actualConstantRef"]) /\ RefValid(q["expectedRef"])
    /\ ActualRef(q) # "none"
    /\ c \in {"jsonArrayEquals", "jsonArrayContains"} =>
          ExpectedRef(q) # "none" /\ CompareKeys(q) # "none"
    /\ c = "jsonContains" =>
          (q["expected"] # "none" \/ ExpectedRef(q) # "none") /\ CompareKeys(q) # "none"
    /\ c = "jsonEquals" => q["expected"] # "none" \/ ExpectedRef(q) # "none"

AssertNormal(q) == [q EXCEPT !["actualRef"] = ActualRef(q), !["expectedRef"] = ExpectedRef(q),
                             !["compare_keys"] = CompareKeys(q)]

Valid(class, c, q) ==
    CASE class = "setVariable" -> SetValid(q)
      [] class = "deleteVariable" -> DeleteValid(q)
      [] class \in {"readApi", "writeApi"} -> HttpValid(class, q)
      [] class \in {"sendMessageQueue", "saveTable", "exportDataset"} -> InputValid(class, q)
      [] class = "receiveQueue" -> ReceiveValid(q)
      [] class = "queryDatabase" -> QueryValid(q)
      [] class = "runSuite" -> RunSuiteValid(q)
      [] class = "assert" -> AssertValid(c, q)
      [] OTHER -> TRUE

Normal(class, q) ==
    CASE class = "setVariable" -> SetNormal(q)
      [] class = "deleteVariable" -> DeleteNormal(q)
      [] class \in {"readApi", "writeApi"} -> HttpNormal(class, q)
      [] class \in {"sendMessageQueue", "saveTable", "exportDataset"} -> InputNormal(class, q)
      [] class \in {"receiveQueue", "queryDatabase"} -> TargetNormal(q)
      [] class = "runSuite" -> RunSuiteNormal(q)
      [] class = "assert" -> AssertNormal(q)
      [] OTHER -> q

-----------------------------------------------------------------------------
(* Parsing: the union. *)

\* The object of a class with the payload's values and its own defaults.
Filled(class, p) == [f \in Fields(class) |-> IF f \in DOMAIN p THEN p[f] ELSE Default(f)]

Accepts(class, c, p) ==
    /\ Required(class) \subseteq DOMAIN p
    /\ \A f \in NotNull(class) \cap DOMAIN p : p[f] # "none"
    /\ Valid(class, c, Filled(class, p))

FieldsSet(class, p) == Cardinality(DOMAIN p \cap Fields(class))

\* Mutant: the first class that accepts is taken.
Chosen_LeftToRight(c, p) == SelectInSeq(Classes, LAMBDA class : Accepts(class, c, p))

\* Smart mode: the most fields present, the leftmost of those; 0 when no class
\* accepts the payload.
Chosen(c, p) ==
    SelectInSeq(Classes, LAMBDA class :
        /\ Accepts(class, c, p)
        /\ \A j \in DOMAIN Classes : Accepts(Classes[j], c, p) =>
              FieldsSet(Classes[j], p) <= FieldsSet(class, p))

Dump(c, p) == LET class == Classes[Chosen(c, p)] IN Normal(class, Filled(class, p))

-----------------------------------------------------------------------------
(* convert_to_config_command_type: every field is looked up in the stored  *)
(* dictionary under its names, blanks are skipped, and some fields have a  *)
(* default after "or", which also replaces a zero.                         *)

\* _first_non_empty over the names a field has, with the names of the dump.
Spellings(c, f) ==
    CASE c = "exportDataset" /\ f = "connection_id" -> <<"connection_id", "dataset_id">>
      [] f = "name" -> <<"name", "key">>
      [] f = "context" -> <<"context", "scope">>
      [] f = "value" -> <<"value", "data">>
      [] f = "valueType" -> <<"valueType", "sourceType">>
      [] f = "targetRuntimeValueRef" -> <<"targetRuntimeValueRef", "targetConstantRef">>
      [] f = "inputRef" -> <<"inputRef", "sourceConstantRef">>
      [] f = "actualRef" -> <<"actualRef", "actualConstantRef">>
      [] OTHER -> <<f>>

Picked(c, s, f) ==
    LET names == SelectSeq(Spellings(c, f), LAMBDA n : n \in DOMAIN s /\ ~Blank(s[n]))
    IN  IF names = <<>> THEN "none" ELSE s[Head(names)]

\* Fields the conversion does not pass on.
Dropped == {"sourceType", "data", "targetConstantRef", "sourceConstantRef",
            "actualConstantRef", "expected_json_array_id"}

\* "or" with a default: None, blank and zero all give the default.
OrDefault(f, v) ==
    IF f \in {"method", "bodyType", "timeoutSeconds", "mode", "max_messages", "retry", "wait_time_seconds"}
       /\ v \in {"none", "", "0"}
    THEN Default(f)
    ELSE IF f = "duration" /\ v = "none" THEN "0" ELSE v

\* One argument of the constructor call.
ConvertField(c, s, f) ==
    IF f \in Dropped \cup {"constantRefs"} THEN Default(f)
    ELSE IF f = "expectedRef" /\ Picked(c, s, f) = "none" /\ Picked(c, s, "expected_json_array_id") # "none"
         THEN "source"
    ELSE IF f = "runtimeValueRefs"
         THEN IF f \in DOMAIN s THEN s[f]
              ELSE IF "constantRefs" \in DOMAIN s THEN s["constantRefs"] ELSE <<>>
    ELSE OrDefault(f, Picked(c, s, f))

Converted(c, s) == [f \in Fields(ClassOf(c)) |-> ConvertField(c, s, f)]

\* The constructor validates once more.
Converts(c, s) ==
    LET q == Converted(c, s)
    IN  /\ \A f \in NotNull(ClassOf(c)) : q[f] # "none"
        /\ Valid(ClassOf(c), c, q)

\* Mutant: the stored dictionary is executed as it is.
Convert_AsStored(c, s) == s

Convert(c, s) == Normal(ClassOf(c), Converted(c, s))

-----------------------------------------------------------------------------
(* Payloads. *)

Refs == {"absent", "none", "runtime", "bad"}
Texts == {"none", "", "t"}

\* Values a client may send for a field; "absent" leaves the field out.
FieldChoices(f) ==
    CASE f \in {"definitionId", "queue_id", "table_name", "dataset_id", "connection_id",
                "query", "suite_id", "url"} -> Texts
      [] f \in {"name", "key", "data"} -> {"absent", "t"}
      [] f = "context" -> {"absent", "vars", "result", "bad"}
      [] f = "scope" -> {"absent", "auto", "global"}
      [] f \in {"valueType", "sourceType"} -> {"absent", "raw", "function", "dataset", "bad"}
      [] f = "value" -> {"absent", "", "v"}
      [] f = "functionName" -> {"absent", "now", "bad"}
      [] f = "target" -> {"absent", "", "$.global.constants.n"}
      [] f \in {"targetRuntimeValueRef", "targetConstantRef", "inputRef", "sourceConstantRef",
                "actualRef", "actualConstantRef", "expectedRef"} -> Refs
      [] f = "resultConstant" -> {"absent", "result", "bad"}
      [] f = "duration" -> {"absent", "none", "0", "1"}
      [] f = "method" -> {"absent", "", "GET", "POST"}
      [] f \in {"queryParams", "headers", "pathParams"} -> {"absent", "empty", "pairs"}
      [] f = "authorization" -> {"absent", "untyped", "basic", "unknownType"}
      [] f = "bodyType" -> {"absent", "", "x-www-form-urlencoded", "bad"}
      [] f = "body" -> {"absent", "empty", "list", "sourceNode", "literal"}
      [] f = "timeoutSeconds" -> {"absent", "none", "0", "5"}
      [] f = "message_template" -> {"absent", "empty", "template"}
      [] f = "mode" -> {"absent", "", "insert-update", "bad"}
      [] f = "mapping_keys" -> {"absent", "empty", "keys"}
      [] f \in {"max_messages", "retry", "wait_time_seconds"} -> {"absent", "none", "-1", "0", "1"}
      [] f \in {"runtimeValueRefs", "constantRefs"} -> {<<>>, <<"r">>, <<"r", "s">>}
      [] f = "expected" -> {"absent", "none", "e"}
      [] f = "expected_json_array_id" -> {"absent", "", "a"}
      [] f = "compare_keys" -> {"absent", "empty", "keys"}

\* The fields a payload is made of, two at a time away from a plain payload:
\* the fields interact in pairs.
Plain(c, f) ==
    CASE f \in Required(ClassOf(c)) -> IF f = "method" THEN "POST" ELSE IF f = "duration" THEN "1" ELSE "t"
      [] f = "definitionId" -> "t"
      [] f = "name" -> "t"
      [] f \in {"inputRef", "actualRef", "targetRuntimeValueRef", "expectedRef"} -> "runtime"
      [] f = "compare_keys" -> "keys"
      [] f \in {"runtimeValueRefs", "constantRefs"} -> <<>>
      [] OTHER -> "absent"

Payload(full) ==
    [f \in {g \in DOMAIN full : g \in {"runtimeValueRefs", "constantRefs"} \/ full[g] # "absent"} |->
        full[f]]

Variations(c) ==
    LET fs == Fields(ClassOf(c))
        plain == [f \in fs |-> Plain(c, f)]
    IN  {[plain EXCEPT ![e] = x, ![f] = y, ![g] = z] :
            <<e, x>> \in UNION {{e} \X FieldChoices(e) : e \in fs},
            <<f, y>> \in UNION {{f} \X FieldChoices(f) : f \in fs},
            <<g, z>> \in UNION {{g} \X FieldChoices(g) : g \in fs}}

-----------------------------------------------------------------------------

Nothing == [f \in {} |-> "none"]

Init ==
    /\ code \in Codes
    /\ written = Nothing /\ stored = Nothing /\ executed = Nothing
    /\ status = "new"
    /\ resaves = 0

\* Mutant: what the union accepts is stored without the conversion.
Saveable_Unconverted(c, p) == Chosen(c, p) # 0

\* A payload can be saved: the union accepts it and its dump converts, which
\* validate_suite_sources_graph and plan_definitions_for_commands try.
Saveable(c, p) == Chosen(c, p) # 0 /\ Converts(c, Dump(c, p))

Submit ==
    /\ status = "new"
    /\ \E full \in Variations(code) :
          LET p == Payload(full) IN
          /\ written' = p
          /\ IF Saveable(code, p) THEN status' = "stored" /\ stored' = Dump(code, p)
                                  ELSE status' = "refused" /\ stored' = Nothing
    /\ UNCHANGED <<code, executed, resaves>>

\* Mutant: what the conversion made of the dump is stored.
Resave_Converted ==
    /\ status \in {"stored", "ran", "failed"} /\ resaves < MaxResaves
    /\ Saveable(code, stored)
    /\ status' = "stored" /\ stored' = Convert(code, Dump(code, stored))
    /\ resaves' = resaves + 1
    /\ UNCHANGED <<code, written, executed>>

\* A client sends back the configuration it was given.
Resave ==
    /\ status \in {"stored", "ran", "failed"} /\ resaves < MaxResaves
    /\ IF Saveable(code, stored) THEN status' = "stored" /\ stored' = Dump(code, stored)
                                 ELSE status' = "refused" /\ UNCHANGED stored
    /\ resaves' = resaves + 1
    /\ UNCHANGED <<code, written, executed>>

\* A run converts what is stored, and executes it; a setVariable of a data
\* source has no executor.
Run ==
    /\ status = "stored"
    /\ executed' = IF Converts(code, stored) THEN Convert(code, stored) ELSE Nothing
    /\ status' = IF /\ Converts(code, stored)
                    /\ code = "setVariable" => executed'["valueType"] \notin {"dataset", "jsonArray"}
                 THEN "ran" ELSE "failed"
    /\ UNCHANGED <<code, written, stored, resaves>>

Next == Submit \/ Resave \/ Run

Spec == Init /\ [][Next]_vars

-----------------------------------------------------------------------------

\* Type invariant.
TypeOK ==
    /\ status \in {"new", "refused", "stored", "ran", "failed"}
    /\ resaves \in 0..MaxResaves
    /\ status \in {"stored", "ran"} => DOMAIN stored \subseteq UNION {Fields(Classes[j]) : j \in DOMAIN Classes}
    /\ status = "ran" => DOMAIN executed = Fields(ClassOf(code))

\* What the client wrote, as the class of the command understands it.
Intended ==
    LET q == Normal(ClassOf(code), Filled(ClassOf(code), written))
    IN  IF code = "exportDataset" /\ Blank(q["connection_id"])
        THEN [q EXCEPT !["connection_id"] = q["dataset_id"]] ELSE q

\* The fields the executors read.
Meaning == Fields(ClassOf(code)) \ (Dropped \cup {"key", "scope", "target", "constantRefs"})

\* A blank and a missing identifier are the same; the value of a variable is
\* compared as it is.
SameValue(f, a, b) == CASE f \in {"runtimeValueRefs", "constantRefs"} -> Range(a) = Range(b)
                        [] f = "value" -> a = b
                        [] OTHER -> Token(a) = Token(b)

\* A value the conversion takes for a missing one.
Falsy(f) ==
    \/ f \in {"retry", "wait_time_seconds"} /\ Intended[f] = "0"
    \/ f = "timeoutSeconds" /\ Intended[f] = "none"
    \/ f = "value" /\ Intended[f] = ""

\* A payload that the command's own class accepts runs with the values that
\* were written, whatever class of the union it was stored through and however
\* often it was sent back, but for zeros and blanks that the conversion
\* (configuration_command_dto.py:1214) takes for missing.
RunsAsWritten ==
    status = "ran" /\ Accepts(ClassOf(code), code, written) =>
        \A f \in Meaning : Falsy(f) \/ SameValue(f, executed[f], Intended[f])

\* "mode must be one of: append, drop-create, insert-update.": what the class
\* of the command refuses is not stored.
OwnClassDecides == status \in {"stored", "ran", "failed"} => Accepts(ClassOf(code), code, written)

\* What saving accepts, a run can convert, and so can the next save: a stored
\* configuration fails only because setVariable has no executor for a source.
StoredConverts ==
    /\ status = "failed" => code = "setVariable" /\ executed # Nothing
    /\ status = "refused" => resaves = 0

\* Sending a stored configuration back does not change what it means: only the
\* references of runSuite are repeated, once per save.
ResaveKeepsMeaning ==
    resaves' # resaves /\ status' = "stored" =>
       \A f \in DOMAIN stored : SameValue(f, stored'[f], stored[f])

\* "retry must be greater than or equal to zero for receiveQueue.": a zero is
\* a number of retries like another.
ZeroIsANumber ==
    status = "ran" /\ code = "receiveQueue" =>
        executed["retry"] = Intended["retry"] /\ executed["wait_time_seconds"] = Intended["wait_time_seconds"]

\* A constant of a data set or of a json array, which saving accepts, can be
\* initialised by a run.
SourcesInitialise == code = "setVariable" => status # "failed"

=============================================================================
