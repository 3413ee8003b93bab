---------------------------- MODULE CommandForms ----------------------------
(***************************************************************************)
(* The form of one command (ui/test_suites/components/                     *)
(* suite_editor_component.py): it is filled in from the stored             *)
(* configuration (_initialize_..._command_form), corrected every time it   *)
(* is drawn (_render_..._command_form), and read when it is saved          *)
(* (_build_..._command_draft).  The server then parses what was built      *)
(* (elaborations/models/dtos/configuration_command_dto.py).                *)
(*                                                                         *)
(* A JSON value is one of a few: "none" is null, "word" a string that is   *)
(* no JSON, "numeral" a string that looks like a number, "blank" the empty *)
(* string, objA and objB objects with the key a or b.  What a box holds is *)
(* a text.  A reference is a source code or a path; keys are sets of       *)
(* names.  Comments, error messages and fields that no form shows are left *)
(* out.  The forms of a hook and of a test differ in their commands and in *)
(* the scope they write.                                                   *)
(***************************************************************************)
EXTENDS Naturals, Sequences, FiniteSets

CONSTANTS
    Scope,      \* the scope the owner writes: "global" or "local"
    Commands,   \* configurations the server may hold
    Offers,     \* sequences of references that may be on offer
    MaxChanges  \* bound: changes of a form before it is saved

FormsAssumption == MaxChanges \in Nat

VARIABLES
    stored,   \* the configuration of the command
    own,      \* it was built by a form
    form,     \* the fields of the form
    offers,   \* the references on offer where the command stands
    open,     \* the form is shown
    changes,
    outcome   \* of the last save: "none", "refused" or "built"

vars == <<stored, own, form, offers, open, changes, outcome>>

NoRef == <<"none", "">>

ArrayAsserts == {"jsonArrayEquals", "jsonArrayContains"}
ValueAsserts == {"jsonEquals", "jsonContains"}
OverValues == ValueAsserts \cup {"jsonEmpty", "jsonNotEmpty"}
Asserts == ArrayAsserts \cup ValueAsserts \cup {"jsonEmpty", "jsonNotEmpty", "jsonArrayEmpty", "jsonArrayNotEmpty"}

\* HOOK_CONTEXT_COMMAND_CODES, HOOK_ACTION_COMMAND_CODES and the like: the
\* commands among which a form can be switched.
Group(code) ==
    CASE code \in Asserts -> "assert"
      [] code \in {"setVariable", "deleteVariable"} -> "context"
      [] OTHER -> "action"

-----------------------------------------------------------------------------
(* JSON in a box. *)

\* _stringify_form_value
Text(v) == CASE v \in {"none", "blank"} -> ""
             [] v = "numeral" -> "number"
             [] OTHER -> v

\* _parse_json_input
Readable(t) == t # "word"
Parsed(t) == CASE t \in {"", "null"} -> "none"
               [] t = "quotedWord" -> "word"
               [] t = "quotedNumber" -> "numeral"
               [] t = "quotedBlank" -> "blank"
               [] OTHER -> t

\* The text of a body that is not JSON.
Plain(t) == CASE t = "" -> "none" [] t = "number" -> "numeral" [] OTHER -> t

Texts == {"", "number", "word", "quotedWord", "quotedNumber", "quotedBlank", "objA", "objB", "list", "null"}
Strings == {"word", "numeral", "blank"}

\* _json_object_keys, and the columns behind a reference or a json array.
Keys(v) == CASE v \in {"objA", "arrA"} -> {"a"} [] v \in {"objB", "arrB"} -> {"b"} [] OTHER -> {}
RefKeys(r) == CASE r = <<"path", "x">> -> {"a"} [] r[1] = "source" -> {"a", "b"} [] OTHER -> {}

-----------------------------------------------------------------------------
(* The fields of a form, filled in from a configuration. *)

\* _api_result_target_label: only the last part of the target is shown.
TargetLabel(target) == target[2]

\* _normalize_api_result_target_input
Target(label) == IF label = "" THEN NoRef ELSE <<"result", label>>

FillConstant(c) == [code |-> c.code, name |-> c.name, valueType |-> c.valueType,
                    value |-> Text(c.value), functionName |-> c.functionName]

\* Mutant: the target of the result is not filled in.
FillApi_NoTarget(c) ==
    [code |-> c.code, url |-> c.url, queryParams |-> Text(c.queryParams),
     headers |-> Text(c.headers), timeout |-> c.timeout \div 2, method |-> c.method, bodyType |-> c.bodyType, body |-> Text(c.body),
     rows |-> IF c.bodyType = "formUrlEncoded" THEN c.body ELSE "none", target |-> ""]

\* A timeout, in half seconds, is cut to whole ones.
FillApi(c) == [code |-> c.code, url |-> c.url, queryParams |-> Text(c.queryParams),
               headers |-> Text(c.headers), timeout |-> c.timeout \div 2,
               method |-> c.method, bodyType |-> c.bodyType, body |-> Text(c.body),
               rows |-> IF c.bodyType = "formUrlEncoded" THEN c.body ELSE "none",
               target |-> TargetLabel(c.target)]

\* Mutant: the template is left out.
FillMessage_NoTemplate(c) == [code |-> c.code, queue |-> c.queue, source |-> c.source, enabled |-> FALSE,
                              fields |-> c.fields, constant |-> c.constant, target |-> TargetLabel(c.target)]

FillMessage(c) == [code |-> c.code, queue |-> c.queue, source |-> c.source,
                   enabled |-> c.template,
                   fields |-> c.fields, constant |-> c.constant, target |-> TargetLabel(c.target)]

FillTable(c) == [code |-> c.code, table |-> c.table, source |-> c.source, target |-> TargetLabel(c.target),
                 mode |-> c.mode, keys |-> c.keys, dataset |-> c.dataset]

\* The expected value of an assert is typed, or chosen when it refers.  An old
\* jsonContains names an array: its first item is the expected object.
FillAssert(c) == [code |-> c.code, actual |-> c.actual,
                  mode |-> IF c.expectedRef = NoRef THEN "manual" ELSE "variable",
                  expected |-> CASE c.expectedRef # NoRef -> ""
                                 [] c.code = "jsonContains" /\ c.expected = "none" /\ c.array = "arrA" -> "objA"
                                 [] c.code = "jsonContains" /\ c.expected = "none" /\ c.array = "arrB" -> "objB"
                                 [] OTHER -> Text(c.expected), variable |-> c.expectedRef,
                  array |-> c.array, keys |-> c.keys]

Shape(code) ==
    CASE code \in {"setVariable", "deleteVariable"} -> "constant"
      [] code \in {"readApi", "writeApi"} -> "api"
      [] code = "sendMessageQueue" -> "message"
      [] code \in Asserts -> "assert"
      [] OTHER -> "table"

Filled(c) ==
    CASE Shape(c.code) = "constant" -> FillConstant(c)
      [] Shape(c.code) = "api" -> FillApi(c)
      [] Shape(c.code) = "message" -> FillMessage(c)
      [] Shape(c.code) = "table" -> FillTable(c)
      [] OTHER -> FillAssert(c)

-----------------------------------------------------------------------------
(* The form is drawn: what cannot be chosen is replaced, and a box that is *)
(* not drawn loses its text. *)

OnOffer(options) == {options[k] : k \in DOMAIN options}

\* What may be chosen as the actual or the expected value of an assert, by
\* type: a path holds a JSON value and a source an array.
Compatible(code, role) ==
    LET Fits(r) == CASE role = "source" -> TRUE
                     [] role = "actual" -> (r[1] = "source") <=> code \notin OverValues
                     [] OTHER -> r[1] = "path" /\ (code = "jsonContains" => RefKeys(r) # {})
    IN  SelectSeq(offers, Fits)

\* _render_source_constant_select: a reference that is not on offer becomes
\* the first one that is.
Chosen(ref, options) == IF ref \in OnOffer(options) THEN ref
                        ELSE IF options = <<>> THEN NoRef ELSE options[1]

\* Mutant: the keys that were chosen stay.
Choosable_All(f) == {"a", "b"}

\* The keys on offer: of the expected object, of the array, of the source.
Choosable(f) ==
    CASE f.code \in ArrayAsserts -> Keys(f.array)
      [] f.code = "jsonContains" /\ f.mode = "variable" -> RefKeys(f.variable)
      [] f.code = "jsonContains" -> IF Readable(f.expected) THEN Keys(Parsed(f.expected)) ELSE {}
      [] f.code = "exportDataset" -> RefKeys(f.source)
      [] OTHER -> {}

NeedsSource(code) == code \in {"saveTable", "exportDataset", "sendMessageQueue"}

\* _render_hook_command_form and _render_test_command_form
Drawn(f) ==
    CASE Shape(f.code) = "constant" ->
            [f EXCEPT !.valueType = IF @ \in {"value", "json", "function"} THEN @ ELSE "value"]
      [] Shape(f.code) = "api" -> [f EXCEPT !.method = IF @ = "GET" /\ f.code = "writeApi" THEN "POST" ELSE @]
      [] Shape(f.code) = "message" -> [f EXCEPT !.source = Chosen(@, offers)]
      [] Shape(f.code) = "table" ->
            LET s == [f EXCEPT !.source = IF NeedsSource(f.code) THEN Chosen(@, offers) ELSE @]
            IN  [s EXCEPT !.keys = IF f.code = "exportDataset" THEN @ \cap Choosable(s) ELSE @]
      [] OTHER ->
            LET s == [f EXCEPT !.actual = Chosen(@, Compatible(f.code, "actual")),
                               !.expected = IF f.mode = "variable" THEN "" ELSE @,
                               !.variable = IF f.code \in ValueAsserts /\ f.mode = "variable"
                                            THEN Chosen(@, Compatible(f.code, "expected")) ELSE @]
            IN  [s EXCEPT !.keys = IF f.code \in ArrayAsserts \cup {"jsonContains"} THEN @ \cap Choosable(s) ELSE @]

-----------------------------------------------------------------------------
(* The form is read.  A form that is not Complete is refused.              *)

CompleteConstant(f) ==
    /\ f.name # ""
    /\ f.code = "setVariable" /\ f.valueType \in {"value", "json"} => Readable(f.value)

CompleteApi(f) ==
    /\ f.url # ""
    /\ Readable(f.queryParams) /\ Parsed(f.queryParams) \in {"none", "objA", "objB", "list"}
    /\ Readable(f.headers) /\ (f.headers = "" \/ Parsed(f.headers) \in {"objA", "objB"})
    /\ f.code = "writeApi" /\ f.bodyType = "json" => Readable(f.body)

\* Mutant: an empty template is built.
CompleteMessage_Empty(f) == f.queue # "" /\ f.source # NoRef

\* A template has a field or a constant, of a kind that a form knows.
CompleteMessage(f) ==
    /\ f.queue # "" /\ f.source # NoRef
    /\ f.constant \in {"none", "string"}
    /\ f.enabled => f.fields # {} \/ f.constant # "none"

\* Mutant: the source is not asked for.
CompleteTable_NoSource(f) ==
    /\ f.code \notin {"dropDataset", "cleanDataset"} => f.table # ""
    /\ f.code \in {"dropDataset", "cleanDataset"} => f.dataset # ""

CompleteTable(f) ==
    /\ f.code \notin {"dropDataset", "cleanDataset"} => f.table # ""
    /\ f.code \in {"dropDataset", "cleanDataset"} => f.dataset # ""
    /\ NeedsSource(f.code) => f.source # NoRef

CompleteAssert(f) ==
    /\ f.actual # NoRef
    /\ f.code \in ValueAsserts /\ f.mode = "variable" =>
          f.variable # NoRef
    /\ f.code \in ValueAsserts /\ f.mode = "manual" =>
          /\ Readable(f.expected) /\ Parsed(f.expected) # "none"
          /\ f.code = "jsonContains" => Parsed(f.expected) \in {"objA", "objB"}
    /\ f.code \in ArrayAsserts => f.array # ""
    /\ f.code \in ArrayAsserts \cup {"jsonContains"} => f.keys # {}

Complete(f) ==
    CASE Shape(f.code) = "constant" -> CompleteConstant(f)
      [] Shape(f.code) = "api" -> CompleteApi(f)
      [] Shape(f.code) = "message" -> CompleteMessage(f)
      [] Shape(f.code) = "table" -> CompleteTable(f)
      [] OTHER -> CompleteAssert(f)

BuildConstant(f) ==
    [code |-> f.code, name |-> f.name, scope |-> Scope, valueType |-> f.valueType,
     value |-> IF f.valueType = "function" \/ f.code = "deleteVariable" THEN "none" ELSE Parsed(f.value),
     functionName |-> IF f.valueType = "function" THEN f.functionName ELSE "now"]

BuildBody(f) ==
    CASE f.code = "readApi" -> "none"
      [] f.bodyType = "json" -> Parsed(f.body)
      [] f.bodyType = "formUrlEncoded" -> f.rows
      [] OTHER -> Plain(f.body)

\* "timeout_seconds or 30"
Timeout(t) == IF t = 0 THEN 60 ELSE 2 * t

BuildApi(f) ==
    [code |-> f.code, url |-> f.url, queryParams |-> Parsed(f.queryParams), headers |-> Parsed(f.headers),
     timeout |-> Timeout(f.timeout), method |-> IF f.code = "readApi" THEN "GET" ELSE f.method,
     bodyType |-> IF f.code = "readApi" THEN "json" ELSE f.bodyType,
     body |-> IF BuildBody(f) = "blank" THEN "none" ELSE BuildBody(f), target |-> Target(f.target)]

BuildMessage(f) ==
    [code |-> f.code, queue |-> f.queue, source |-> f.source, template |-> f.enabled,
     fields |-> IF f.enabled THEN f.fields ELSE {},
     constant |-> IF f.enabled THEN f.constant ELSE "none", target |-> Target(f.target)]

BuildTable(f) ==
    LET exports == f.code = "exportDataset"
        drops == f.code \in {"dropDataset", "cleanDataset"}
    IN  [code |-> f.code, table |-> IF drops THEN "" ELSE f.table,
         source |-> IF NeedsSource(f.code) THEN f.source ELSE NoRef,
         target |-> IF NeedsSource(f.code) THEN Target(f.target) ELSE NoRef,
         mode |-> IF exports THEN f.mode ELSE "append", keys |-> IF exports THEN f.keys ELSE {},
         dataset |-> IF exports \/ drops THEN f.dataset ELSE ""]

BuildAssert(f) ==
    LET refers == f.code \in ValueAsserts /\ f.mode = "variable"
        typed == f.code \in ValueAsserts /\ f.mode = "manual"
    IN  [code |-> f.code, actual |-> f.actual,
         expected |-> IF typed THEN Parsed(f.expected) ELSE "none",
         expectedRef |-> IF refers THEN f.variable ELSE NoRef,
         array |-> IF f.code \in ArrayAsserts THEN f.array ELSE "",
         keys |-> IF f.code \in ArrayAsserts \cup {"jsonContains"} THEN f.keys ELSE {}]

Built(f) ==
    CASE Shape(f.code) = "constant" -> BuildConstant(f)
      [] Shape(f.code) = "api" -> BuildApi(f)
      [] Shape(f.code) = "message" -> BuildMessage(f)
      [] Shape(f.code) = "table" -> BuildTable(f)
      [] OTHER -> BuildAssert(f)

-----------------------------------------------------------------------------
(* The configuration classes of the server, on what a form builds.         *)

\* An expected array is taken for the code of a source of the suite.
ExpectedRef(c) == IF c.expectedRef = NoRef /\ c.array # "" THEN <<"source", c.array>> ELSE c.expectedRef

SourceCodes == {r \in OnOffer(offers) : r[1] = "source"}

Accepted(c) ==
    CASE Shape(c.code) = "constant" ->
            /\ c.name # "" /\ c.valueType \in {"value", "json", "function"}
            /\ c.valueType = "function" => c.functionName \in {"now", "today"}
      [] Shape(c.code) = "api" ->
            /\ c.url # "" /\ c.timeout > 0
            /\ IF c.code = "readApi" THEN c.method = "GET" ELSE c.method \in {"POST", "PUT", "PATCH", "DELETE"}
            /\ c.headers \in {"none", "objA", "objB"}
            /\ c.bodyType = "formUrlEncoded" => c.body \in {"none", "objA", "objB"}
      [] Shape(c.code) = "message" ->
            /\ c.queue # "" /\ c.source # NoRef
            /\ c.template => c.fields # {} \/ c.constant # "none"
      [] Shape(c.code) = "table" ->
            /\ NeedsSource(c.code) => c.source # NoRef
            /\ c.code \in {"dropDataset", "cleanDataset"} => c.dataset # ""
      [] OTHER ->
            /\ c.actual # NoRef
            /\ c.code \in ArrayAsserts \cup {"jsonContains"} => c.keys # {}
            /\ c.code \in ArrayAsserts => ExpectedRef(c) # NoRef
            /\ c.code \in ValueAsserts => c.expected # "none" \/ ExpectedRef(c) # NoRef
            /\ ExpectedRef(c)[1] = "source" => ExpectedRef(c) \in SourceCodes

-----------------------------------------------------------------------------

Init ==
    /\ stored \in Commands
    /\ own = FALSE
    /\ form = Filled(stored)
    /\ offers \in Offers
    /\ open = FALSE /\ changes = 0 /\ outcome = "none"

\* The form is opened: its fields are filled in and drawn.
Open ==
    /\ ~open
    /\ open' = TRUE
    /\ form' = Drawn(Filled(stored))
    /\ changes' = 0
    /\ UNCHANGED <<stored, own, offers, outcome>>

\* The fields a user can change, and what they can be given.
Typed(f) ==
    CASE Shape(f.code) = "constant" ->
            {[f EXCEPT !.name = ""], [f EXCEPT !.valueType = "function"], [f EXCEPT !.valueType = "json"]}
              \cup {[f EXCEPT !.value = t] : t \in Texts}
      [] Shape(f.code) = "api" ->
            {[f EXCEPT !.url = ""], [f EXCEPT !.target = "s"]}
              \cup (IF f.code = "readApi" THEN {}
                    ELSE {[f EXCEPT !.bodyType = b] : b \in {"json", "text", "formUrlEncoded"}}
                         \cup {[f EXCEPT !.rows = "objA"]}
                         \cup {[f EXCEPT !.body = t] : t \in IF f.bodyType = "text" THEN {"", "word", "number"} ELSE Texts})
      [] Shape(f.code) = "message" ->
            {[f EXCEPT !.enabled = ~@], [f EXCEPT !.fields = {}], [f EXCEPT !.fields = {"a"}],
             [f EXCEPT !.constant = "string"], [f EXCEPT !.constant = "none"]}
              \cup {[f EXCEPT !.source = r] : r \in OnOffer(offers)}
      [] Shape(f.code) = "table" ->
            {[f EXCEPT !.table = ""]}
              \cup {[f EXCEPT !.source = r] : r \in OnOffer(offers)}
              \cup {[f EXCEPT !.keys = ks] : ks \in SUBSET Choosable(f)}
              \cup {[f EXCEPT !.mode = "insert-update"], [f EXCEPT !.dataset = ""]}
      [] OTHER ->
            {[f EXCEPT !.mode = m] : m \in {"manual", "variable"}}
              \cup {[f EXCEPT !.expected = t] : t \in Texts}
              \cup {[f EXCEPT !.actual = r] : r \in OnOffer(Compatible(f.code, "actual"))}
              \cup {[f EXCEPT !.variable = r] : r \in OnOffer(Compatible(f.code, "expected"))}
              \cup {[f EXCEPT !.array = a] : a \in {"", "arrA", "arrB"}}
              \cup {[f EXCEPT !.keys = ks] : ks \in SUBSET Choosable(f)}

Change ==
    /\ open /\ changes < MaxChanges
    /\ \E f \in Typed(form) : form' = Drawn(f)
    /\ changes' = changes + 1
    /\ UNCHANGED <<stored, own, offers, open, outcome>>

\* The fields of a command type that was not shown before, or not drawn since.
\* Asserts share their fields.
Blank(code) ==
    CASE Shape(code) = "constant" ->
            [code |-> code, name |-> "", valueType |-> "value", value |-> "", functionName |-> "now"]
      [] Shape(code) = "api" ->
            [code |-> code, url |-> "", queryParams |-> "", headers |-> "", timeout |-> 30, method |-> "POST",
             bodyType |-> "json", body |-> "", rows |-> "none", target |-> ""]
      [] Shape(code) = "message" ->
            [code |-> code, queue |-> "q", source |-> NoRef, enabled |-> FALSE, fields |-> {},
             constant |-> "none", target |-> ""]
      [] Shape(code) = "table" ->
            [code |-> code, table |-> "", source |-> NoRef, target |-> "", mode |-> "append", keys |-> {},
             dataset |-> IF code = "exportDataset" THEN "" ELSE "d"]
      [] OTHER -> [form EXCEPT !.code = code]

\* Mutant: among all the commands.
SwitchType_Any ==
    /\ open /\ changes < MaxChanges
    /\ \E code \in {c.code : c \in Commands} : code # form.code /\ form' = Drawn(Blank(code))
    /\ changes' = changes + 1
    /\ UNCHANGED <<stored, own, offers, open, outcome>>

\* Another command type of the group is chosen.
SwitchType ==
    /\ open /\ changes < MaxChanges
    /\ \E code \in {c.code : c \in Commands} :
          /\ Group(code) = Group(form.code) /\ code # form.code
          /\ form' = Drawn(Blank(code))
    /\ changes' = changes + 1
    /\ UNCHANGED <<stored, own, offers, open, outcome>>

\* The form is saved; when it is not complete it stays open.
Save ==
    /\ open
    /\ IF Complete(form)
       THEN stored' = Built(form) /\ own' = TRUE /\ open' = FALSE /\ outcome' = "built"
       ELSE outcome' = "refused" /\ UNCHANGED <<stored, own, open>>
    /\ UNCHANGED <<form, offers, changes>>

Cancel ==
    /\ open /\ open' = FALSE
    /\ UNCHANGED <<stored, own, form, offers, changes, outcome>>

\* Other commands change what is on offer here.
OffersChange ==
    /\ ~open
    /\ offers' \in Offers
    /\ UNCHANGED <<stored, own, form, open, changes, outcome>>

Next == Open \/ Change \/ SwitchType \/ Save \/ Cancel \/ OffersChange

Spec == Init /\ [][Next]_vars

-----------------------------------------------------------------------------
(* Properties. *)

TypeOK ==
    /\ own \in BOOLEAN /\ open \in BOOLEAN
    /\ changes \in 0..MaxChanges
    /\ outcome \in {"none", "refused", "built"}
    /\ Group(form.code) = Group(stored.code)
    /\ offers \in Offers

\* What _build_..._command_draft makes of a form, after any changes, is a
\* configuration that the classes of the server accept.  The asserts over an
\* array are left to ArrayAssertsAreAccepted.
BuiltIsAccepted ==
    Save /\ outcome' = "built" /\ stored'.code \notin ArrayAsserts => Accepted(stored')

References(c) ==
    CASE Shape(c.code) \in {"message", "table"} -> {c.source} \ {NoRef}
      [] Shape(c.code) = "assert" -> {c.actual, c.expectedRef} \ {NoRef}
      [] OTHER -> {}

\* No string stands where the form shows JSON.
NoStrings(c) ==
    CASE Shape(c.code) = "constant" -> c.value \notin Strings
      [] Shape(c.code) = "api" -> c.bodyType = "json" => c.body \notin Strings
      [] Shape(c.code) = "assert" -> c.expected \notin Strings
      [] OTHER -> TRUE

\* A command that a form built, opened and saved again without a change, is
\* built as it was, as long as what it refers to is still on offer and no
\* string stands where JSON is shown (_initialize_..., _render_..., _build_...).
SavedAgainUnchanged ==
    own /\ NoStrings(stored) /\ References(stored) \subseteq OnOffer(offers) =>
        LET again == Drawn(Filled(stored)) IN Complete(again) /\ Built(again) = stored

\* The keys that an assert compares are keys of the value it expects, also after
\* the expected value or array was changed in the same form.
KeysBelongToExpected ==
    own /\ stored.code \in ArrayAsserts \cup {"jsonContains"} =>
        stored.keys \subseteq CASE stored.code \in ArrayAsserts -> Keys(stored.array)
                               [] stored.expectedRef # NoRef -> RefKeys(stored.expectedRef)
                               [] OTHER -> Keys(stored.expected)

\* "Per `value` puoi inserire testo o JSON": a text typed as the value of a
\* variable of type value is not refused.
TextIsAccepted ==
    [][open /\ form.code = "setVariable" /\ form.valueType = "value" /\ form.name # "" => outcome' # "refused"]_vars

\* An assert over an array that a form built is accepted by the server.
ArrayAssertsAreAccepted ==
    [][Save /\ outcome' = "built" => Accepted(stored')]_vars

=============================================================================
