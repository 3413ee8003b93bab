--------------------------- MODULE MCCommandForms ---------------------------
(***************************************************************************)
(* Instances of CommandForms: the commands of a hook and those of a test,  *)
(* as the server may hold them.                                            *)
(***************************************************************************)
EXTENDS CommandForms

X == <<"path", "x">>
Y == <<"path", "y">>
S == <<"source", "s">>

Variables ==
    {[code |-> "setVariable", name |-> "v", scope |-> Scope, valueType |-> t, value |-> x, functionName |-> "now"] :
        t \in {"value", "json"}, x \in {"objA", "number", "word", "numeral"}}

Apis ==
    {[code |-> "writeApi", url |-> "u", queryParams |-> "none", headers |-> h, timeout |-> n, method |-> "PUT",
      bodyType |-> "json", body |-> b, target |-> <<"result", "t">>] :
        h \in {"none", "objA"}, n \in {1, 10}, b \in {"objB", "none"}}
    \cup {[code |-> "readApi", url |-> "u", queryParams |-> "list", headers |-> "none", timeout |-> 10, method |-> "GET",
           bodyType |-> "json", body |-> "none", target |-> NoRef]}

Table(code, source, keys) ==
    [code |-> code, table |-> IF code \in {"dropDataset", "cleanDataset"} THEN "" ELSE "tab", source |-> source,
     target |-> NoRef, mode |-> "append", keys |-> keys,
     dataset |-> IF code \in {"dropDataset", "cleanDataset"} THEN "d" ELSE ""]

Tables ==
    {Table(code, NoRef, {}) : code \in {"dropTable", "cleanTable", "dropDataset", "cleanDataset"}}
    \cup {Table("saveTable", r, {}) : r \in {X, S}}
    \cup {Table("exportDataset", r, {"a"}) : r \in {X, S}}

Messages ==
    {[code |-> "sendMessageQueue", queue |-> "q", source |-> S, template |-> e, fields |-> {},
      constant |-> IF e THEN c ELSE "none", target |-> NoRef] : e \in BOOLEAN, c \in {"string", "function"}}

Checks ==
    {[code |-> code, actual |-> a, expected |-> "none", expectedRef |-> NoRef, array |-> "", keys |-> {}] :
        code \in {"jsonEmpty", "jsonArrayEmpty"}, a \in {X, S}}
    \cup {[code |-> "jsonEquals", actual |-> X, expected |-> e, expectedRef |-> IF e = "none" THEN Y ELSE NoRef,
           array |-> "", keys |-> {}] : e \in {"none", "objA", "word"}}
    \cup {[code |-> "jsonContains", actual |-> X, expected |-> "none", expectedRef |-> NoRef, array |-> "arrA",
           keys |-> {"a"}]}

Arrays ==
    {[code |-> code, actual |-> S, expected |-> "none", expectedRef |-> NoRef, array |-> "arrA", keys |-> {"a"}] :
        code \in ArrayAsserts}

\* The form of exportDataset in a hook cannot be drawn: it passes an argument
\* that st.selectbox does not have.
HookCommands == Variables \cup Apis \cup {c \in Tables : c.code # "exportDataset"}
    \cup {[code |-> "deleteVariable", name |-> "v", scope |-> Scope, valueType |-> "value", value |-> "none",
           functionName |-> "now"]}
\* What only a test can have; the others are reached by another choice of type.
TestCommands == {c \in Tables : c.code = "exportDataset"} \cup Messages \cup Checks \cup Arrays

AllOffers == {<<>>, <<Y, S>>, <<S, X, Y>>}
=============================================================================
