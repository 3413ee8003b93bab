--------------------------- MODULE MCAssertCommands ---------------------------
(* Instances of AssertCommands: two constants, rows with and without the   *)
(* second key, rows that occur twice, and every kind of assert.            *)
EXTENDS AssertCommands, TLC

R1 == [obj |-> ("id" :> "int1")]
R2 == [obj |-> ("id" :> "int2")]
Wide1 == [obj |-> ("id" :> "int1" @@ "code" :> "txt1")]
Wide2 == [obj |-> ("id" :> "int1" @@ "code" :> "int2")]
Dec1 == [obj |-> ("id" :> "dec1")]
Empty == [obj |-> <<>>]
Text == [scalar |-> "txt1"]

MCNames == {"x", "y"}
MCSources == ("rows" :> <<R2, R1, R1>>) @@ ("wide" :> <<Wide2, Wide1>>)
MCStored == ("one" :> R1) @@ ("two" :> [list |-> <<R1, R2>>])

Lists == {[list |-> s] : s \in {<<>>, <<R1>>, <<R1, R1>>, <<R1, R2, R1>>, <<R2, R2>>,
                                <<Wide1, Wide2>>, <<Wide1, R1>>, <<R1, Text>>}}
Plain == {Null, Text, [scalar |-> "blank"], R1, R2, Wide1, Empty}

RefTo(n) == [kind |-> "runtime", name |-> n]
FromSource(s) == [kind |-> "source", code |-> s]

Assert1(code, actual, expected, ref, keys) ==
    [op |-> "assert", code |-> code, actual |-> actual, expected |-> expected,
     expectedRef |-> ref, keys |-> keys, array |-> "none"]

Setting == {[op |-> "set", name |-> n, value |-> v] : n \in MCNames, v \in Lists \cup Plain}
    \cup {[op |-> "delete", name |-> "x"], [op |-> "sleep"]}
    \cup {[op |-> "query", target |-> t, rows |-> [list |-> <<R1>>]] : t \in {"x", "none"}}

ArrayCodes == {"jsonArrayContains", "jsonArrayEquals"}

Judging ==
    {Assert1(code, RefTo("x"), Null, ref, ks) :
        code \in ArrayCodes, ref \in {RefTo("y"), FromSource("rows"), FromSource("wide"), FromSource("gone")},
        ks \in {{"id"}, {"id", "code"}}}
    \cup {[Assert1(code, RefTo("x"), Null, RefTo("y"), {"id"}) EXCEPT !.array = id] :
            code \in ArrayCodes, id \in {"one", "two"}}
    \cup {Assert1("jsonContains", RefTo("x"), e, ref, {"id"}) :
            e \in {R1, Null}, ref \in {NoRef, RefTo("y")}}
    \cup {Assert1("jsonContains", RefTo("x"), Wide1, NoRef, {"id", "code"})}
    \cup {Assert1("jsonEquals", RefTo("x"), [ref |-> "y"], ref, {}) : ref \in {NoRef, FromSource("rows")}}
    \cup {Assert1(code, a, Null, NoRef, {}) :
            code \in {"jsonEmpty", "jsonNotEmpty", "jsonArrayEmpty", "jsonArrayNotEmpty"},
            a \in {RefTo("x"), FromSource("rows"), FromSource("gone")}}

MCCommands == Setting \cup Judging

\* Rows out of a database hold Decimals.
Decimals ==
    {[op |-> "query", target |-> "x", rows |-> [list |-> s]] : s \in {<<Dec1>>, <<Dec1, Dec1>>}}
    \cup {[op |-> "set", name |-> n, value |-> [list |-> s]] : n \in MCNames, s \in {<<R1>>, <<R1, R1>>, <<R2>>}}
    \cup {Assert1(code, RefTo("x"), Null, RefTo("y"), {"id"}) : code \in ArrayCodes}
    \cup {Assert1("jsonEquals", RefTo("x"), [ref |-> "y"], NoRef, {})}

=============================================================================
