----------------------------- MODULE MCDatasets -----------------------------
(***************************************************************************)
(* Instances of Datasets: objects with two columns, one of which may       *)
(* disappear, and perimeters that use every kind of member.                *)
(***************************************************************************)
EXTENDS Datasets, TLC

Literal(v) == [kind |-> "literal", v |-> v]
Ref(n) == [kind |-> "parameter", v |-> n]
Absent == [kind |-> "absent", v |-> "null"]
Cond(f, o, v) == [field |-> f, operator |-> o, value |-> v]
Plain(c) == [kind |-> "condition", logic |-> "AND", conditions |-> <<c>>]
Group(l, cs) == [kind |-> "group", logic |-> l, conditions |-> cs]
Param(n, t, v, b) == [name |-> n, type |-> t, value |-> v, binding |-> b]

WithFilter(params, form, logic, items) ==
    [NoPerimeter EXCEPT !.has = {"parameters", "filter"}, !.params = params, !.form = form, !.logic = logic,
                        !.items = items]

A == Cond("a", "eq", Literal("int"))
B == Cond("b", "is_null", Literal("word"))
Uses(o) == Cond("a", o, Ref("p"))

Plainly ==
    {NoPerimeter,
     [NoPerimeter EXCEPT !.has = {"columns"}, !.columns = <<"b">>],
     [NoPerimeter EXCEPT !.has = {"columns"}],
     [NoPerimeter EXCEPT !.has = {"columns"}, !.columns = <<"a", "a">>],
     [NoPerimeter EXCEPT !.has = {"sort"}, !.sort = <<[field |-> "a", direction |-> "desc"]>>],
     [NoPerimeter EXCEPT !.has = {"parameters", "filter"}]}

Filters ==
    {WithFilter(<<>>, f, l, <<Plain(A), Plain(B)>>) : f \in {"items", "conditions"}, l \in {"AND", "OR"}}
    \cup {WithFilter(<<>>, "items", l, <<Group(k, <<A, B>>), Plain(Cond("a", "in", Literal("list")))>>) :
              l \in {"AND", "OR"}, k \in {"AND", "OR"}}
    \cup {WithFilter(<<>>, "items", "AND", <<Group("OR", <<>>)>>),
          WithFilter(<<>>, "items", "AND", <<Plain(Cond("a", "contains", Literal("int")))>>),
          WithFilter(<<>>, "items", "AND", <<Plain(Uses("eq"))>>)}

Parameters ==
    {WithFilter(<<Param("p", t, v, b)>>, "items", "AND", <<Plain(Uses(o))>>) :
        t \in {"integer", "datetime", "string"}, v \in {"absent", "null", "intText", "dateText", "word"},
        b \in {"none", "$now"}, o \in {"eq", "gt", "contains"}}
    \cup {WithFilter(<<Param("p", "integer", "absent", "none"), Param("q", "boolean", "int", "none")>>, "items", "AND",
                     <<Plain(Uses("eq"))>>)}

AllPerimeters == Plainly \cup Filters \cup Parameters
\* A perimeter with a column that may go, and one for each way a parameter gets
\* its value.
SomePerimeters ==
    {[NoPerimeter EXCEPT !.has = {"columns"}, !.columns = <<"a">>]}
    \cup {WithFilter(<<Param("p", t[1], t[2], t[3])>>, "items", "AND", <<Plain(Uses("gt"))>>) :
              t \in {<<"integer", "absent", "none">>, <<"integer", "intText", "none">>, <<"datetime", "absent", "$now">>}}

Unbound == [n \in {} |-> Literal("null")]
Bound(n, k, v) == (n :> [kind |-> k, v |-> v])
SomeBindings ==
    {Unbound, Bound("p", "constant_ref", "c"), Bound("p", "built_in", "$today"), Bound("p", "literal", "intText"),
     Bound("r", "literal", "int")}

TwoTables == {<<"a", "b">>, <<"b">>, <<>>}
SomeConstants == {"unset", "null", "int", "time"}
=============================================================================
