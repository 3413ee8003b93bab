----------------------------- MODULE Perimeters -----------------------------
(***************************************************************************)
(* The perimeter of a dataset: the columns, filters, parameters and order  *)
(* of the query it stands for.  normalize, resolve and compile             *)
(* (data_sources/services/dataset_perimeter_compiler.py and                *)
(* dataset_parameter_resolver.py) as operators; no state.                  *)
(*                                                                         *)
(* A value is one of a few: "int" is 1 and "intText" the string "1",       *)
(* "float" is 1.5, "time" a datetime and "timeText" its ISO form, "word"   *)
(* any other text, "list" a list of several and "oneList" a list of one.   *)
(* A perimeter says which of its members it has; one that has none is the  *)
(* same as no perimeter.  A plain condition is a filter item of kind       *)
(* "condition" that holds one condition.                                   *)
(***************************************************************************)
EXTENDS Naturals, Sequences, FiniteSets, SequencesExt

Types == {"string", "integer", "number", "boolean", "date", "datetime"}
Resolvers == {"$now", "$today"}
NullOperators == {"is_null", "is_not_null"}
ListOperators == {"in", "not_in"}
StringOperators == {"contains", "starts_with", "ends_with"}
EqualityOperators == {"eq", "neq"}
OrderOperators == {"gt", "gte", "lt", "lte"}
Operators == NullOperators \cup ListOperators \cup StringOperators \cup EqualityOperators \cup OrderOperators
TextValues == {"word", "intText", "floatText", "boolText", "dateText", "timeText"}

NoPerimeter == [has |-> {}, params |-> <<>>, columns |-> <<>>, form |-> "items", logic |-> "AND", items |-> <<>>,
                sort |-> <<>>]

-----------------------------------------------------------------------------
(* Parameters. *)

\* str(value)
AsText(v) == CASE v = "int" -> "intText" [] v = "float" -> "floatText" [] v = "bool" -> "boolText"
               [] v = "date" -> "dateText" [] v = "time" -> "timeText" [] v \in {"list", "oneList", "emptyList"} -> "word"
               [] OTHER -> v

\* coerce_value; "error" stands for the ValueError.
coerce_value(type, v) ==
    CASE v = "null" -> "null"
      [] type = "string" -> AsText(v)
      [] type = "integer" /\ v \in {"int", "intText"} -> "int"
      [] type = "number" /\ v \in {"int", "intText"} -> "int"
      [] type = "number" /\ v \in {"float", "floatText"} -> "float"
      [] type = "boolean" /\ v \in {"bool", "boolText", "int", "intText"} -> "bool"
      [] type = "date" /\ v \in {"date", "dateText", "time", "timeText"} -> "date"
      [] type = "datetime" /\ v \in {"date", "dateText", "time", "timeText"} -> "time"
      [] OTHER -> "error"

\* resolve_builtin
resolve_builtin(name) == IF name = "$now" THEN "time" ELSE "date"

\* is_operator_compatible
is_operator_compatible(type, operator) ==
    \/ operator \in EqualityOperators /\ type \in Types
    \/ operator \in OrderOperators /\ type \in {"integer", "number", "date", "datetime"}
    \/ operator \in StringOperators /\ type = "string"

\* _normalize_parameter_definition: what it refuses, and what it returns.
\* value "absent" stands for a definition without default_value.
RefusedParameter(p) ==
    \/ p.name = ""
    \/ p.type \notin Types
    \/ p.value # "absent" /\ p.binding # "none"
    \/ p.value # "absent" /\ p.type \in Types /\ coerce_value(p.type, p.value) = "error"
    \/ p.binding \notin Resolvers \cup {"none"}

\* A default of null is written even when there is none.
NormalParameter_NullDefault(p) == [p EXCEPT !.value = IF @ = "absent" THEN "null" ELSE coerce_value(p.type, @)]

NormalParameter(p) ==
    [p EXCEPT !.value = IF @ = "absent" THEN @
                        ELSE LET v == coerce_value(p.type, @) IN IF v \in {"date", "time"} THEN AsText(v) ELSE v]

ParameterOf(params, name) == params[CHOOSE i \in DOMAIN params : params[i].name = name]
Names(params) == {params[i].name : i \in DOMAIN params}

-----------------------------------------------------------------------------
(* normalize *)

\* _normalize_filter_value
RefusedValue(params, operator, value) ==
    IF value.kind = "parameter"
    THEN \/ value.v \notin Names(params)
         \/ operator \in ListOperators
         \/ ~is_operator_compatible(ParameterOf(params, value.v).type, operator)
    ELSE \/ operator \in ListOperators /\ value.v \notin {"list", "oneList"}
         \/ operator \in StringOperators /\ value.v \notin TextValues

\* _normalize_filter_condition
RefusedCondition(params, c) ==
    \/ c.field = ""
    \/ c.operator \notin Operators
    \/ c.operator \notin NullOperators /\ (c.value.kind = "absent" \/ RefusedValue(params, c.operator, c.value))
NormalCondition(c) == IF c.operator \in NullOperators THEN [c EXCEPT !.value = [kind |-> "absent", v |-> "null"]] ELSE c

\* _normalize_filter_item
RefusedItem(params, item) ==
    \/ item.logic \notin {"AND", "OR"}
    \/ item.conditions = <<>>
    \/ \E i \in DOMAIN item.conditions : RefusedCondition(params, item.conditions[i])
NormalItem(item) == [item EXCEPT !.conditions = [i \in DOMAIN @ |-> NormalCondition(@[i])]]

\* The refusals of normalize.
Refused(p) ==
    \/ "parameters" \in p.has /\ \/ \E i \in DOMAIN p.params : RefusedParameter(p.params[i])
                                 \/ Cardinality(Names(p.params)) # Len(p.params)
    \/ "columns" \in p.has /\ ("" \in ToSet(p.columns) \/ ~IsInjective(p.columns))
    \/ /\ "filter" \in p.has
       /\ LET params == IF "parameters" \in p.has THEN p.params ELSE <<>>
          IN  \/ p.logic \notin {"AND", "OR"}
              \/ p.form = "items" /\ \E i \in DOMAIN p.items : RefusedItem(params, p.items[i])
              \/ p.form = "conditions" /\ \E i \in DOMAIN p.items : RefusedCondition(params, p.items[i].conditions[1])
    \/ "sort" \in p.has /\ \E i \in DOMAIN p.sort : p.sort[i].field = "" \/ p.sort[i].direction \notin {"asc", "desc"}

\* The group that stands for the conditions of the old form always asks for
\* all of them.
NormalFilter_And(p) ==
    IF p.form = "items" THEN [i \in DOMAIN p.items |-> NormalItem(p.items[i])]
    ELSE IF p.items = <<>> THEN <<>>
    ELSE << [kind |-> "group", logic |-> "AND",
             conditions |-> [i \in DOMAIN p.items |-> NormalCondition(p.items[i].conditions[1])]] >>

\* The items of a filter; the conditions of the old form become one group.
NormalFilter(p) ==
    IF p.form = "items" THEN [i \in DOMAIN p.items |-> NormalItem(p.items[i])]
    ELSE IF p.items = <<>> THEN <<>>
    ELSE << [kind |-> "group", logic |-> p.logic,
             conditions |-> [i \in DOMAIN p.items |-> NormalCondition(p.items[i].conditions[1])]] >>

\* normalize, of a perimeter it does not refuse.  An empty list of parameters
\* and a filter without items are left out; empty columns and an empty order
\* are kept.
normalize(p) ==
    LET params == IF "parameters" \in p.has THEN [i \in DOMAIN p.params |-> NormalParameter(p.params[i])] ELSE <<>>
        items == IF "filter" \in p.has THEN NormalFilter(p) ELSE <<>>
    IN  [has |-> {m \in p.has : m = "parameters" => params # <<>>} \ (IF items = <<>> THEN {"filter"} ELSE {}),
         params |-> params,
         columns |-> IF "columns" \in p.has THEN p.columns ELSE <<>>,
         form |-> "items",
         logic |-> IF items = <<>> THEN "AND" ELSE p.logic,
         items |-> items,
         sort |-> IF "sort" \in p.has THEN p.sort ELSE <<>>]

-----------------------------------------------------------------------------
(* resolve: the value of every parameter.  explicit is a function. *)

\* A parameter without a default gets no value.
Resolved_DefaultsOnly(p, explicit) ==
    [n \in {m \in Names(p.params) : \/ m \in DOMAIN explicit
                                    \/ ParameterOf(p.params, m).value # "absent"
                                    \/ ParameterOf(p.params, m).binding # "none"} |->
        LET d == ParameterOf(p.params, n)
        IN  IF n \in DOMAIN explicit THEN coerce_value(d.type, explicit[n])
            ELSE IF d.value \notin {"absent", "null"} THEN coerce_value(d.type, d.value)
            ELSE IF d.binding # "none" THEN coerce_value(d.type, resolve_builtin(d.binding)) ELSE "null"]

\* resolve, with _resolve_default_value
Resolved(p, explicit) ==
    [n \in Names(p.params) |->
        LET d == ParameterOf(p.params, n)
        IN  IF n \in DOMAIN explicit THEN coerce_value(d.type, explicit[n])
            ELSE IF d.value \notin {"absent", "null"} THEN coerce_value(d.type, d.value)
            ELSE IF d.binding # "none" THEN coerce_value(d.type, resolve_builtin(d.binding)) ELSE "null"]

\* Without parameters the explicit values are not looked at.
Resolvable(p, explicit) ==
    p.params # <<>> =>
        /\ DOMAIN explicit \subseteq Names(p.params)
        /\ LET values == Resolved(p, explicit) IN \A n \in DOMAIN values : values[n] # "error"

-----------------------------------------------------------------------------
(* compile *)

Conditions(items) == FlattenSeq([i \in DOMAIN items |-> items[i].conditions])

\* SQLAlchemy compares None and booleans for equality only: anything else
\* raises ArgumentError, which is no ValueError.
Comparable(operator, v) == operator \in OrderOperators \cup StringOperators => v \notin {"null", "bool"}

\* _compile_condition
CompiledValue(c, values) == IF c.value.kind = "parameter" THEN values[c.value.v] ELSE c.value.v
ConditionStatus(available, values, c) ==
    IF c.field \notin available THEN "refused"
    ELSE IF c.value.kind = "parameter" /\ c.value.v \notin DOMAIN values THEN "missing"
    ELSE IF ~Comparable(c.operator, CompiledValue(c, values)) THEN "failed" ELSE "ok"

\* _compile_filter_item
CompiledItem(item, values) ==
    [item EXCEPT !.conditions =
        [i \in DOMAIN item.conditions |->
            [item.conditions[i] EXCEPT !.value = [kind |-> "literal", v |-> CompiledValue(item.conditions[i], values)]]]]

NoAnswer(status) == [status |-> status, columns |-> <<>>, logic |-> "AND", items |-> <<>>, sort |-> <<>>]

\* compile: a statement, or the first error.  all is the sequence of the
\* columns of the table, p is normal.
compile(all, p, values) ==
    LET available == ToSet(all)
        conditions == Conditions(p.items)
        bad == {i \in DOMAIN conditions : ConditionStatus(available, values, conditions[i]) # "ok"}
    IN  IF ~(ToSet(p.columns) \subseteq available) THEN NoAnswer("refused")
        ELSE IF bad # {}
        THEN NoAnswer(ConditionStatus(available, values, conditions[CHOOSE i \in bad : \A j \in bad : i <= j]))
        ELSE IF \E i \in DOMAIN p.sort : p.sort[i].field \notin available THEN NoAnswer("refused")
        ELSE [status |-> "rows",
              columns |-> IF p.columns = <<>> THEN all ELSE p.columns,
              logic |-> p.logic,
              items |-> [i \in DOMAIN p.items |-> CompiledItem(p.items[i], values)],
              sort |-> p.sort]

\* execute_dataset_query, as far as the perimeter decides it.  all is empty
\* when the object is not in the database.
execute_dataset_query(all, p, explicit) ==
    IF Refused(p) THEN NoAnswer("refused")
    ELSE LET n == normalize(p)
         IN  IF ~Resolvable(n, explicit) \/ all = <<>> THEN NoAnswer("refused")
             ELSE LET values == Resolved(n, explicit) IN compile(all, n, values)

-----------------------------------------------------------------------------
(* What a perimeter means, for any form of filter: the rows for which the  *)
(* normal conditions in sat, and no others, are true.                      *)
Joined(logic, truths) == IF logic = "OR" THEN TRUE \in truths ELSE FALSE \notin truths
KeepsRow(p, sat) ==
    \/ "filter" \notin p.has \/ p.items = <<>>
    \/ Joined(p.logic,
              {Joined(p.items[i].logic, {(NormalCondition(c) \in sat) : c \in ToSet(p.items[i].conditions)}) :
                  i \in DOMAIN p.items})
=============================================================================
