-------------------------- MODULE MessageTemplates --------------------------
(***************************************************************************)
(* The messages a template makes of a JSON value:                          *)
(* app/elaborations/services/operations/send_message_template_service.py.  *)
(*                                                                         *)
(* A JSON value is [obj |-> f], [list |-> s] or [scalar |-> x].  A path is *)
(* a sequence of segments [name, each]: "$.a[*].b" is                      *)
(* <<[name |-> "a", each |-> TRUE], [name |-> "b", each |-> FALSE]>>.  The *)
(* key "a.b" of a row is <<"a", "b">>.                                     *)
(***************************************************************************)
EXTENDS Naturals, Sequences, SequencesExt

IsObj(v) == "obj" \in DOMAIN v
IsList(v) == "list" \in DOMAIN v

NoFields == [k \in {} |-> 0]

NoTemplate == [none |-> TRUE]

\* dict.update
Updated(f, g) == [k \in DOMAIN f \cup DOMAIN g |-> IF k \in DOMAIN g THEN g[k] ELSE f[k]]

\* _flatten_template_value: the value under its prefix and every field below it.
RECURSIVE Flatten(_, _)
Flatten(v, prefix) ==
    LET own == [k \in {prefix} \ {<<>>} |-> v]
    IN  IF ~IsObj(v) THEN own
        ELSE FoldSet(LAMBDA n, f : Updated(f, Flatten(v.obj[n], Append(prefix, n))), own, DOMAIN v.obj)

\* _append_match: a list is unrolled, what is no object has the field "value".
RECURSIVE Matches(_, _)
Matches(current, ancestors) ==
    IF IsList(current)
    THEN FlattenSeq([i \in DOMAIN current.list |-> Matches(current.list[i], ancestors)])
    ELSE <<Updated(ancestors, IF IsObj(current) THEN Flatten(current, <<>>)
                              ELSE [k \in {<<"value">>} |-> current])>>

\* Mutant: the last segment is captured like the others.
Captured_Last(v, prefix, path) == Flatten(v, prefix)

\* The fields of what is above the records.
Captured(v, prefix, path) == IF Len(path) > 1 THEN Flatten(v, prefix) ELSE NoFields

\* walk, inside _extract_template_matches
RECURSIVE Walk(_, _, _, _)
Walk(current, path, ancestors, prefix) ==
    IF path = <<>> THEN Matches(current, ancestors)
    ELSE IF ~IsObj(current) THEN <<>>
    ELSE IF Head(path).name \notin DOMAIN current.obj THEN <<>>
    ELSE LET next == current.obj[Head(path).name]
             p == Append(prefix, Head(path).name)
             Below(v) == Walk(v, Tail(path), Updated(ancestors, Captured(v, p, path)), p)
         IN  IF ~Head(path).each THEN Below(next)
             ELSE IF ~IsList(next) THEN <<>>
             ELSE FlattenSeq([i \in DOMAIN next.list |-> Below(next.list[i])])

ExtractMatches(root, path) == Walk(root, path, NoFields, <<>>)

\* preview_send_message_template_rows
TemplateRows(input, type, path) ==
    CASE type = "dataset" ->
           IF IsList(input)
           THEN SelectSeq([i \in DOMAIN input.list |-> Flatten(input.list[i], <<>>)],
                          LAMBDA row : DOMAIN row # {})
           ELSE IF IsObj(input) THEN <<Flatten(input, <<>>)>> ELSE <<>>
      [] type # "dataset" /\ IsList(input) ->
           FlattenSeq([i \in DOMAIN input.list |-> ExtractMatches(input.list[i], path)])
      [] type = "jsonArray" /\ ~IsList(input) -> <<>>
      [] OTHER -> ExtractMatches(input, path)

\* _evaluate_template_constant: the text of a number becomes the number.
Evaluated(c) == IF c.kind = "number" THEN [scalar |-> "number", of |-> c.value]
                                     ELSE [scalar |-> c.value, of |-> "itself"]

ConstantFields(constants) ==
    [k \in {<<c.name>> : c \in constants} |-> Evaluated(CHOOSE c \in constants : <<c.name>> = k)]

\* build_send_message_payloads with a template: the fields that the row has, and
\* the constants over them.
Payload(row, t) ==
    Updated([k \in t.fields \cap DOMAIN row |-> row[k]], ConstantFields(t.constants))

\* Without a template a list is sent item by item.
Payloads(input, type, t) ==
    IF t = NoTemplate THEN IF IsList(input) THEN input.list ELSE <<input>>
    ELSE LET rows == TemplateRows(input, type, t.forEach)
         IN  [i \in DOMAIN rows |-> Payload(rows[i], t)]

-----------------------------------------------------------------------------
(* What the rows of a template are, without walking: an address is the     *)
(* sequence of fields and places that leads from the value to a part of    *)
(* it.  Every address the path describes gives one row, and a key of the   *)
(* row is looked up below the address or, failing that, below the deepest  *)
(* captured ancestor whose name it starts with.                            *)

RECURSIVE Addresses(_)
Addresses(v) ==
    {<<>>} \cup
    (IF IsObj(v) THEN UNION {{<<[field |-> n]>> \o a : a \in Addresses(v.obj[n])} : n \in DOMAIN v.obj}
     ELSE IF IsList(v) THEN UNION {{<<[place |-> i]>> \o a : a \in Addresses(v.list[i])} : i \in DOMAIN v.list}
     ELSE {})

Part(v, address) ==
    FoldLeft(LAMBDA x, s : IF "field" \in DOMAIN s THEN x.obj[s.field] ELSE x.list[s.place], v, address)

IsPlace(s) == "place" \in DOMAIN s

\* How much of an address the first n segments of a path take.
Steps(path, n) ==
    FoldLeft(LAMBDA m, seg : m + IF seg.each THEN 2 ELSE 1, 0, SubSeq(path, 1, n))

Described(v, path, a) ==
    LET n == Steps(path, Len(path))
    IN  /\ Len(a) >= n
        /\ \A j \in 1..Len(path) :
               LET at == Steps(path, j - 1) + 1
               IN  /\ a[at] = [field |-> path[j].name]
                   /\ path[j].each => IsPlace(a[at + 1])
        /\ \A i \in (n + 1)..Len(a) : IsPlace(a[i])
        /\ ~IsList(Part(v, a))

\* The order of the places decides the order of the rows.
Before(a, b) ==
    \E i \in DOMAIN a \cap DOMAIN b :
        /\ SubSeq(a, 1, i - 1) = SubSeq(b, 1, i - 1)
        /\ IsPlace(a[i]) /\ IsPlace(b[i]) /\ a[i].place < b[i].place

Names(path, n) == [j \in 1..n |-> path[j].name]

Has(v, key) == \E a \in Addresses(v) : a = [i \in DOMAIN key |-> [field |-> key[i]]]

Get(v, key) == Part(v, [i \in DOMAIN key |-> [field |-> key[i]]])

\* The captured ancestors a key may come from.
Holders(v, path, a, key) ==
    {j \in 1..(Len(path) - 1) :
        /\ j <= Len(key) /\ SubSeq(key, 1, j) = Names(path, j)
        /\ Has(Part(v, SubSeq(a, 1, Steps(path, j))), SubSeq(key, j + 1, Len(key)))}

RowAt(v, path, a, keys) ==
    LET part == Part(v, a)
        Own(k) == IF IsObj(part) THEN Has(part, k) ELSE k = <<"value">>
        ks == {k \in keys : k # <<>> /\ (Own(k) \/ Holders(v, path, a, k) # {})}
        From(k) == CHOOSE j \in Holders(v, path, a, k) : \A i \in Holders(v, path, a, k) : i <= j
    IN  [k \in ks |->
            IF Own(k) THEN IF IsObj(part) THEN Get(part, k) ELSE part
            ELSE Get(Part(v, SubSeq(a, 1, Steps(path, From(k)))), SubSeq(k, From(k) + 1, Len(k)))]

DescribedRows(v, path, keys) ==
    LET found == {a \in Addresses(v) : Described(v, path, a)}
        order == SetToSortSeq(found, Before)
    IN  [i \in DOMAIN order |-> RowAt(v, path, order[i], keys)]

=============================================================================
