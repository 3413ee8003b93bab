-------------------------- MODULE PerimeterEditor --------------------------
(***************************************************************************)
(* The page that edits a perimeter (ui/database_datasources/components/    *)
(* dataset_perimeter_editor_container.py, services/perimeter_service.py).  *)
(* Every click draws the whole page again; at the end of a drawing the     *)
(* page builds a perimeter from what it shows and saves it when it differs *)
(* from the last one it knows of.  Filters, order and parameters are kept  *)
(* in the session when the page is left, the boxes (columns and logic) are *)
(* not.                                                                    *)
(*                                                                         *)
(* The page edits the perimeter of a dataset, or the copy of it in a       *)
(* source of a suite (Mode).  A dialog is one action: it is opened, filled *)
(* in and saved; one that is cancelled changes nothing.  Any save may fail *)
(* (the server refuses it, is down, or answers too late), and another      *)
(* session may store another perimeter.  A drawing may raise, at a value   *)
(* it cannot read, and then it ends before the save.                       *)
(***************************************************************************)
EXTENDS Perimeters

CONSTANTS
    Mode,        \* "dataset", "hook" or "test": whose perimeter is edited
    Stored,      \* perimeters the server may hold at the start
    Columns,     \* the columns of the table
    TypedConditions, \* conditions a user may enter, as typed
    Rows,        \* rows a user may enter in the table of parameters
    MaxEdits,    \* bound: changes made on the page
    MaxVisits    \* bound: visits to the page

VARIABLES
    stored,   \* the perimeter on the server
    local,    \* the copy in the list of datasets, or in the draft of the suite
    session,  \* items, sort, params, snapshot: kept when the page is left; known
              \* and drawn: a whole drawing, and the parameters, were shown before
    boxes,    \* columns, logic: forgotten when the page is left
    open,     \* the page is shown
    found,    \* the page finds what it edits
    wish,     \* the default mode just chosen for a parameter: [name, mode]
    answer,   \* of the last drawing: "none", "saved", "refused" or "failed"
    astray,   \* since the last save of the page one of its saves was refused, or
              \* another session stored a perimeter (history)
    edits,
    visits

vars == <<stored, local, session, boxes, open, found, wish, answer, astray, edits, visits>>

NoWish == [name |-> "", mode |-> ""]
NoSession == [known |-> FALSE, drawn |-> FALSE, items |-> <<>>, sort |-> <<>>, params |-> <<>>, snapshot |-> NoPerimeter]
NoBoxes == [columns |-> <<>>, logic |-> "AND"]

-----------------------------------------------------------------------------
(* Values in the editor. *)

\* normalize_editor_value, applied until nothing changes: a text that is JSON
\* is parsed, at every drawing.  "listText", "oneText" and "nullText" are typed.
normalize_editor_value(v) ==
    CASE v = "intText" -> "int" [] v = "floatText" -> "float" [] v = "listText" -> "list"
      [] v = "oneText" -> "oneList" [] v = "nullText" -> "null"
      [] OTHER -> v

\* It raises ValueError for a list that is no text any more, unless the list has
\* one member: pd.isna answers for each member, and the answers are no truth.
Readable(v) == v \notin {"list", "emptyList"}
ItemsReadable(items) ==
    \A c \in ToSet(Conditions(items)) : c.value.kind = "literal" => Readable(c.value.v)
RowsReadable(rows) == \A i \in DOMAIN rows : Readable(rows[i].value)

\* normalize_filter_condition: what is kept, and in which form.
Kept(c) ==
    /\ c.field # "" /\ c.operator # ""
    /\ \/ c.operator \in NullOperators
       \/ c.value.kind = "parameter" /\ c.value.v # ""
       \/ c.value.kind = "literal" /\ normalize_editor_value(c.value.v) # "null"
Reread(c) ==
    IF c.operator \in NullOperators THEN [c EXCEPT !.value = [kind |-> "absent", v |-> "null"]]
    ELSE IF c.value.kind = "literal" THEN [c EXCEPT !.value.v = normalize_editor_value(@)] ELSE c

\* normalize_filter_rows, normalize_filter_group and normalize_filter_items:
\* a group that is left without conditions goes too.
normalize_filter_rows(conditions) ==
    LET kept == SelectSeq(conditions, Kept) IN [i \in DOMAIN kept |-> Reread(kept[i])]
normalize_filter_items(items) ==
    LET read == [i \in DOMAIN items |-> [items[i] EXCEPT !.conditions = normalize_filter_rows(@)]]
    IN  SelectSeq(read, LAMBDA item : item.conditions # <<>>)

-----------------------------------------------------------------------------
(* Rows of the table of parameters. *)

\* normalize_parameter_editor_row, of a definition of the server.
RowOf(p) ==
    LET value == IF p.value = "absent" THEN "null" ELSE normalize_editor_value(p.value)
    IN  IF p.binding # "none"
        THEN [name |-> p.name, type |-> p.type, mode |-> "Function", value |-> "null", function |-> p.binding]
        ELSE [name |-> p.name, type |-> p.type, mode |-> IF value = "null" THEN "None" ELSE "Literal", value |-> value,
              function |-> ""]

\* normalize_parameter_editor_row, of a row of the table: a value makes the
\* mode Literal whatever was chosen.
NormalRow(row) ==
    LET value == normalize_editor_value(row.value)
        mode == IF value # "null" THEN "Literal" ELSE IF row.mode = "" THEN "None" ELSE row.mode
    IN  [row EXCEPT !.mode = mode, !.value = value,
                    !.function = IF mode = "Function" /\ @ = "" THEN "$now" ELSE @]

\* Two rows may have one name.
normalize_parameter_editor_rows_Twice(rows) ==
    LET fit == SelectSeq(rows, LAMBDA row : row.name # "" /\ row.type \in Types) IN [i \in DOMAIN fit |-> NormalRow(fit[i])]

\* normalize_parameter_editor_rows: a row without a name or a type is dropped,
\* and the second of two with one name.
normalize_parameter_editor_rows(rows) ==
    LET fit == SelectSeq(rows, LAMBDA row : row.name # "" /\ row.type \in Types)
        first == {i \in DOMAIN fit : \A j \in 1..(i - 1) : fit[j].name # fit[i].name}
    IN  [i \in 1..Cardinality(first) |->
            NormalRow(fit[CHOOSE j \in first : Cardinality({k \in first : k <= j}) = i])]

\* normalize_parameter_definition
DefinitionOf(row) ==
    [name |-> row.name, type |-> row.type,
     value |-> IF row.mode = "Literal" /\ row.value # "null" THEN row.value ELSE "absent",
     binding |-> IF row.mode = "Function" THEN row.function ELSE "none"]

-----------------------------------------------------------------------------
(* build_perimeter_payload *)

Members(columns, params, items, sort) ==
    {m \in {"columns", "parameters", "filter", "sort"} :
        CASE m = "columns" -> columns # <<>> [] m = "parameters" -> params # <<>>
          [] m = "filter" -> items # <<>> [] OTHER -> sort # <<>>}

\* The logic of the boxes is left out.
build_perimeter_payload_And(s, b) ==
    [has |-> Members(b.columns, s.params, s.items, s.sort),
     params |-> [i \in DOMAIN s.params |-> DefinitionOf(s.params[i])],
     columns |-> b.columns, form |-> "items", logic |-> "AND", items |-> s.items, sort |-> s.sort]

build_perimeter_payload(s, b) ==
    [has |-> Members(b.columns, s.params, s.items, s.sort),
     params |-> [i \in DOMAIN s.params |-> DefinitionOf(s.params[i])],
     columns |-> b.columns, form |-> "items", logic |-> IF s.items = <<>> THEN "AND" ELSE b.logic, items |-> s.items,
     sort |-> s.sort]

-----------------------------------------------------------------------------
(* A drawing, with the session and the boxes as the user left them. *)

\* What the server stores: update_entity skips None (Datasets); the copy in a
\* source must be an object (DatasetSourceDto).
Accepts(p) == ~Refused(p) /\ (Mode # "dataset" => p.has # {})
Taken(p) == IF normalize(p).has = {} THEN stored ELSE normalize(p)

\* The save of p succeeds.  Saving a suite gives its tests new ids, so that the
\* key by which the page knows the test is not found again.
Saved(s, p, f) ==
    /\ Accepts(p)
    /\ session' = [s EXCEPT !.snapshot = p]
    /\ stored' = Taken(p)
    /\ local' = Taken(p)
    /\ found' = (f /\ Mode # "test")
    /\ answer' = "saved"
    /\ astray' = FALSE

\* Any exception is a refusal, also one that comes after the server has stored
\* p.  The draft of a suite was changed before it was sent.
NotSaved(s, p, f) ==
    /\ session' = s
    /\ stored' \in {stored} \cup (IF Accepts(p) THEN {Taken(p)} ELSE {})
    /\ local' = IF Mode = "dataset" THEN local ELSE p
    /\ found' = f
    /\ answer' = "refused"
    /\ astray' = TRUE

\* _autosave_perimeter and _autosave_test_source_perimeter: the first drawing
\* and one that shows what was saved last only take the snapshot.
Autosave(s, p, f) ==
    IF ~s.known \/ s.snapshot = p
    THEN /\ session' = [s EXCEPT !.known = TRUE, !.snapshot = p]
         /\ found' = f /\ answer' = "none"
         /\ UNCHANGED <<stored, local, astray>>
    ELSE Saved(s, p, f) \/ NotSaved(s, p, f)

\* A drawing: the tabs read what the session keeps, and then the page saves.
Draw(s, b, f) ==
    LET rows == normalize_parameter_editor_rows(s.params)
        read == [s EXCEPT !.items = normalize_filter_items(@), !.params = rows, !.drawn = TRUE]
    IN  /\ boxes' = b
        /\ IF RowsReadable(rows) /\ ItemsReadable(s.items)
           THEN Autosave(read, build_perimeter_payload(read, b), f)
           ELSE /\ session' = [s EXCEPT !.params = rows, !.drawn = TRUE]
                /\ found' = f /\ answer' = "failed"
                /\ UNCHANGED <<stored, local, astray>>

\* A user changes something on the page.
Edit(s, b) ==
    /\ open /\ found
    /\ edits < MaxEdits
    /\ Draw(s, b, TRUE)
    /\ edits' = edits + 1
    /\ UNCHANGED <<open, visits>>

-----------------------------------------------------------------------------
(* Visits. *)

\* default_filter_items, default_sort_rows and default_parameter_rows fill in
\* the session the first time; default_selected_columns and
\* default_filter_logic the boxes every time.
FromPerimeter(p) ==
    [known |-> FALSE, drawn |-> FALSE, items |-> normalize_filter_items(p.items), sort |-> p.sort,
     params |-> [i \in DOMAIN p.params |-> RowOf(p.params[i])], snapshot |-> NoPerimeter]

DefaultBoxes(p) == [columns |-> SelectSeq(p.columns, LAMBDA c : c \in Columns), logic |-> p.logic]

\* The scope key of a test holds the key of the test: after a save the session
\* of a test starts anew.
Remembered ==
    IF Mode = "test" /\ ~found THEN FromPerimeter(local)
    ELSE IF session.known THEN session
    ELSE [FromPerimeter(local) EXCEPT !.params = IF session.drawn THEN session.params ELSE @]

Enter ==
    /\ ~open /\ visits < MaxVisits
    /\ open' = TRUE
    /\ Draw(Remembered, DefaultBoxes(local), TRUE)
    /\ visits' = visits + 1
    /\ wish' = NoWish
    /\ UNCHANGED edits

\* The filters are forgotten with the boxes.
Leave_ForgetsFilters ==
    /\ open
    /\ open' = FALSE
    /\ boxes' = NoBoxes
    /\ session' = [session EXCEPT !.items = <<>>]
    /\ answer' = "none" /\ wish' = NoWish
    /\ UNCHANGED <<stored, local, found, astray, edits, visits>>

Leave ==
    /\ open
    /\ open' = FALSE
    /\ boxes' = NoBoxes
    /\ answer' = "none" /\ wish' = NoWish
    /\ UNCHANGED <<stored, local, session, found, astray, edits, visits>>

\* Another session stores p; when the page is closed, what it was made from may
\* be read again before it is opened.
Other(p) ==
    /\ session.known /\ ~astray /\ p # stored
    /\ stored' = p
    /\ local' \in IF open THEN {local} ELSE {local, p}
    /\ astray' = TRUE
    /\ UNCHANGED <<session, boxes, open, found, wish, answer, edits, visits>>

-----------------------------------------------------------------------------
(* Columns and logic. *)

\* _render_selected_columns_editor
SetColumns(columns) == Edit(session, [boxes EXCEPT !.columns = columns]) /\ wish' = NoWish
SetLogic(logic) == answer # "failed" /\ Edit(session, [boxes EXCEPT !.logic = logic]) /\ wish' = NoWish

-----------------------------------------------------------------------------
(* Filters. *)

\* What both dialogs require of a condition.
Enterable(c) ==
    /\ Kept(c)
    /\ c.value.kind = "parameter" => c.value.v \in Names(session.params)

\* _append_filter_item
WithItem(item) == [session EXCEPT !.items = Append(@, item)]

\* _render_add_filter_condition_dialog
AddCondition(c) ==
    /\ Enterable(c)
    /\ Edit(WithItem([kind |-> "condition", logic |-> "AND", conditions |-> <<Reread(c)>>]), boxes)
    /\ wish' = NoWish

\* _render_add_filter_group_dialog: the rows of a group hold literals.
AddGroup(logic, conditions) ==
    /\ normalize_filter_rows(conditions) # <<>>
    /\ \A i \in DOMAIN conditions : conditions[i].value.kind # "parameter"
    /\ Edit(WithItem([kind |-> "group", logic |-> logic, conditions |-> normalize_filter_rows(conditions)]), boxes)
    /\ wish' = NoWish

\* _open_filter_condition_edit_dialog fills in the text of the value.
Prefilled(c) == IF c.value.kind = "literal" THEN [c EXCEPT !.value.v = AsText(@)] ELSE c

\* _update_filter_condition
WithCondition(i, k, c) == [session EXCEPT !.items[i].conditions[k] = Reread(c)]

\* _render_edit_filter_condition_dialog
EditCondition(i, k, c) ==
    /\ Enterable(c)
    /\ Edit(WithCondition(i, k, c), boxes)
    /\ wish' = NoWish

\* _delete_filter_item and _delete_filter_group_condition: the last condition
\* takes the group with it (see Draw).
DeleteCondition(i, k) ==
    /\ Edit([session EXCEPT !.items[i].conditions = RemoveAt(@, k)], boxes)
    /\ wish' = NoWish

-----------------------------------------------------------------------------
(* Order. *)

\* _render_add_sort_condition_dialog: one entry for a field.
AddSort(field, direction) ==
    /\ LET old == {i \in DOMAIN session.sort : session.sort[i].field = field}
       IN  Edit(IF old = {} THEN [session EXCEPT !.sort = Append(@, [field |-> field, direction |-> direction])]
                ELSE [session EXCEPT !.sort[CHOOSE i \in old : \A j \in old : i <= j].direction = direction], boxes)
    /\ wish' = NoWish

\* The filters of the field go too.
RemoveSort_Filters(label) ==
    /\ Edit([session EXCEPT !.sort = SelectSeq(@, LAMBDA s : s # label),
                            !.items = SelectSeq(@, LAMBDA item : item.conditions[1].field # label.field)], boxes)
    /\ wish' = NoWish

\* _render_sort_editor: a label that is taken out of the box.
RemoveSort(label) ==
    /\ Edit([session EXCEPT !.sort = SelectSeq(@, LAMBDA s : s # label)], boxes)
    /\ wish' = NoWish

-----------------------------------------------------------------------------
(* Parameters: _render_parameters_editor *)

AddRow(row) ==
    /\ Edit([session EXCEPT !.params = Append(@, row)], boxes)
    /\ wish' = NoWish
EditRow(i, mode, value) ==
    /\ Edit([session EXCEPT !.params[i].mode = mode, !.params[i].value = value], boxes)
    /\ wish' = [name |-> session.params[i].name, mode |-> mode]
RemoveRow(i) ==
    /\ Edit([session EXCEPT !.params = RemoveAt(@, i)], boxes)
    /\ wish' = NoWish

-----------------------------------------------------------------------------
Init ==
    /\ stored \in Stored
    /\ local = stored
    /\ session = NoSession
    /\ boxes = NoBoxes
    /\ open = FALSE
    /\ found = TRUE
    /\ wish = NoWish
    /\ answer = "none"
    /\ astray = FALSE
    /\ edits = 0
    /\ visits = 0

\* The drawing that failed did not come to the filters and the order.
Filter ==
    /\ answer # "failed"
    /\ \/ \E c \in TypedConditions : AddCondition(c)
       \/ \E l \in {"AND", "OR"}, c, d \in TypedConditions : AddGroup(l, <<c, d>>)
       \/ \E i \in DOMAIN session.items : \E k \in DOMAIN session.items[i].conditions :
              \/ DeleteCondition(i, k)
              \/ \E c \in TypedConditions \cup {Prefilled(session.items[i].conditions[k])} : EditCondition(i, k, c)

Order ==
    /\ answer # "failed"
    /\ \/ \E f \in Columns, d \in {"asc", "desc"} : AddSort(f, d)
       \/ \E i \in DOMAIN session.sort : RemoveSort(session.sort[i])

Parameter ==
    /\ RowsReadable(session.params)
    /\ \/ \E row \in Rows : AddRow(row)
       \/ \E i \in DOMAIN session.params :
              RemoveRow(i) \/ \E row \in Rows : EditRow(i, row.mode, session.params[i].value) \/ EditRow(i, row.mode, row.value)

Next ==
    \/ Enter \/ Leave
    \/ \E p \in Stored : Other(p)
    \/ \E columns \in UNION {[1..n -> Columns] : n \in 0..Cardinality(Columns)} : IsInjective(columns) /\ SetColumns(columns)
    \/ \E l \in {"AND", "OR"} : SetLogic(l)
    \/ Filter \/ Order \/ Parameter

Spec == Init /\ [][Next]_vars

-----------------------------------------------------------------------------
(* Properties. *)

TypeOK ==
    /\ \A i \in DOMAIN session.items : session.items[i].conditions # <<>>
    /\ Cardinality(Names(session.params)) = Len(session.params)
    /\ answer \in {"none", "saved", "refused", "failed"} /\ astray \in BOOLEAN
    /\ edits \in 0..MaxEdits /\ visits \in 0..MaxVisits

\* When the page has saved, and until another session stores something, the
\* server holds what the page shows: its columns and order, its parameters, and
\* the same rows whichever of the conditions hold (_autosave_perimeter).  An
\* empty perimeter is the exception (Datasets, EmptyPerimeterReadsAll).
SavedMeansWhatIsShown ==
    answer = "saved" /\ ~astray /\ session.snapshot.has # {} =>
        LET shown == [has |-> {"filter"}, logic |-> boxes.logic, items |-> session.items]
        IN  /\ stored.columns = boxes.columns
            /\ stored.sort = session.sort
            /\ Names(stored.params) = Names(session.params)
            /\ \A sat \in SUBSET {NormalCondition(c) : c \in ToSet(Conditions(session.items))} :
                   KeepsRow(stored, sat) <=> KeepsRow(shown, sat)

\* A change of the order that is saved does nothing to the filters and the
\* parameters but read their values as the editor reads them, and to the
\* columns but drop those that the table has no more.  (After a refusal the
\* refused change is sent again with the next one, and what another session
\* stored is overwritten with what the page has.)
OtherPartsAreOnlyReread ==
    Order /\ ~astray /\ answer' = "saved" /\ session.snapshot.has # {} =>
       /\ stored'.items = normalize_filter_items(stored.items)
       /\ [i \in DOMAIN stored'.params |-> RowOf(stored'.params[i])]
             = [i \in DOMAIN stored.params |-> RowOf(stored.params[i])]
       /\ stored'.columns = SelectSeq(stored.columns, LAMBDA c : c \in Columns)

\* The page saves by itself at every drawing, the first one after a return
\* included.  That one changes nothing on the server, whatever was saved, drawn
\* in vain or left unfinished before, unless a save was refused or another
\* session stored something since the last save of the page; an empty
\* perimeter that the server did not take is the other exception.
EnteringChangesNothing ==
    Enter /\ ~astray /\ session.snapshot.has # {} => stored' = stored

\* "Errore autosalvataggio perimetro": what was not saved stays unsaved, and
\* another session's perimeter stays, until the user changes something.
ReturnChangesNothing == [][Enter => stored' = stored]_vars

\* "in" and "not_in" are among the operators a condition can be given: the page
\* can be drawn with their lists.
ListsCanBeShown == answer # "failed"

\* "None, Literal or Function defaults": the mode that was chosen is the mode
\* of the parameter.
ChosenModeIsKept ==
    wish # NoWish => \A i \in DOMAIN session.params : session.params[i].name = wish.name => session.params[i].mode = wish.mode

\* "Source non trovato nella suite corrente." is said of a source that is not
\* in the suite; no action here removes it.
SourceIsFound == open => found
=============================================================================
