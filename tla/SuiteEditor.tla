---------------------------- MODULE SuiteEditor ----------------------------
(***************************************************************************)
(* The editor of a hook's commands (ui/test_suites/components/             *)
(* suite_editor_component.py, _render_hook_section).  A Streamlit page is  *)
(* drawn again after every click from what the session keeps: the draft,   *)
(* the key of the selected command, the reorder dialog's copy of the       *)
(* commands, and the fields of the form on the right.  A field that is     *)
(* not drawn is forgotten; the mark that a form was filled in, and the     *)
(* rows of an API command, are not fields and stay.                        *)
(*                                                                         *)
(* A command is edited by a form for its code, by a JSON text or by the    *)
(* API editor: kind "typed", "generic" or "api".  What a form holds is the *)
(* command it was filled from (tag), a value and a kind.  SuiteDraft has   *)
(* the way to the server; here a save is accepted, and the suite is loaded *)
(* again, or it is refused.  What is left in the draft then depends on the *)
(* handler.                                                                *)
(***************************************************************************)
EXTENDS Naturals, Sequences, SequencesExt

CONSTANTS
    Loaded,     \* the kinds of the commands that are loaded, in their order
    MaxCommands,\* bound: commands of the hook
    MaxClicks   \* bound: clicks of the user

Kinds == {"typed", "generic", "api"}

EditorAssumption ==
    /\ MaxCommands \in Nat /\ MaxClicks \in Nat
    /\ Loaded \in Seq(Kinds) /\ Len(Loaded) <= MaxCommands

VARIABLES
    ops,       \* the commands of the hook in the draft: order, key and content
    stored,    \* the commands of the hook on the server
    selected,  \* the key of the selected command
    marks,     \* indices whose typed form was filled in
    fields,    \* the drawn form's fields, by editor and index
    rows,      \* rows of the API editor, by command key
    dialog,    \* the reorder dialog: whether it is asked for, seen, and its copy
    tags,      \* the next command tag
    clicks,
    shifted,   \* a command was deleted, moved or changed its editor (history)
    last       \* the last click: what it was, and whether it was accepted

session == <<selected, marks, fields, rows>>
vars == <<ops, stored, session, dialog, tags, clicks, shifted, last>>

Content(tag, val, kind) == [tag |-> tag, val |-> val, kind |-> kind]
Blank == Content(0, 0, "typed")

Key(op) == op.key
NoKey == <<0, "none">>

\* new_ui_key: a key of its own, for the command made last.
NewKey(tag) == <<tag, "new">>

\* _stable_ui_key: the key of a command that is loaded is made of its order
\* and its code.
Reloaded(os) == [k \in DOMAIN os |-> [os[k] EXCEPT !.key = <<os[k].order, os[k].content.kind>>]]

KeysOf(os) == {Key(os[k]) : k \in DOMAIN os}

\* _find_operation_index_by_ui_key: the first with that key.
IndexOf(os, key) == SelectInSeq(os, LAMBDA o : Key(o) = key)

-----------------------------------------------------------------------------
(* Drawing the page. *)

\* _resolve_advanced_hook_selected_command
Resolved(os, key) == IF key \in KeysOf(os) THEN key
                     ELSE IF os = <<>> THEN NoKey ELSE Key(os[1])

\* Mutant: the fields of a form carry no index.
FieldKey_Same(kind, k) == <<kind, 0>>

\* _command_form_key: the prefix of the editor and the index of the command.
FieldKey(kind, k) == <<kind, k>>

\* What the form of a command shows.  _initialize_hook_command_form does
\* nothing when the mark is there; the JSON editor fills what is missing; the
\* API editor keeps its rows under the key of the command.
Shown(os, k, mks, flds, rws) ==
    LET c == os[k].content
        key == FieldKey(c.kind, k)
    IN  IF c.kind = "api" THEN IF Key(os[k]) \in DOMAIN rws THEN rws[Key(os[k])] ELSE c
        ELSE IF key \in DOMAIN flds THEN IF c.kind = "generic" \/ k \in mks THEN flds[key] ELSE c
        ELSE IF c.kind = "typed" /\ k \in mks THEN Blank ELSE c

Only(key, value) == [x \in {key} |-> value]
With(f, key, value) == [x \in DOMAIN f \cup {key} |-> IF x = key THEN value ELSE f[x]]
Without(f, key) == [x \in DOMAIN f \ {key} |-> f[x]]

NoFields == [x \in {} |-> Blank]

\* The page is drawn: the selection is resolved, the selected command's form
\* is filled in, and fields that are not drawn are forgotten.
Draw(os, key, mks, flds, rws) ==
    LET sel == Resolved(os, key)
        k == IndexOf(os, sel)
    IN  /\ selected' = sel
        /\ IF os = <<>> THEN marks' = mks /\ fields' = NoFields /\ rows' = rws
           ELSE LET c == Shown(os, k, mks, flds, rws)
                    kind == os[k].content.kind
                IN  /\ marks' = IF kind = "typed" THEN mks \cup {k} ELSE mks
                    /\ fields' = IF kind = "api" THEN NoFields ELSE Only(FieldKey(kind, k), c)
                    /\ rows' = IF kind = "api" THEN With(rws, sel, c) ELSE rws

Closed == [open |-> FALSE, seen |-> FALSE, copy |-> <<>>]

\* A click draws the whole page: a dialog that is asked for is seen again.
Click(what, ok) ==
    /\ clicks < MaxClicks /\ clicks' = clicks + 1
    /\ last' = [what |-> what, ok |-> ok]

Free == dialog.seen = FALSE
SeenAgain == dialog' = [dialog EXCEPT !.seen = dialog.open]

Contents(os) == [k \in DOMAIN os |-> os[k].content]

\* _persist_current_draft sends os; when it is refused, back is left in the
\* draft.
Persist(os, back, ok) ==
    /\ ops' = IF ok THEN Reloaded(os) ELSE back
    /\ stored' = IF ok THEN Contents(os) ELSE stored

Current == IndexOf(ops, selected)
Form == Shown(ops, Current, marks, fields, rows)

-----------------------------------------------------------------------------

Init ==
    /\ ops = [k \in DOMAIN Loaded |->
                  [order |-> k, key |-> <<k, Loaded[k]>>, content |-> Content(k, 1, Loaded[k])]]
    /\ stored = Contents(ops)
    /\ selected = NoKey /\ marks = {} /\ fields = NoFields
    /\ rows = [x \in {} |-> Blank]
    /\ dialog = Closed
    /\ tags = Len(Loaded) + 1
    /\ clicks = 0 /\ shifted = FALSE
    /\ last = [what |-> "none", ok |-> TRUE]

\* The page is opened, or comes back after another one was shown.
OpenPage ==
    /\ Free
    /\ Click("open", TRUE)
    /\ Draw(ops, selected, marks, NoFields, rows)
    /\ SeenAgain
    /\ UNCHANGED <<ops, stored, tags, shifted>>

\* _render_advanced_hook_command_list_card: a command is selected.
Select(k) ==
    /\ Free /\ k \in DOMAIN ops /\ last.what # "none"
    /\ Click("select", TRUE)
    /\ Draw(ops, Key(ops[k]), marks, fields, rows)
    /\ SeenAgain
    /\ UNCHANGED <<ops, stored, tags, shifted>>

\* The user changes the form that is shown.
Type ==
    /\ Free /\ selected # NoKey
    /\ Click("type", TRUE)
    /\ LET typed == [Form EXCEPT !.val = 2]
           kind == ops[Current].content.kind
       IN  IF kind = "api" THEN rows' = With(rows, selected, typed) /\ UNCHANGED fields
           ELSE fields' = Only(FieldKey(kind, Current), typed) /\ UNCHANGED rows
    /\ SeenAgain
    /\ UNCHANGED <<ops, stored, selected, marks, tags, shifted>>

\* Mutant: a refused save stays in the draft.
SaveForm_NoRestore(ok) ==
    /\ Free /\ selected # NoKey /\ Form # Blank
    /\ Click("save", ok)
    /\ LET saved == [ops EXCEPT ![Current].content = Form] IN Persist(saved, saved, ok)
    /\ Draw(ops', selected, marks, fields, rows)
    /\ shifted' = (shifted \/ Form.kind # ops[Current].content.kind)
    /\ SeenAgain
    /\ UNCHANGED tags

\* _save_advanced_hook_command.  An empty form is refused by its builder.  The
\* API editor forgets its rows after a save; the other two stop at the call
\* of a function that the module does not have, and forget nothing.
SaveForm(ok) ==
    /\ Free /\ selected # NoKey /\ Form # Blank
    /\ Click("save", ok)
    /\ Persist([ops EXCEPT ![Current].content = Form], ops, ok)
    /\ Draw(ops', selected, marks, fields,
            IF ok /\ ops[Current].content.kind = "api" THEN Without(rows, selected) ELSE rows)
    /\ shifted' = (shifted \/ (ok /\ Form.kind # ops[Current].content.kind))
    /\ SeenAgain
    /\ UNCHANGED tags

\* _reset_advanced_hook_command: only the API editor's state is cleared.
ResetForm ==
    /\ Free /\ selected # NoKey
    /\ Click("reset", TRUE)
    /\ Draw(ops, selected, marks, fields,
            IF ops[Current].content.kind = "api" THEN Without(rows, selected) ELSE rows)
    /\ SeenAgain
    /\ UNCHANGED <<ops, stored, tags, shifted>>

\* The selection after a delete, made before the suite is saved.
Fallback(os, k) == IF os = <<>> THEN NoKey ELSE Key(os[IF k <= Len(os) THEN k ELSE Len(os)])

\* _reassign_advanced_hook_selected_command_after_delete and the save: a
\* refused one restores the draft and not the selection.
DeleteSelected(ok) ==
    /\ Free /\ selected # NoKey
    /\ Click("delete", ok)
    /\ LET left == RemoveAt(ops, Current)
       IN  /\ Persist(left, ops, ok)
           /\ Draw(ops', Fallback(left, Current), marks, fields, rows)
    /\ shifted' = (shifted \/ ok)
    /\ SeenAgain
    /\ UNCHANGED tags

\* Mutant: the orders start at 0.
Resequenced_FromZero(os) == [k \in DOMAIN os |-> [os[k] EXCEPT !.order = k - 1]]

\* _resequence_operations
Resequenced(os) == [k \in DOMAIN os |-> [os[k] EXCEPT !.order = k]]

\* Mutant: the new command gets the number of commands for an order.
Appended_ByCount(os, c) == Append(os, [order |-> Len(os) + 1, key |-> NewKey(c.tag), content |-> c])

\* append_operation_to_test
Appended(os, c) == Resequenced(Append(os, [order |-> 0, key |-> NewKey(c.tag), content |-> c]))

\* The add dialog is filled in and saved.  A refused save restores nothing: the
\* error ends the dialog's own drawing, and the new command stays in the draft.
AddCommand(kind, ok) ==
    /\ Free /\ Len(ops) < MaxCommands /\ last.what # "none"
    /\ Click("add", ok)
    /\ LET more == Appended(ops, Content(tags, 1, kind)) IN Persist(more, more, ok)
    /\ tags' = tags + 1
    /\ shifted' = (shifted \/ \E k \in DOMAIN ops : ops'[k].order # ops[k].order)
    /\ IF ok THEN Draw(ops', selected, marks, fields, rows) /\ SeenAgain
             ELSE UNCHANGED <<session, dialog>>

-----------------------------------------------------------------------------
(* The reorder dialog. *)

\* _open_reorder_command_dialog_for_item: a copy of the commands is kept.
OpenReorder ==
    /\ Free /\ ops # <<>> /\ last.what # "none"
    /\ Click("openReorder", TRUE)
    /\ dialog' = [open |-> TRUE, seen |-> TRUE, copy |-> ops]
    /\ Draw(ops, selected, marks, fields, rows)
    /\ UNCHANGED <<ops, stored, tags, shifted>>

\* _move_reorder_operation
SwapInDialog(k) ==
    /\ dialog.seen /\ k \in DOMAIN dialog.copy /\ k + 1 \in DOMAIN dialog.copy
    /\ Click("swap", TRUE)
    /\ LET copy == dialog.copy
       IN  dialog' = [dialog EXCEPT !.copy = [copy EXCEPT ![k] = copy[k + 1], ![k + 1] = copy[k]]]
    /\ UNCHANGED <<ops, stored, session, tags, shifted>>

\* The dialog's save: the copy takes the place of the commands.  It is closed
\* when the suite was accepted.
SaveReorder(ok) ==
    /\ dialog.seen
    /\ Click("reorder", ok)
    /\ Persist(Resequenced(dialog.copy), ops, ok)
    /\ Draw(ops', selected, marks, fields, rows)
    /\ dialog' = IF ok THEN Closed ELSE dialog
    /\ shifted' = (shifted \/ ok)
    /\ UNCHANGED tags

\* _close_reorder_command_dialog
CancelReorder ==
    /\ dialog.seen
    /\ Click("cancel", TRUE)
    /\ dialog' = Closed
    /\ Draw(ops, selected, marks, fields, rows)
    /\ UNCHANGED <<ops, stored, tags, shifted>>

\* The dialog is closed with its cross: the page is not drawn, and the session
\* still asks for the dialog.
DismissReorder ==
    /\ dialog.seen
    /\ dialog' = [dialog EXCEPT !.seen = FALSE]
    /\ UNCHANGED <<ops, stored, session, tags, clicks, shifted, last>>

Next ==
    \/ OpenPage
    \/ \E k \in DOMAIN ops : Select(k)
    \/ Type
    \/ ResetForm
    \/ \E ok \in BOOLEAN : SaveForm(ok) \/ DeleteSelected(ok) \/ SaveReorder(ok)
    \/ \E kind \in Kinds, ok \in BOOLEAN : AddCommand(kind, ok)
    \/ OpenReorder
    \/ \E k \in DOMAIN dialog.copy : SwapInDialog(k)
    \/ CancelReorder
    \/ DismissReorder

Spec == Init /\ [][Next]_vars

-----------------------------------------------------------------------------

Tags(os) == {os[k].content.tag : k \in DOMAIN os}

TypeOK ==
    /\ \A k \in DOMAIN ops : ops[k].order \in 1..MaxCommands /\ ops[k].content.kind \in Kinds
    /\ selected \in KeysOf(ops) \cup {NoKey}
    /\ marks \subseteq 1..MaxCommands
    /\ \A x, y \in DOMAIN fields : x = y
    /\ dialog.seen => dialog.open

\* The keys of a hook's commands differ, whatever was deleted and added, so a
\* key finds the command it was made from.  (_stable_ui_key and new_ui_key, with
\* the orders of append_operation_to_test and _resequence_operations)
KeysDiffer == \A j, k \in DOMAIN ops : j # k => Key(ops[j]) # Key(ops[k])

\* As long as no command was deleted, moved or given another editor, a form
\* shows its own command or nothing, however often commands are selected,
\* saved, refused and added.
ForeignOnlyAfterShift == selected # NoKey /\ ~shifted => Form.tag \in {0, ops[Current].content.tag}

\* What the draft holds and the server does not is the commands whose adding was
\* refused, after all others: no other refused edit is left for the next save
\* that is accepted.
OnlyAdditionsWait ==
    /\ \A k \in DOMAIN stored : k \in DOMAIN ops /\ ops[k].content = stored[k]
    /\ \A k \in DOMAIN ops \ DOMAIN stored : ops[k].key = NewKey(ops[k].content.tag)

\* test_advanced_hook_commands_section_renders_selected_command_detail_only:
\* the form shows the command that is selected.
ShowsSelected == selected # NoKey => Form.tag = ops[Current].content.tag

\* "Commands reordered.": the dialog's save changes the order of the commands
\* and nothing else.
OnlyReorders ==
    [][last'.what = "reorder" /\ dialog'.open = FALSE =>
          {ops[k].content : k \in DOMAIN ops} = {ops'[k].content : k \in DOMAIN ops'}]_vars

\* The button "Reset": the form shows the stored command again.
ResetShowsStored ==
    [][last'.what = "reset" /\ clicks' # clicks => Form' = ops'[Current'].content]_vars

=============================================================================
