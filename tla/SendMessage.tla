----------------------------- MODULE SendMessage -----------------------------
(***************************************************************************)
(* The form of a "send message" command with its template and preview      *)
(* (app/ui/test_suites/components/suite_editor_component.py), the saved    *)
(* command, and what a run publishes                                       *)
(* (app/elaborations/services/operations/                                  *)
(* send_message_queue_command_executor.py).                                *)
(*                                                                         *)
(* The checkbox, the path and the multiselect live in the session under    *)
(* the keys of their widgets: a value is forgotten at the end of a run of  *)
(* the page that did not draw its widget, once it has been drawn.  The     *)
(* rows of constants live under a key of their own.  Every act of the user *)
(* runs the page, and every run of the page may fail to reach the server.  *)
(***************************************************************************)
EXTENDS MessageTemplates, FiniteSets

CONSTANTS
    Sources,     \* sources on offer: [type, preview, runtime], by name
    Paths,       \* forEach paths a user types
    Constants,   \* rows of the table of constants: [name, kind, value]
    MaxSaves     \* bound: how often the command is saved

VARIABLES
    editing,  \* the dialog is open
    form,     \* the session: source, open, enabled, forEach, fields, constants, widgets
    caption,  \* "Message template: ..." as last drawn
    shown,    \* the preview as last drawn; NoPreview if there is none
    dropped,  \* fields on offer that drawing has taken out of the selection
    saved,    \* the saved command: its source, its message_template
    said,     \* the caption when it was saved
    saves,    \* how often it was saved
    sent      \* what the last step published, if it was a run

page == <<editing, form, caption, shown, dropped>>
command == <<saved, said, saves>>
vars == <<page, command, sent>>

NoPreview == <<"none">>
Root == <<>>
Unset == <<[name |-> "blank", each |-> FALSE]>>
NothingSent == [none |-> TRUE]

-----------------------------------------------------------------------------

\* _resolve_send_message_template_preview_rows, when the server answers.
PreviewRows(source, path) ==
    IF Sources[source].type = "dataset"
    THEN <<[k \in Sources[source].columns |-> [scalar |-> "placeholder"]]>>
    ELSE TemplateRows(Sources[source].preview, Sources[source].type, IF path = Unset THEN Root ELSE path)

Rows(source, path, up) ==
    IF up \/ Sources[source].type = "dataset" THEN PreviewRows(source, path) ELSE <<>>

Options(rows) == UNION {DOMAIN rows[i] : i \in DOMAIN rows}

\* Mutant: the fields of all the rows are shown together.
PreviewPayload_AllRows(f, up) ==
    LET rows == Rows(f.source, f.forEach, up)
        fields == FoldSeq(LAMBDA row, g : Updated(g, [k \in f.fields \cap DOMAIN row |-> row[k]]), NoFields, rows)
        names == {<<c.name>> : c \in f.constants}
        payload == Updated(fields, [k \in names |-> [scalar |-> "text", of |-> "itself"]])
    IN  IF rows = <<>> \/ DOMAIN payload = {} THEN NoPreview ELSE <<"payload", payload>>

\* _resolve_send_message_preview_payload with a template
PreviewPayload(f, up) ==
    LET rows == Rows(f.source, f.forEach, up)
        fields == IF rows = <<>> THEN NoFields ELSE [k \in f.fields \cap DOMAIN rows[1] |-> rows[1][k]]
        names == {<<c.name>> : c \in f.constants}
        payload == Updated(fields, [k \in names |->
                       [scalar |-> (CHOOSE c \in f.constants : <<c.name>> = k).value, of |-> "itself"]])
    IN  IF rows = <<>> \/ DOMAIN payload = {} THEN NoPreview ELSE <<"payload", payload>>

\* _render_send_message_template_section: a default path, and the selected
\* fields that are still on offer.
SectionDrawn(f, up) ==
    LET g == [f EXCEPT !.forEach = IF Sources[f.source].type # "dataset" /\ @ = Unset THEN Root ELSE @]
        options == Options(Rows(g.source, g.forEach, up))
    IN  [g EXCEPT !.fields = @ \cap options, !.widgets = @ \cup {"enabled", "forEach", "fields"}]

DrawnKeys(f) == (IF f.open THEN {"enabled"} ELSE {})
                \cup (IF f.open /\ f.enabled THEN {"forEach", "fields"} ELSE {})

\* _render_send_message_template_management
Drawn(f, up) ==
    IF ~f.open THEN f
    ELSE IF f.enabled THEN SectionDrawn(f, up) ELSE [f EXCEPT !.widgets = @ \cup {"enabled"}]

\* The end of a run of the page.
Forgotten(f) ==
    LET gone == f.widgets \ DrawnKeys(f)
    IN  [f EXCEPT !.enabled = IF "enabled" \in gone THEN FALSE ELSE @,
                  !.forEach = IF "forEach" \in gone THEN Unset ELSE @,
                  !.fields = IF "fields" \in gone THEN {} ELSE @,
                  !.widgets = @ \cap DrawnKeys(f)]

\* One run of the page after the user's act: the preview, the caption, the section.
Rerun(f, up) ==
    /\ editing
    /\ shown' = IF f.enabled THEN PreviewPayload(f, up) ELSE NoPreview
    /\ caption' = f.enabled
    /\ \E g \in {Drawn(f, up)} :
          /\ dropped' = (f.fields \ g.fields) \cap Options(PreviewRows(f.source, f.forEach))
          /\ form' = Forgotten(g)
    /\ sent' = NothingSent
    /\ UNCHANGED <<editing, command>>

-----------------------------------------------------------------------------

\* Mutant: the path of the stored template is not read back.
Filled_NoPath(c) ==
    LET t == c.template
    IN  [source |-> c.source, open |-> FALSE, enabled |-> t # NoTemplate,
         forEach |-> Unset,
         fields |-> IF t = NoTemplate THEN {} ELSE t.fields,
         constants |-> IF t = NoTemplate THEN {} ELSE t.constants,
         widgets |-> {}]

\* The dialog fills the session from the command, with the panel closed.
Filled(c) ==
    LET t == c.template
    IN  [source |-> c.source, open |-> FALSE, enabled |-> t # NoTemplate,
         forEach |-> IF t = NoTemplate THEN Unset ELSE t.forEach,
         fields |-> IF t = NoTemplate THEN {} ELSE t.fields,
         constants |-> IF t = NoTemplate THEN {} ELSE t.constants,
         widgets |-> {}]

Init ==
    /\ \E s \in DOMAIN Sources : saved = [source |-> s, template |-> NoTemplate]
    /\ said = FALSE
    /\ saves = 0
    /\ editing = FALSE
    /\ form = Filled(saved)
    /\ caption = FALSE
    /\ shown = NoPreview
    /\ dropped = {}
    /\ sent = NothingSent

OpenDialog ==
    /\ ~editing /\ saves < MaxSaves
    /\ editing' = TRUE
    /\ form' = Filled(saved)
    /\ shown' = NoPreview
    /\ caption' = (saved.template # NoTemplate)
    /\ dropped' = {}
    /\ sent' = NothingSent
    /\ UNCHANGED command

\* "Manage template"
Manage(up) == Rerun([form EXCEPT !.open = ~@], up)

\* "Enable message template"
Check(up) == form.open /\ Rerun([form EXCEPT !.enabled = ~@], up)

ChooseSource(s, up) == s # form.source /\ Rerun([form EXCEPT !.source = s], up)

TypePath(p, up) ==
    /\ "forEach" \in form.widgets /\ Sources[form.source].type # "dataset"
    /\ Rerun([form EXCEPT !.forEach = p], up)

\* The multiselect, "Add all fields" and "Remove all fields".
SelectFields(ks, up) == "fields" \in form.widgets /\ Rerun([form EXCEPT !.fields = ks], up)

Selections == LET all == Options(PreviewRows(form.source, form.forEach))
              IN  {{}, all} \cup {{k} : k \in all}

EditConstants(cs, up) == "fields" \in form.widgets /\ Rerun([form EXCEPT !.constants = cs], up)

\* _build_test_command_draft, for what the page holds after drawing.
Template(f) == IF f.enabled
               THEN [forEach |-> IF f.forEach = Unset THEN Root ELSE f.forEach,
                     fields |-> f.fields, constants |-> f.constants]
               ELSE NoTemplate

\* Mutant: a template without fields and constants is built.
Complete_Always(f) == TRUE

Complete(f) == f.enabled => f.fields # {} \/ f.constants # {}

\* The button runs the page once more before the command is built.
Save(up) ==
    /\ editing
    /\ \E f \in {Drawn(form, up)} :
          Complete(f) /\ saved' = [source |-> f.source, template |-> Template(f)]
    /\ said' = caption
    /\ saves' = saves + 1
    /\ editing' = FALSE
    /\ shown' = IF form.enabled THEN PreviewPayload(form, up) ELSE NoPreview
    /\ sent' = NothingSent
    /\ UNCHANGED <<form, caption, dropped>>

SaveRefused(up) == ~Complete(Drawn(form, up)) /\ Rerun(form, up)

\* PublishToQueueOperationExecutor.execute, for the saved command.
Run ==
    /\ ~editing
    /\ sent' = [payloads |-> Payloads(Sources[saved.source].runtime, Sources[saved.source].type, saved.template)]
    /\ UNCHANGED <<page, command>>

Next ==
    \/ OpenDialog
    \/ \E up \in BOOLEAN : Manage(up) \/ Check(up) \/ Save(up) \/ SaveRefused(up)
    \/ \E up \in BOOLEAN, s \in DOMAIN Sources : ChooseSource(s, up)
    \/ \E up \in BOOLEAN, p \in Paths : TypePath(p, up)
    \/ \E up \in BOOLEAN, ks \in Selections : SelectFields(ks, up)
    \/ \E up \in BOOLEAN, cs \in SUBSET Constants : EditConstants(cs, up)
    \/ Run

Spec == Init /\ [][Next]_vars

-----------------------------------------------------------------------------

TypeOK ==
    /\ form.source \in DOMAIN Sources
    /\ {editing, form.open, form.enabled, caption, said} \subseteq BOOLEAN
    /\ form.forEach \in Paths \cup {Unset, Root}
    /\ form.constants \subseteq Constants
    /\ form.widgets \subseteq DrawnKeys(form)
    /\ saves \in 0..MaxSaves
    /\ saved.template # NoTemplate => saved.template.fields # {} \/ saved.template.constants # {}

\* send_message_template_service: a template on a json source sends one message
\* for every record its path describes, in their order, with the fields of the
\* record and of what is above it that were chosen for it.
OneMessagePerRecord ==
    (sent # NothingSent /\ saved.template # NoTemplate /\ Sources[saved.source].type = "json")
    => LET t == saved.template
           v == Sources[saved.source].runtime
           rows == DescribedRows(v, t.forEach, t.fields)
           names == {<<c.name>> : c \in t.constants}
       IN  /\ Len(sent.payloads) = Len(rows)
           /\ \A i \in DOMAIN rows :
                  /\ DOMAIN sent.payloads[i] = DOMAIN rows[i] \cup names
                  /\ \A k \in DOMAIN rows[i] \ names : sent.payloads[i][k] = rows[i][k]

\* _render_send_message_preview: the preview that was drawn when the command was
\* saved has the fields of the first message, if the source has not changed.
PreviewIsTheFirstMessage ==
    (/\ sent # NothingSent /\ shown # NoPreview
     /\ Sources[saved.source].type # "dataset"
     /\ Sources[saved.source].runtime = Sources[saved.source].preview)
    => /\ Len(sent.payloads) > 0
       /\ DOMAIN shown[2] = DOMAIN sent.payloads[1]
       /\ \A k \in DOMAIN shown[2] \ {<<c.name>> : c \in saved.template.constants} :
              sent.payloads[1][k] = shown[2][k]

\* Filled and Template: a command that is opened and saved as it is keeps its
\* template, whatever the server answers meanwhile.
UntouchedIsKept == (editing /\ ~editing' /\ form = Filled(saved)) => saved' = saved

\* "Message template: enabled": a command saved while the page says so has a
\* template.
CaptionIsSaved == said => saved.template # NoTemplate

\* "Unable to load message template preview": when the server does not answer
\* only the preview is missing, the selected fields are not.
SelectionSurvives == dropped = {}

=============================================================================
