---------------------------- MODULE DatasetsPage ----------------------------
(***************************************************************************)
(* The page of the datasets (ui/database_datasources/components/           *)
(* database_datasources_component.py, dialogs.py, services/state_service.py*)
(* and data_loader_service.py).  The session keeps a copy of the list, the *)
(* preview of every dataset it has shown, and which dataset is selected,   *)
(* unfolded, previewed and being edited; each of these is changed by its   *)
(* own function and they have to agree.                                    *)
(*                                                                         *)
(* A dataset is its version: every update makes a new one.  Other sessions *)
(* are not modelled, nor is a preview that fails.                          *)
(***************************************************************************)
EXTENDS Naturals, FiniteSets

CONSTANTS
    Ids,         \* ids of datasets
    Faults,      \* a request may fail
    MaxVersion   \* bound: updates of a dataset

VARIABLES
    rows,      \* the version of every dataset on the server; 0: there is none
    list,      \* ids in the session's list
    loaded,    \* the session has a list
    previews,  \* the version each cached preview was made of; 0: none
    selected, opened, visible, edited,  \* see the functions of state_service.py
    page       \* "list", "perimeter" or "other"

vars == <<rows, list, loaded, previews, selected, opened, visible, edited, page>>

NoDataset == "none"

PageAssumption == NoDataset \notin Ids /\ Faults \in BOOLEAN /\ MaxVersion \in Nat \ {0}

Existing(r) == {i \in Ids : r[i] > 0}

-----------------------------------------------------------------------------
(* data_loader_service.py *)

\* load_database_datasources: an error gives an empty list.
Loads(r, l) == l = Existing(r) \/ (Faults /\ l = {})

\* load_database_datasource_preview without force, when the page shows one
\* for a dataset of its list.
Shown(p, r, l, v) == IF v \in l /\ p[v] = 0 THEN [p EXCEPT ![v] = r[v]] ELSE p

-----------------------------------------------------------------------------
(* state_service.py *)

\* ensure_selected_database_datasource_id; the first dataset of the list is
\* any of them.
Ensured(s, l, new) == IF s \in l THEN new = s ELSE IF l = {} THEN new = NoDataset ELSE new \in l

\* mark_database_datasource_open
Marked(o, i, is_open) == IF is_open THEN o \cup {i} ELSE o \ {i}

\* The dataset is not taken out of the preview.
Cleared_Preview(i) ==
    /\ UNCHANGED visible
    /\ opened' = Marked(opened, i, FALSE)
    /\ edited' = IF edited = i THEN NoDataset ELSE edited

\* clear_database_datasource_selection_if_matches, but for selected
Cleared(i) ==
    /\ visible' = IF visible = i THEN NoDataset ELSE visible
    /\ opened' = Marked(opened, i, FALSE)
    /\ edited' = IF edited = i THEN NoDataset ELSE edited

-----------------------------------------------------------------------------
(* The page. *)

\* render_database_datasources_container
Visit ==
    /\ page # "list"
    /\ page' = "list"
    /\ loaded' = TRUE
    /\ IF loaded THEN list' = list ELSE Loads(rows, list')
    /\ Ensured(selected, list', selected')
    /\ previews' = Shown(previews, rows, list', visible)
    /\ UNCHANGED <<rows, opened, visible, edited>>

\* Another page is chosen in the menu.
Navigate ==
    /\ page # "other"
    /\ page' = "other"
    /\ UNCHANGED <<rows, list, loaded, previews, selected, opened, visible, edited>>

\* add_database_datasource_dialog: all previews are dropped.
Add(i) ==
    /\ page = "list" /\ rows[i] = 0
    /\ rows' = [rows EXCEPT ![i] = 1]
    /\ Loads(rows', list')
    /\ opened' = Marked(opened, i, TRUE)
    /\ Ensured(i, list', selected')
    /\ previews' = Shown([j \in Ids |-> 0], rows', list', visible)
    /\ UNCHANGED <<loaded, visible, edited, page>>

\* The button that opens a dialog for a dataset; a dialog that is not saved
\* leaves it at that.
OpenDialog(i) ==
    /\ page = "list" /\ i \in list
    /\ selected' = i
    /\ opened' = Marked(opened, i, TRUE)
    /\ UNCHANGED <<rows, list, loaded, previews, visible, edited, page>>

\* The preview of the dataset is kept.
Edit_KeepsPreview(i) ==
    /\ page = "list" /\ i \in list /\ rows[i] \in 1..(MaxVersion - 1)
    /\ rows' = [rows EXCEPT ![i] = @ + 1]
    /\ Loads(rows', list')
    /\ opened' = Marked(opened, i, TRUE)
    /\ Ensured(i, list', selected')
    /\ previews' = Shown(previews, rows', list', visible)
    /\ UNCHANGED <<loaded, visible, edited, page>>

\* edit_database_datasource_dialog
Edit(i) ==
    /\ page = "list" /\ i \in list /\ rows[i] \in 1..(MaxVersion - 1)
    /\ rows' = [rows EXCEPT ![i] = @ + 1]
    /\ Loads(rows', list')
    /\ opened' = Marked(opened, i, TRUE)
    /\ Ensured(i, list', selected')
    /\ previews' = Shown([previews EXCEPT ![i] = 0], rows', list', visible)
    /\ UNCHANGED <<loaded, visible, edited, page>>

\* delete_database_datasource_dialog
Delete(i) ==
    /\ page = "list" /\ i \in list /\ rows[i] > 0
    /\ rows' = [rows EXCEPT ![i] = 0]
    /\ Cleared(i)
    /\ Loads(rows', list')
    /\ Ensured(IF selected = i THEN NoDataset ELSE selected, list', selected')
    /\ previews' = Shown([previews EXCEPT ![i] = 0], rows', list', visible')
    /\ UNCHANGED <<loaded, page>>

\* toggle_database_datasource_preview, and what the button does after it.
TogglePreview(i) ==
    /\ page = "list" /\ i \in list
    /\ visible' = IF visible = i THEN NoDataset ELSE i
    /\ opened' = Marked(opened, i, visible # i)
    /\ selected' = i
    /\ previews' = Shown(previews, rows, list, visible')
    /\ UNCHANGED <<rows, list, loaded, edited, page>>

\* set_database_datasource_perimeter_edit_id and the change of page.
OpenPerimeter(i) ==
    /\ page = "list" /\ i \in list
    /\ edited' = i
    /\ selected' = i
    /\ opened' = Marked(opened, i, TRUE)
    /\ page' = "perimeter"
    /\ UNCHANGED <<rows, list, loaded, previews, visible>>

\* _autosave_perimeter (PerimeterEditor) of the dataset that is edited.
SavePerimeter ==
    /\ page = "perimeter" /\ edited \in list /\ rows[edited] \in 1..(MaxVersion - 1)
    /\ rows' = [rows EXCEPT ![edited] = @ + 1]
    /\ Loads(rows', list')
    /\ selected' = edited
    /\ previews' = [previews EXCEPT ![edited] = 0]
    /\ UNCHANGED <<loaded, opened, visible, edited, page>>

\* The selection is not looked at again.
Back_KeepsSelection ==
    /\ page = "perimeter"
    /\ edited' = NoDataset
    /\ page' = "list"
    /\ previews' = Shown(previews, rows, list, visible)
    /\ UNCHANGED <<rows, list, loaded, selected, opened, visible>>

\* clear_database_datasource_perimeter_edit_id and the way back.
Back ==
    /\ page = "perimeter"
    /\ edited' = NoDataset
    /\ page' = "list"
    /\ Ensured(selected, list, selected')
    /\ previews' = Shown(previews, rows, list, visible)
    /\ UNCHANGED <<rows, list, loaded, opened, visible>>

Init ==
    /\ rows \in [Ids -> {0, 1}]
    /\ list = {} /\ loaded = FALSE
    /\ previews = [i \in Ids |-> 0]
    /\ selected = NoDataset /\ visible = NoDataset /\ edited = NoDataset
    /\ opened = {}
    /\ page = "other"

Next ==
    \/ Visit \/ Navigate \/ SavePerimeter \/ Back
    \/ \E i \in Ids : Add(i) \/ OpenDialog(i) \/ Edit(i) \/ Delete(i) \/ TogglePreview(i) \/ OpenPerimeter(i)

Spec == Init /\ [][Next]_vars

-----------------------------------------------------------------------------
(* Properties. *)

TypeOK ==
    /\ rows \in [Ids -> 0..MaxVersion] /\ previews \in [Ids -> 0..MaxVersion]
    /\ {selected, visible, edited} \subseteq Ids \cup {NoDataset}
    /\ list \subseteq Ids /\ opened \subseteq Ids
    /\ page = "list" => loaded /\ (selected \in list \/ (list = {} /\ selected = NoDataset))

\* A preview that the session keeps was made of the dataset as it is: all the
\* ways this session has to change a dataset drop its preview
\* (invalidate_database_datasource_preview).
PreviewsAreCurrent == \A i \in Ids : previews[i] \in {0, rows[i]}

\* Nothing in the session points to a dataset that this session deleted, on
\* whichever page and in whichever state it was when it was deleted
\* (clear_database_datasource_selection_if_matches).
NothingPointsToTheDeleted ==
    ({visible, edited} \cup opened) \ {NoDataset} \subseteq Existing(rows)

\* "Nessun dataset configurato." is said when there is none.
EmptyListIsTrue == page = "list" /\ list = {} => Existing(rows) = {}
=============================================================================
