---------------------------- MODULE SuiteDraft ----------------------------
(***************************************************************************)
(* The draft of a test suite in the browser session.  A stored command     *)
(* refers to a constant by definition id; the draft shows the constant's   *)
(* path instead (ui/test_suites/services/draft_mapper.py), the editor      *)
(* changes the draft (ui/test_suites/components/suite_editor_component.py) *)
(* and saves the whole suite, which turns paths into ids again.  The       *)
(* server accepts or refuses the suite; an accepted one is read back.      *)
(*                                                                         *)
(* A command has one reference and declares at most one constant.  tag is  *)
(* the identity of a command, for the properties only.  An absent hook is  *)
(* one without commands.  Ids are uuids, or the path of a result constant. *)
(* Of an item's other fields the payload has its description, its failure  *)
(* mode and its sources; its role, template and data set are not sent.     *)
(***************************************************************************)
EXTENDS Naturals, Sequences, SequencesExt, FiniteSets

CONSTANTS
    Suites,    \* suites as they are stored when the editor opens them
    NewCommands, \* commands a form can build: draft commands without an id
    Elsewhere, \* definition ids stored for other suites
    Special,   \* items stored with a role, a template or a data set
    MaxEdits   \* bound: edits that are saved

DraftAssumption == MaxEdits \in Nat

VARIABLES
    stored,    \* the suite in the database
    special,   \* its items with a role, a template or a data set
    draft,     \* TEST_SUITE_DRAFT_KEY
    nextId,    \* the next uuid
    nextTag,   \* the next identity of a command
    edits,
    said,      \* SUITE_FEEDBACK_KEY: "" or the message that will be shown
    last,      \* the last edit: its name, its command and whether it was accepted
    kept       \* the additions and deletions that were refused and stay in the draft (history)

vars == <<stored, special, draft, nextId, nextTag, edits, said, last, kept>>

Items == <<"beforeAll", "beforeEach", "test1", "test2", "afterEach", "afterAll">>
ItemSet == Range(Items)
Hooks == ItemSet \ {"test1", "test2"}

Section(item) == IF item \in Hooks THEN item ELSE "test"

\* The item whose definitions an item starts from.
StartsFrom(item) == CASE item = "beforeAll" -> "nothing"
                      [] item \in {"beforeEach", "afterAll"} -> "beforeAll"
                      [] OTHER -> "beforeEach"

Uuid(n) == <<"uuid", n, "">>
PathId(name) == <<"path", 0, name>>
NoId == <<"none", 0, "">>
NoPath == <<"", "">>

\* A command of the draft; in the stored one only the binding of a data set
\* parameter (setVariable) can be a path, and exp is kept.
Command(code) == [code |-> code, order |-> 0, tag |-> 0, def |-> NoId, scope |-> "", name |-> "",
                  ref |-> NoId, path |-> NoPath, exp |-> NoId]

Asserts == {"jsonEquals", "jsonContains"}
Inputs == {"sendMessageQueue", "saveTable", "exportDataset"}
ApiCodes == {"readApi", "writeApi"}

\* _READABLE_SCOPES, on both sides
Readable(section) ==
    {"runEnvelope", "result"}
      \cup (IF section # "beforeAll" THEN {"global"} ELSE {})
      \cup (IF section \in {"test", "afterEach"} THEN {"local"} ELSE {})

-----------------------------------------------------------------------------
(* The definitions that are known at a command: a sequence, in the order   *)
(* in which the dictionary got its keys.                                   *)

\* _carry_over_definitions
CarriedOver(defs) ==
    LET alive == SelectSeq(defs, LAMBDA d : d.deleted = 0)
    IN  [k \in DOMAIN alive |-> [alive[k] EXCEPT !.order = 0]]

\* _visible_definitions
VisibleAt(defs, section, order) ==
    {k \in DOMAIN defs : /\ defs[k].scope \in Readable(section)
                         /\ defs[k].order < order
                         /\ defs[k].deleted # 0 => defs[k].deleted > order}

\* The last of the visible ones, sorted by their order.
LastOf(defs, ks) ==
    CHOOSE k \in ks : \A l \in ks : \/ defs[l].order < defs[k].order
                                    \/ defs[l].order = defs[k].order /\ l <= k

\* Mutant: any scope will do.
FindByPath_AnyScope(defs, section, order, path) ==
    LET ks == {k \in VisibleAt(defs, section, order) : defs[k].name = path[2]}
    IN  IF ks = {} THEN NoId ELSE defs[LastOf(defs, ks)].id

\* _find_definition_by_scope_name, _find_definition_by_path
FindByPath(defs, section, order, path) ==
    LET ks == {k \in VisibleAt(defs, section, order) :
                  defs[k].scope = path[1] /\ defs[k].name = path[2]}
    IN  IF path = NoPath \/ ks = {} THEN NoId ELSE defs[LastOf(defs, ks)].id

\* _find_definition_by_id, as the path of the definition
PathOf(defs, section, order, id) ==
    LET ks == {k \in VisibleAt(defs, section, order) : defs[k].id = id}
        k == CHOOSE l \in ks : TRUE
    IN  IF ks = {} THEN NoPath ELSE <<defs[k].scope, defs[k].name>>

\* _find_definition_by_name: the scopes are tried in this order.
FindByName(defs, section, order, name) ==
    LET found == SelectSeq(<<"local", "global", "runEnvelope", "result">>,
                           LAMBDA sc : FindByPath(defs, section, order, <<sc, name>>) # NoId)
    IN  IF found = <<>> THEN NoId ELSE FindByPath(defs, section, order, <<found[1], name>>)

\* Mutant: a deleted constant stays.
AfterCommand_NoDelete(defs, c) ==
    IF c.def = NoId THEN defs
    ELSE Append(defs, [id |-> c.def, scope |-> c.scope, name |-> c.name, order |-> c.order, deleted |-> 0])

\* _apply_post_command_definition_updates
AfterCommand(defs, c) ==
    LET new == [id |-> c.def, scope |-> c.scope, name |-> c.name, order |-> c.order, deleted |-> 0]
        known == {k \in DOMAIN defs : defs[k].id = c.def}
    IN  IF c.code = "deleteVariable"
        THEN [k \in DOMAIN defs |-> IF defs[k].id = c.ref THEN [defs[k] EXCEPT !.deleted = c.order]
                                                          ELSE defs[k]]
        ELSE IF c.def = NoId THEN defs
        ELSE IF known = {} THEN Append(defs, new)
        ELSE [k \in DOMAIN defs |-> IF k \in known THEN new ELSE defs[k]]

-----------------------------------------------------------------------------
(* From the stored suite to the draft. *)

\* The path that is shown for the reference of a command, if it is visible.
HydratedPath(c, defs, section) == IF c.ref = NoId THEN c.path ELSE PathOf(defs, section, c.order, c.ref)

\* In an API body and a dataset parameter the path replaces the id, elsewhere
\* the id stays beside it.
HydratedId(c) == IF c.code \in ApiCodes \cup {"setVariable"} THEN NoId ELSE c.ref

\* _hydrate_operation_cfg
Hydrated(c, defs, section) ==
    LET path == HydratedPath(c, defs, section)
    IN  IF path = NoPath THEN c ELSE [c EXCEPT !.path = path, !.ref = HydratedId(c)]

\* _normalize_operations_for_draft: the commands and the definitions after them.
HydratedItem(commands, section, initial) ==
    FoldLeft(LAMBDA acc, c :
                LET h == Hydrated(c, acc.defs, section)
                IN  [out |-> Append(acc.out, h), defs |-> AfterCommand(acc.defs, h)],
             [out |-> <<>>, defs |-> CarriedOver(initial)], commands)

\* build_test_suite_draft: a test and after-each start from what before-each
\* leaves, after-all from what before-all leaves.
BuildDraft(s) ==
    LET ba == HydratedItem(s["beforeAll"], "beforeAll", <<>>)
        be == HydratedItem(s["beforeEach"], "beforeEach", ba.defs)
    IN  [i \in ItemSet |->
            CASE i = "beforeAll" -> ba.out
              [] i = "beforeEach" -> be.out
              [] i = "afterAll" -> HydratedItem(s[i], i, ba.defs).out
              [] OTHER -> HydratedItem(s[i], Section(i), be.defs).out]

-----------------------------------------------------------------------------
(* From the draft to the payload. *)

\* The id a command declares with: a variable keeps its id or gets a new
\* uuid, a result constant without an id gets its path for an id
\* (_serialize_result_constant).
DeclaredId(c, fresh) ==
    IF c.name = "" \/ c.code = "deleteVariable" THEN NoId
    ELSE IF c.def # NoId THEN c.def
    ELSE IF c.code = "setVariable" THEN Uuid(fresh) ELSE PathId(c.name)

\* Mutant: a path that is not found is looked up by its name.
SerializedRef_ByName(c, defs, section) ==
    LET found == FindByPath(defs, section, c.order, c.path)
    IN  IF found # NoId THEN found ELSE FindByName(defs, section, c.order, c.path[2])

\* The reference of _serialize_operation_cfg.  A path that is not found
\* leaves nothing, except in an API body, where it stays as the id of no
\* definition, and in a dataset parameter, whose binding stays a path.  A
\* runSuite is looked up by name alone.
SerializedRef(c, defs, section) ==
    LET found == FindByPath(defs, section, c.order, c.path)
    IN  IF c.code = "runSuite" THEN FindByName(defs, section, c.order, c.path[2])
        ELSE IF found # NoId THEN found
        ELSE IF c.path = NoPath /\ c.code \in ApiCodes \cup {"setVariable"} THEN c.ref
        ELSE IF c.code \in ApiCodes THEN <<"dangling", 0, c.path[2]>>
        ELSE NoId

\* The path that stays: a binding that found no definition.
SerializedPath(c, defs, section) ==
    IF c.code = "setVariable" /\ FindByPath(defs, section, c.order, c.path) = NoId THEN c.path ELSE NoPath

\* _serialize_operation_cfg: an expectedRef to a constant is dropped.
Serialized(c, defs, section, fresh) ==
    [c EXCEPT !.def = DeclaredId(c, fresh), !.ref = SerializedRef(c, defs, section),
              !.path = SerializedPath(c, defs, section), !.exp = NoId]

\* _serialize_operations_for_payload
SerializedItem(commands, section, start) ==
    FoldLeft(LAMBDA acc, c :
                LET s == Serialized(c, acc.defs, section, acc.next)
                IN  [out |-> Append(acc.out, s), defs |-> AfterCommand(acc.defs, s),
                     next |-> IF s.def = Uuid(acc.next) THEN acc.next + 1 ELSE acc.next],
             [out |-> <<>>, defs |-> CarriedOver(start.defs), next |-> start.next], commands)

\* draft_to_test_suite_payload: the suite, the definitions after each item and
\* the next uuid.
ToPayload(d, fresh) ==
    FoldLeft(LAMBDA acc, i :
                LET s == SerializedItem(d[i], Section(i), [defs |-> acc.defs[StartsFrom(i)], next |-> acc.next])
                IN  [suite |-> [acc.suite EXCEPT ![i] = s.out], defs |-> [acc.defs EXCEPT ![i] = s.defs],
                     next |-> s.next],
             [suite |-> d, defs |-> [i \in ItemSet \cup {"nothing"} |-> <<>>], next |-> fresh], Items)

-----------------------------------------------------------------------------
(* The server: ConstantDefinitions has the whole of it. *)

Writable(section) ==
    {"result", IF section \in {"beforeAll", "afterAll"} THEN "global" ELSE "local"}

\* The DTOs of these commands require their reference.
Required(c) == c.code \in Asserts \cup Inputs \cup {"deleteVariable"}

\* _definition_refs leaves the bindings of a setVariable out.
Checked(c) == c.code # "setVariable"

\* plan_definitions_for_commands on one item
Plan(commands, section, initial) ==
    FoldLeft(LAMBDA acc, c :
                LET visible == VisibleAt(acc.defs, section, c.order)
                    active == {k \in DOMAIN acc.defs : /\ acc.defs[k].order <= c.order
                                                       /\ acc.defs[k].deleted # 0 => acc.defs[k].deleted > c.order + 1}
                    sees(id) == id # NoId => \E k \in visible : acc.defs[k].id = id
                IN  [ok |-> /\ acc.ok
                            /\ Required(c) => c.ref # NoId
                            /\ Checked(c) => sees(c.ref) /\ sees(c.exp)
                            /\ c.code = "deleteVariable" =>
                                  \E k \in visible : acc.defs[k].id = c.ref /\ acc.defs[k].scope \in Writable(section)
                            /\ c.def # NoId =>
                                  /\ c.scope \in Writable(section)
                                  /\ \A k \in active : <<acc.defs[k].scope, acc.defs[k].name>> # <<c.scope, c.name>>,
                     defs |-> AfterCommand(acc.defs, c)],
             [ok |-> TRUE, defs |-> CarriedOver(initial)], commands)

DeclaredIn(s, i) == {s[i][k].def : k \in DOMAIN s[i]} \ {NoId}

\* update_test_suite_api: the graph is valid, and no definition id is a
\* duplicate of another row's.
ServerAccepts(s) ==
    LET ba == Plan(s["beforeAll"], "beforeAll", <<>>)
        be == Plan(s["beforeEach"], "beforeEach", ba.defs)
    IN  /\ ba.ok /\ be.ok
        /\ \A i \in {"test1", "test2", "afterEach"} : Plan(s[i], Section(i), be.defs).ok
        /\ Plan(s["afterAll"], "afterAll", ba.defs).ok
        /\ \A i \in ItemSet : \A k, l \in DOMAIN s[i] : k # l /\ s[i][k].def # NoId => s[i][k].def # s[i][l].def
        /\ \A i, j \in ItemSet : i # j => DeclaredIn(s, i) \cap DeclaredIn(s, j) = {}
        /\ \A i \in ItemSet : DeclaredIn(s, i) \cap Elsewhere = {}

-----------------------------------------------------------------------------

NothingKept == [added |-> {}, removed |-> {}]

Init ==
    /\ stored \in {s \in Suites : ServerAccepts(s)}
    /\ special = Special
    /\ draft = BuildDraft(stored)
    /\ nextId = 100 /\ nextTag = 100
    /\ edits = 0
    /\ said = ""
    /\ last = [edit |-> "load", tag |-> 0, ok |-> TRUE]
    /\ kept = NothingKept

\* _persist_current_draft, from a draft d to which the edit of command "tag" was
\* made: an accepted suite is read back, and what the payload does not say of
\* an item is reset; a refused one leaves the draft that the caller chooses,
\* and in it the edits "left".
Persist(edit, tag, d, refused, left, message) ==
    /\ edits < MaxEdits /\ edits' = edits + 1
    /\ \E payload \in {ToPayload(d, nextId)} : \E ok \in {ServerAccepts(payload.suite)} :
        /\ stored' = IF ok THEN payload.suite ELSE stored
        /\ special' = IF ok THEN {} ELSE special
        /\ draft' = IF ok THEN BuildDraft(payload.suite) ELSE refused
        /\ nextId' = payload.next
        /\ said' = message
        /\ last' = [edit |-> edit, tag |-> tag, ok |-> ok]
        /\ kept' = IF ok THEN NothingKept ELSE left

\* Mutant: the orders are left as they are.
Resequenced_Kept(cs) == cs

\* _resequence_operations
Resequenced(cs) == [k \in DOMAIN cs |-> [cs[k] EXCEPT !.order = k]]

\* _render_add_hook_command_dialog, and the dialog of a test: the command
\* stays in the draft when it is refused.
AddCommand(i, c) ==
    LET new == [c EXCEPT !.tag = nextTag]
        d == [draft EXCEPT ![i] = Resequenced(Append(@, new))]
    IN  /\ Persist("add", nextTag, d, d, [kept EXCEPT !.added = @ \cup {nextTag}], "Command added.")
        /\ nextTag' = nextTag + 1

\* The delete button of a command: orders keep their gap.
DeleteCommand(i, k) ==
    /\ k \in DOMAIN draft[i]
    /\ LET d == [draft EXCEPT ![i] = RemoveAt(@, k)]
           tag == draft[i][k].tag
           left == IF tag \in kept.added THEN [kept EXCEPT !.added = @ \ {tag}]
                                         ELSE [kept EXCEPT !.removed = @ \cup {tag}]
       IN  Persist("delete", tag, d, d, left, "Command removed.")
    /\ UNCHANGED nextTag

\* The delete button of the advanced hook editor restores the draft.
DeleteHookCommand(i, k) ==
    /\ i \in Hooks /\ k \in DOMAIN draft[i]
    /\ Persist("deleteHook", draft[i][k].tag, [draft EXCEPT ![i] = RemoveAt(@, k)], draft, kept, "")
    /\ UNCHANGED nextTag

Swapped(cs, k) == [cs EXCEPT ![k] = cs[k + 1], ![k + 1] = cs[k]]

\* The up and down buttons, and the reorder dialog, which makes several such
\* swaps before it is saved.
MoveCommand(i, k) ==
    /\ k \in DOMAIN draft[i] /\ k + 1 \in DOMAIN draft[i]
    /\ Persist("move", 0, [draft EXCEPT ![i] = Resequenced(Swapped(@, k))], draft, kept, "")
    /\ UNCHANGED nextTag

ReorderCommands(i) ==
    /\ Len(draft[i]) > 2
    /\ \E k \in 1..(Len(draft[i]) - 2) :
          Persist("move", 0, [draft EXCEPT ![i] = Resequenced(Swapped(Swapped(@, k), k + 1))], draft, kept, "")
    /\ UNCHANGED nextTag

\* Mutant: a refused edit stays in the draft.
EditCommand_NoRestore(i, k, c) ==
    /\ k \in DOMAIN draft[i] /\ draft[i][k].code = c.code
    /\ LET d == [draft EXCEPT ![i][k] = [c EXCEPT !.tag = draft[i][k].tag, !.order = draft[i][k].order]]
       IN  Persist("edit", draft[i][k].tag, d, d, kept, "")
    /\ UNCHANGED nextTag

\* A form is saved over a command (_update_operation_in_item): the
\* configuration is the form's, without the definition id.
EditCommand(i, k, c) ==
    /\ k \in DOMAIN draft[i] /\ draft[i][k].code = c.code
    /\ Persist("edit", draft[i][k].tag,
               [draft EXCEPT ![i][k] = [c EXCEPT !.tag = draft[i][k].tag, !.order = draft[i][k].order]],
               draft, kept, "")
    /\ UNCHANGED nextTag

\* The suite is opened again (_load_selected_draft).
Reload ==
    /\ last.edit # "load"
    /\ draft' = BuildDraft(stored)
    /\ said' = ""
    /\ last' = [edit |-> "load", tag |-> 0, ok |-> TRUE]
    /\ kept' = NothingKept
    /\ UNCHANGED <<stored, special, nextId, nextTag, edits>>

Next ==
    \/ \E i \in ItemSet : \E c \in NewCommands : AddCommand(i, c)
    \/ \E i \in ItemSet : \E k \in DOMAIN draft[i] :
          \/ DeleteCommand(i, k)
          \/ DeleteHookCommand(i, k)
          \/ MoveCommand(i, k)
          \/ \E c \in NewCommands : EditCommand(i, k, c)
    \/ \E i \in ItemSet : ReorderCommands(i)
    \/ Reload

Spec == Init /\ [][Next]_vars

-----------------------------------------------------------------------------

CommandsOf(s) == UNION {Range(s[i]) : i \in ItemSet}

TypeOK ==
    /\ DOMAIN stored = ItemSet /\ DOMAIN draft = ItemSet
    /\ \A c \in CommandsOf(stored) : c.path # NoPath => c.code = "setVariable"
    /\ special \subseteq ItemSet
    /\ \A c \in CommandsOf(draft) : c.order > 0 /\ c.tag > 0
    /\ edits \in 0..MaxEdits
    /\ said \in {"", "Command added.", "Command removed."}

\* What is stored can be read into a draft and saved again, and no command in
\* it changes: every reference finds its definition by path.  (draft_mapper.py;
\* the constants of a runSuite, which are looked up by name, and an
\* expectedRef are left out, and see SettingsAreKept.)
Comparable(s) ==
    [i \in ItemSet |-> [k \in DOMAIN s[i] |->
        [s[i][k] EXCEPT !.exp = NoId, !.ref = IF s[i][k].code = "runSuite" THEN NoId ELSE @]]]

SaveChangesNothing ==
    Comparable(ToPayload(BuildDraft(stored), nextId).suite) = Comparable(stored)

\* After any accepted save, a command other than the edited one still refers
\* to a constant of the same scope and name, wherever commands were moved and
\* whichever ids were given out again; only a runSuite may lose or change it.
PathIn(s, c) == LET d == CHOOSE e \in CommandsOf(s) : e.def = c.ref
                IN  IF c.ref = NoId THEN c.path ELSE <<d.scope, d.name>>

ReferencesKeepTheirPath ==
    last'.ok =>
       \A c \in CommandsOf(stored) : \A e \in CommandsOf(stored') :
           c.tag = e.tag /\ c.code # "runSuite" /\ ~(last'.edit = "edit" /\ c.tag = last'.tag) =>
               PathIn(stored, c) = PathIn(stored', e)

\* A stored reference is to a constant that exists when its command's turn
\* comes: it is declared, and not deleted, by an earlier command of the item
\* or by the hooks that have run before the item.
HooksBefore(i) == CASE i = "beforeAll" -> {}
                    [] i \in {"beforeEach", "afterAll"} -> {"beforeAll"}
                    [] OTHER -> {"beforeAll", "beforeEach"}

Earlier(s, i, k) == {s[i][l] : l \in {m \in DOMAIN s[i] : s[i][m].order < s[i][k].order}}
                    \cup UNION {Range(s[h]) : h \in HooksBefore(i)}

Before(s, i, k) == {c.def : c \in Earlier(s, i, k)}
                   \ {c.ref : c \in {e \in Earlier(s, i, k) : e.code = "deleteVariable"}}

ReferencesComeAfter ==
    \A i \in ItemSet : \A k \in DOMAIN stored[i] :
        stored[i][k].ref # NoId => stored[i][k].ref \in Before(stored, i, k)

\* The draft is the stored suite, whichever edits were refused, apart from the
\* additions and deletions that were refused since the suite was last read:
\* those two handlers leave their edit in the draft, and no handler leaves more.
Without(cs, tags) ==
    LET rest == SelectSeq(cs, LAMBDA c : c.tag \notin tags)
    IN  [k \in DOMAIN rest |-> [rest[k] EXCEPT !.order = 0]]

DraftFollowsStore ==
    /\ kept = NothingKept => draft = BuildDraft(stored)
    /\ \A i \in ItemSet : Without(draft[i], kept.added) = Without(BuildDraft(stored)[i], kept.removed)

\* "Constant reference '{definition_id}' is not visible for command": a stored
\* command has no reference that leads nowhere.
BindingsAreChecked == \A c \in CommandsOf(stored) : c.path = NoPath

\* "Test suite updated.": an edit of a command leaves the role, the template and
\* the data set of the tests as they were.
SettingsAreKept == special = Special

\* suite_editor_component.py tells the user "Command removed." when a command
\* is deleted: it is then removed from the stored suite.
RemovedIsRemoved == said = "Command removed." => last.ok

\* test_draft_to_test_suite_payload_preserves_expected_ref_for_json_contains_
\* round_trip: what an assert expects survives the way through the draft.
ExpectedSurvives ==
    \A i \in ItemSet : \A k \in DOMAIN stored[i] :
        ToPayload(BuildDraft(stored), nextId).suite[i][k].exp = stored[i][k].exp

=============================================================================
