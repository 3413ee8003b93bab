-------------------------- MODULE TestSuiteEditing --------------------------
(***************************************************************************)
(* The editing of a test suite (app/elaborations/api/test_suites_api.py)   *)
(* while one of its runs may be going on.  A handler is one transaction.   *)
(* Whole suites are validated before they are stored; the endpoints for a  *)
(* single test only rebuild the constant definitions, whose ids are        *)
(* primary keys.  A run loads the hooks and the tests when it starts, and  *)
(* the commands of an item when the item's turn comes.                     *)
(*                                                                         *)
(* The plan of constants is reduced to one declaration and one reference   *)
(* per command (ConstantDefinitions has the scopes, types and deletions).  *)
(***************************************************************************)
EXTENDS SuiteTemplates, FiniteSets, FiniteSetsExt, TLC

CONSTANTS
    Items,     \* item payloads (CreateSuiteItemDto) a client may send
    Suites,    \* suite payloads: hooks and tests, sequences of Items
    Elsewhere, \* definition ids stored for other suites
    MaxEdits   \* bound: accepted edits

EditingAssumption == MaxEdits \in Nat

VARIABLES
    exists,    \* the suite has a row
    items,     \* suite_items, by id
    elsewhere, \* definition ids of other suites, and of deleted ones
    defs,      \* ids in command_constant_definitions of this suite
    last,      \* the last edit: its name, item and payload, and whether it was accepted
    edits,
    run        \* the run: what it holds, has left and has done

vars == <<exists, items, elsewhere, defs, last, edits, run>>

Phases == <<"before-all", "before-each", "after-each", "after-all">>

-----------------------------------------------------------------------------
(* Sections and visibility. *)

\* The suite's items by (position, id).
Ordered(its) ==
    LET before(i) == {j \in DOMAIN its : \/ its[j].position < its[i].position
                                         \/ its[j].position = its[i].position /\ j < i}
    IN  [n \in 1..Cardinality(DOMAIN its) |->
            CHOOSE i \in DOMAIN its : Cardinality(before(i)) = n - 1]

TestsOf(its) == SelectSeq(Ordered(its), LAMBDA i : its[i].kind = "test")
HooksOf(its, phase) == {i \in DOMAIN its : its[i].kind = "hook" /\ its[i].phase = phase}

\* int(operation.order or index): an order of zero is taken for a missing one.
EffectiveOrder(cmds, k) == IF cmds[k].order = 0 THEN k ELSE cmds[k].order

DeclaredBy(cmds) == {cmds[k].declares : k \in DOMAIN cmds} \ {NoDefinition}

\* Mutant: references are not looked up, only declarations.
PlanAccepts_NoLookup(cmds, visible) ==
    \A k \in DOMAIN cmds : cmds[k].declares # NoDefinition => cmds[k].declares \notin visible

\* plan_definitions_for_commands
PlanAccepts(cmds, visible) ==
    \A k \in DOMAIN cmds :
        /\ cmds[k].reads # NoDefinition =>
              \/ cmds[k].reads \in visible
              \/ \E j \in DOMAIN cmds : /\ cmds[j].declares = cmds[k].reads
                                        /\ EffectiveOrder(cmds, j) < EffectiveOrder(cmds, k)
        /\ cmds[k].declares # NoDefinition =>
              /\ cmds[k].declares \notin visible
              /\ \A j \in DOMAIN cmds \ {k} : cmds[j].declares # cmds[k].declares

\* The sources an item sees besides its own, from the hooks that are given.
Inherited(section, beforeAll, beforeEach) ==
    (IF section \in {"before-each", "test", "after-all"} THEN <<beforeAll>> ELSE <<>>)
    \o (IF section \in {"test", "after-each"} THEN <<beforeEach>> ELSE <<>>)

\* build_visible_sources_for_suite_item raises on a code that is seen twice.
SourcesClash(section, own, beforeAll, beforeEach) ==
    LET seen == Append(Inherited(section, beforeAll, beforeEach), own)
    IN  \E a, b \in DOMAIN seen : a # b /\ seen[a] \cap seen[b] # {}

Section(item) == IF item.kind = "hook" THEN item.phase ELSE "test"

-----------------------------------------------------------------------------
(* validate_suite_constant_graph on a payload: the last hook of a phase is *)
(* the one that counts.                                                    *)

LastHook(hooks, phase) == SelectLastInSeq(hooks, LAMBDA h : h.phase = phase)

SourcesOfHook(hooks, phase) ==
    IF LastHook(hooks, phase) = 0 THEN {} ELSE hooks[LastHook(hooks, phase)].sources

CommandsOfHook(hooks, phase) ==
    IF LastHook(hooks, phase) = 0 THEN <<>> ELSE hooks[LastHook(hooks, phase)].commands

GraphValid(hooks, tests) ==
    LET all == hooks \o tests
        ba == DeclaredBy(CommandsOfHook(hooks, "before-all"))
        be == ba \cup DeclaredBy(CommandsOfHook(hooks, "before-each"))
    IN  /\ \A i \in DOMAIN all :
              ~SourcesClash(Section(all[i]), all[i].sources, SourcesOfHook(hooks, "before-all"),
                            SourcesOfHook(hooks, "before-each"))
        /\ PlanAccepts(CommandsOfHook(hooks, "before-all"), {})
        /\ PlanAccepts(CommandsOfHook(hooks, "before-each"), ba)
        /\ \A i \in DOMAIN tests : PlanAccepts(tests[i].commands, be)
        /\ PlanAccepts(CommandsOfHook(hooks, "after-each"), be)
        /\ PlanAccepts(CommandsOfHook(hooks, "after-all"), ba)

-----------------------------------------------------------------------------
(* rebuild_suite_constant_definitions on the stored items: whatever has a  *)
(* hook_phase is a hook, the last of a phase by position counts, and a     *)
(* definition id must not be stored yet.                                   *)

PhaseItem(its, phase) ==
    LET s == SelectSeq(Ordered(its), LAMBDA i : its[i].phase = phase)
    IN  IF s = <<>> THEN 0 ELSE Last(s)

PlannedItems(its) == {i \in DOMAIN its : its[i].phase = "none"}
                     \cup ({PhaseItem(its, Phases[p]) : p \in 1..4} \ {0})

CommandsAt(its, i) == IF i = 0 THEN <<>> ELSE its[i].commands

PlansAccepted(its) ==
    LET ba == DeclaredBy(CommandsAt(its, PhaseItem(its, "before-all")))
        be == ba \cup DeclaredBy(CommandsAt(its, PhaseItem(its, "before-each")))
        visible(i) == CASE its[i].phase = "before-all" -> {}
                        [] its[i].phase \in {"before-each", "after-all"} -> ba
                        [] OTHER -> be
    IN  \A i \in PlannedItems(its) : PlanAccepts(its[i].commands, visible(i))

\* Mutant: a definition of another suite is taken over.
RebuildAccepts_NoKey(its) == PlansAccepted(its)

RebuildAccepts(its) ==
    /\ PlansAccepted(its)
    /\ \A i, j \in PlannedItems(its) :
          i # j => DeclaredBy(its[i].commands) \cap DeclaredBy(its[j].commands) = {}
    /\ \A i \in PlannedItems(its) : DeclaredBy(its[i].commands) \cap elsewhere = {}

Rebuilt(its) == UNION {DeclaredBy(its[i].commands) : i \in PlannedItems(its)}

-----------------------------------------------------------------------------

\* During the run a whole-suite edit was accepted (replaced), and edits of these
\* single tests (touched).
Idle == [state |-> "idle", held |-> <<>>, left |-> <<>>, done |-> <<>>, replaced |-> FALSE, touched |-> {}]

Init ==
    /\ exists = FALSE
    /\ items = <<>>
    /\ elsewhere = Elsewhere
    /\ defs = {}
    /\ last = [name |-> "none", id |-> 0, template |-> "custom", empty |-> TRUE, accepted |-> TRUE]
    /\ edits = 0
    /\ run = Idle

\* _build_suite_item_entity
Row(dto, position, commands) ==
    [kind |-> dto.kind, phase |-> dto.phase, position |-> position, sources |-> dto.sources,
     template |-> dto.template, config |-> dto.config, commands |-> commands]

FreshId == Max(DOMAIN items \cup {edits * 10}) + 1

\* Ids are random: a new one may sort before the others or after them.
FreshIds == {FreshId} \cup (IF DOMAIN items = {} THEN {} ELSE {Min(DOMAIN items) - 1})

\* The transaction commits with the items "its", or is refused.
Outcome(name, id, template, its, valid) ==
    /\ edits < MaxEdits
    /\ exists \/ name = "create"
    /\ last' = [name |-> name, id |-> id, template |-> template, empty |-> items = <<>>,
                accepted |-> valid /\ RebuildAccepts(its)]
    /\ IF valid /\ RebuildAccepts(its)
       THEN exists' = TRUE /\ items' = its /\ defs' = Rebuilt(its) /\ edits' = edits + 1
       ELSE UNCHANGED <<exists, items, defs, edits>>
    /\ UNCHANGED elsewhere
    /\ run' = [run EXCEPT !.replaced = @ \/ (name = "put" /\ last'.accepted),
                          !.touched = IF run.state = "running" /\ name \in {"update", "convert"}
                                         /\ last'.accepted THEN @ \cup {id} ELSE @]

\* _insert_suite_items: of each phase the first hook, then the tests, with the
\* commands of the payload whatever their template.
Inserted(dto) ==
    LET first(p) == SelectInSeq(dto.hooks, LAMBDA h : h.phase = Phases[p])
        hooks == SelectSeq(<<1, 2, 3, 4>>, LAMBDA p : first(p) # 0)
    IN  [n \in 1..(Len(hooks) + Len(dto.tests)) |->
            IF n <= Len(hooks)
            THEN LET h == dto.hooks[first(hooks[n])] IN Row(h, 0, h.commands)
            ELSE LET t == dto.tests[n - Len(hooks)] IN Row(t, n - Len(hooks), t.commands)]

\* The items of a payload under new ids.
NewItems(dto) ==
    LET base == FreshId - 1
        new == Inserted(dto)
    IN  [i \in {base + n : n \in DOMAIN new} |-> new[i - base]]

\* insert_test_suite_api, for a suite that may be a deleted one once more.
CreateSuite ==
    /\ exists = FALSE
    /\ \E dto \in Suites : Outcome("create", 0, "custom", NewItems(dto), GraphValid(dto.hooks, dto.tests))

\* update_test_suite_api: every item gets a new id.
PutSuite ==
    /\ exists
    /\ \E dto \in Suites : Outcome("put", 0, "custom", NewItems(dto), GraphValid(dto.hooks, dto.tests))

\* _resolve_template_commands
Resolvable(dto) == ~IsSupported(dto.template) \/ Generates(dto.template, dto.config)
Resolved(dto) == IF IsSupported(dto.template) THEN GenerateCommands(dto.template, dto.config)
                                              ELSE dto.commands

\* Mutant: the tests are counted.
NextPosition_Count(its) == Len(TestsOf(its)) + 1

NextPosition(its) == Max({0} \cup {its[i].position : i \in Range(TestsOf(its))}) + 1

\* add_test_to_suite_api
AddTest ==
    \E dto \in Items, id \in FreshIds :
        IF Resolvable(dto)
        THEN Outcome("add", id, dto.template,
                     items @@ (id :> Row(dto, NextPosition(items), Resolved(dto))), TRUE)
        ELSE Outcome("add", 0, "custom", items, FALSE)

\* update_entity leaves a column alone when the value is None.
Updated(row, dto, commands) ==
    [Row(dto, row.position, commands) EXCEPT
        !.phase = IF dto.phase = "none" THEN row.phase ELSE dto.phase,
        !.config = IF dto.config = NoConfig THEN row.config ELSE dto.config]


\* update_test_in_suite_api
UpdateTest ==
    \E id \in DOMAIN items, dto \in Items :
        IF Resolvable(dto)
        THEN Outcome("update", id, dto.template, [items EXCEPT ![id] = Updated(items[id], dto, Resolved(dto))], TRUE)
        ELSE Outcome("update", 0, "custom", items, FALSE)

\* The template's commands are generated once more from the stored
\* configuration; template_config = None is left alone by update_entity.
Converted(row) == [row EXCEPT !.template = "custom", !.commands = GenerateCommands(row.template, row.config)]

\* convert_test_to_custom_api
ConvertToCustom ==
    \E id \in DOMAIN items :
        /\ IsSupported(items[id].template)
        /\ IF Generates(items[id].template, items[id].config)
           THEN Outcome("convert", id, "custom", [items EXCEPT ![id] = Converted(items[id])], TRUE)
           ELSE Outcome("convert", 0, "custom", items, FALSE)

\* delete_test_suite_api: the items go, the definitions stay.
DeleteSuite ==
    /\ edits < MaxEdits /\ exists
    /\ exists' = FALSE
    /\ items' = <<>>
    /\ elsewhere' = elsewhere \cup defs
    /\ defs' = {}
    /\ edits' = edits + 1
    /\ last' = [name |-> "delete", id |-> 0, template |-> "custom", empty |-> FALSE, accepted |-> TRUE]
    /\ run' = [run EXCEPT !.replaced = TRUE]

-----------------------------------------------------------------------------
(* A run. *)

\* The items of a run in their order: a section and an item id.
AgendaOf(its) ==
    LET hook(p) == IF HooksOf(its, p) = {} THEN <<>> ELSE << <<p, CHOOSE i \in HooksOf(its, p) : TRUE>> >>
        turn(i) == hook("before-each") \o << <<"test", i>> >> \o hook("after-each")
        tests == TestsOf(its)
    IN  hook("before-all") \o FlattenSeq([n \in DOMAIN tests |-> turn(tests[n])]) \o hook("after-all")

\* get_hook_by_phase is one_or_none: two hooks of a phase end the run.
StartRun ==
    /\ run.state = "idle" /\ exists
    /\ run' = IF \E p \in 1..4 : Cardinality(HooksOf(items, Phases[p])) > 1
              THEN [Idle EXCEPT !.state = "rolledback"]
              ELSE [Idle EXCEPT !.state = "running", !.held = items, !.left = AgendaOf(items)]
    /\ UNCHANGED <<exists, items, elsewhere, defs, last, edits>>

HeldSources(p) == UNION {run.held[i].sources : i \in HooksOf(run.held, p)}

\* The turn of an item: its visible sources come from what the run holds, its
\* commands from the table.
RunItem ==
    /\ run.state = "running" /\ run.left # <<>>
    /\ LET section == Head(run.left)[1]
           id == Head(run.left)[2]
           clash == SourcesClash(section, run.held[id].sources, HeldSources("before-all"),
                                 HeldSources("before-each"))
       IN  run' = IF clash THEN [run EXCEPT !.state = "rolledback"]
                  ELSE [run EXCEPT !.left = Tail(run.left),
                                   !.done = Append(run.done,
                                      [id |-> id, gone |-> id \notin DOMAIN items,
                                       commands |-> IF id \in DOMAIN items THEN items[id].commands
                                                                           ELSE <<>>])]
    /\ UNCHANGED <<exists, items, elsewhere, defs, last, edits>>

EndRun ==
    /\ run.state = "running" /\ run.left = <<>>
    /\ run' = [run EXCEPT !.state = "success"]
    /\ UNCHANGED <<exists, items, elsewhere, defs, last, edits>>

Next == CreateSuite \/ PutSuite \/ AddTest \/ UpdateTest \/ ConvertToCustom \/ DeleteSuite
        \/ StartRun \/ RunItem \/ EndRun

Spec == Init /\ [][Next]_vars

-----------------------------------------------------------------------------

\* Type invariant.
TypeOK ==
    /\ \A i \in DOMAIN items : /\ items[i].kind \in {"test", "hook"}
                               /\ items[i].phase \in Range(Phases) \cup {"none"}
                               /\ items[i].position \in Nat
    /\ defs \cap elsewhere = {}
    /\ edits \in 0..MaxEdits
    /\ run.state \in {"idle", "running", "success", "rolledback"}

\* add_test_to_suite_api "Append a single test to an existing suite.": a test
\* that is added comes after every test of the suite, in the order in which a
\* run takes them.
AddedIsLast ==
    last'.name = "add" /\ last'.accepted /\ items'[last'.id].kind = "test" /\ items # items' =>
       /\ Last(TestsOf(items')) = last'.id
       /\ Front(TestsOf(items')) = TestsOf(items)

\* A run executes for each of its items the commands the suite held when the
\* run was started, unless that very test was edited meanwhile, or the whole
\* suite was replaced or deleted: then the item finds its commands gone and
\* succeeds without them (test_suite_executor_thread.py:98).  An edit or an
\* addition of one test changes nothing for the others.
RunKeepsItems ==
    \A n \in DOMAIN run.done :
        LET d == run.done[n]
        IN  run.replaced \/ (~d.gone /\ (d.id \in run.touched \/ d.commands = run.held[d.id].commands))

\* Every reference of a stored command is declared by an earlier command of
\* its item, or by a hook that runs before it, and its definition is stored.
AllReferencesDeclared ==
    \A i \in DOMAIN items : \A k \in DOMAIN items[i].commands :
        LET c == items[i].commands[k]
            before == UNION {DeclaredBy(items[j].commands) :
                                j \in HooksOf(items, "before-all") \cup HooksOf(items, "before-each")}
            own == {items[i].commands[j].declares :
                       j \in {m \in DOMAIN items[i].commands : items[i].commands[m].order < c.order}}
        IN  c.reads # NoDefinition => c.reads \in (before \cup own) \cap defs

\* Unless a hook was made a test (which keeps its phase), a run never reads a
\* constant that no command of the suite has written, whatever single tests
\* and whole suites were stored in which order.
ReferencesDeclared == (\A i \in DOMAIN items : items[i].kind = "test" => items[i].phase = "none")
                      => AllReferencesDeclared

\* "Duplicate hook for phase '{phase}'.": a suite has one hook of a phase.
OneHookPerPhase == \A p \in 1..4 : Cardinality(HooksOf(items, Phases[p])) <= 1

\* "Source '{source_code}' is visible from multiple sections": a suite with
\* such a source is not stored.
StoredSourcesDiffer ==
    \A i \in DOMAIN items :
        ~SourcesClash(Section(items[i]), items[i].sources,
                      UNION {items[j].sources : j \in HooksOf(items, "before-all")},
                      UNION {items[j].sources : j \in HooksOf(items, "before-each")})

\* "clear `template_config` and set `template_kind=custom`"
ConvertedForgetsConfig ==
    [][last'.name = "convert" /\ last'.accepted /\ items # items' => items'[last'.id].config = NoConfig]_vars

\* "run the template engine on `dto.template_config` and persist the generated
\* commands": what the engine generates can be added to an empty suite.
TemplatesCanBeStored == last.name = "add" /\ last.empty /\ last.template # "custom" => last.accepted

\* "Append a single test to an existing suite": a second test of a template
\* can be added as the first one could.
TemplateTestsCoexist == last.name = "add" /\ last.template = "mock_assert" => last.accepted

\* "Wait {wait_ms}ms for side effects": a run sleeps as many milliseconds as
\* the template's configuration says; the executor sleeps seconds.
WaitsAsConfigured ==
    \A n \in DOMAIN run.done :
        LET d == run.done[n]
        IN  d.id \in DOMAIN items /\ items[d.id].template = "mock_assert" =>
                \A k \in DOMAIN d.commands :
                    d.commands[k].sleep > 0 => d.commands[k].sleep * 1000 = WaitOr(items[d.id].config.wait, 1000)

=============================================================================
