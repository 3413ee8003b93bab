------------------------ MODULE ConstantDefinitions ------------------------
(***************************************************************************)
(* The constants of a test suite.  When a suite is saved, a static plan    *)
(* decides which constant each command may declare, read or delete         *)
(* (services/constants/command_constant_definition_registry.py); when it   *)
(* runs, a reference to a definition is a path into the run context        *)
(* (services/suite_runs/run_context.py), which holds values by scope and   *)
(* name.  The plan walks every section once; a run goes through            *)
(* before-each and after-each once per test, in one context.               *)
(*                                                                         *)
(* A definition id is the pair <<item, place>> of the declaring command,   *)
(* and a value is the command that wrote it, so that a read shows whose    *)
(* value it got.  The commands of an item are kept in the order of the     *)
(* plan's sort, by (order, id); the table returns them by order alone, so  *)
(* a run takes commands of equal order in any order.                       *)
(***************************************************************************)
EXTENDS Naturals, Sequences, SequencesExt

CONSTANTS
    Names,        \* names of declared constants
    TargetNames,  \* names a target path writes that no command declares
    SetScopes,    \* scopes a setVariable declares its constant in
    ValueTypes,   \* value types a setVariable declares
    Readers,      \* command codes with an input reference
    Targets,      \* target paths of receiveQueue and queryDatabase
    TypedBy,      \* items in which commands are typed in
    MaxCommands,  \* bound: commands of a suite
    MaxFaults     \* bound: commands that fail for a reason of their own

ConstantsAssumption == MaxCommands \in Nat /\ MaxFaults \in Nat

VARIABLES
    phase,     \* "edit", "refused", "stored", "run" or "over"
    suite,     \* the commands of each item
    table,     \* rows of command_constant_definitions: id -> scope and name
    at,        \* the item of the run: its place in the agenda
    done,      \* places of the item's commands that were executed
    context,   \* RunContext: scope -> name -> value
    failed,    \* items in which a command failed
    faults,    \* faults so far
    lastRead   \* the last reference resolved: the id and the value it gave

runVars == <<at, done, context, failed, faults, lastRead>>
vars == <<phase, suite, table, runVars>>

-----------------------------------------------------------------------------

Items == <<"beforeAll", "beforeEach", "test1", "test2", "afterEach", "afterAll">>

ItemSet == Range(Items)

\* What a run executes: the loop over tests is unrolled.
Agenda == <<"beforeAll", "beforeEach", "test1", "afterEach",
            "beforeEach", "test2", "afterEach", "afterAll">>

Section(item) == IF item \in {"test1", "test2"} THEN "test" ELSE item

Scopes == {"runEnvelope", "global", "local", "result"}

Nothing == <<"nothing", 0>>

\* _READABLE_SCOPES
Readable(section) ==
    {"runEnvelope", "result"}
      \cup (IF section \in {"beforeEach", "test", "afterEach", "afterAll"} THEN {"global"} ELSE {})
      \cup (IF section \in {"test", "afterEach"} THEN {"local"} ELSE {})

\* _WRITABLE_SCOPES
Writable(section) ==
    {"result"}
      \cup (IF section \in {"beforeAll", "afterAll"} THEN {"global"} ELSE {})
      \cup (IF section \in {"beforeEach", "test", "afterEach"} THEN {"local"} ELSE {})
      \cup (IF section = "mock.preResponse" THEN {"runEnvelope"} ELSE {})

\* _TYPE_COMPATIBILITY; a command that is not listed takes every type.
Compatible(code, type) ==
    CASE code = "sendMessageQueue" -> type \in {"raw", "json", "jsonArray", "dataset"}
      [] code \in {"saveTable", "exportDataset"} -> type \in {"json", "jsonArray", "dataset"}
      [] code \in {"jsonEquals", "jsonEmpty", "jsonNotEmpty", "jsonContains"} -> type \in {"json", "raw"}
      [] code \in {"jsonArrayEquals", "jsonArrayEmpty", "jsonArrayNotEmpty", "jsonArrayContains"} -> type = "jsonArray"
      [] OTHER -> TRUE

Asserts == {"jsonEquals", "jsonEmpty", "jsonNotEmpty", "jsonContains",
            "jsonArrayEquals", "jsonArrayEmpty", "jsonArrayNotEmpty", "jsonArrayContains"}

SuiteSections == {"beforeAll", "beforeEach", "test", "afterEach", "afterAll"}

\* _CONTRACTS, supported_scopes: setVariable; deleteVariable and sleep.
VariableSections == SuiteSections \cup {"mock.preResponse"}
PlainSections == SuiteSections

\* The commands that act on something outside the run.
ActionSections == SuiteSections \cup {"mock.postResponse"}

\* The asserts: never in a hook of the suite.
AssertSections == {"test", "mock.preResponse"}

\* _validate_scope_rules
Supported(code, section) ==
    section \in (CASE code = "setVariable" -> VariableSections
                   [] code \in {"deleteVariable", "sleep"} -> PlainSections
                   [] code \in Asserts -> AssertSections
                   [] OTHER -> ActionSections)

\* A command: what _definition_refs and _planned_declarations see of it.
Command(code, order) == [code |-> code, order |-> order, ref |-> Nothing,
                         scope |-> "", name |-> "", type |-> "", target |-> <<>>]

Reads(c) == c.ref # Nothing
Declares(c) == c.name # ""

Definitions(s) == {<<i, k>> : i \in ItemSet, k \in 1..MaxCommands}
                    \cap {d \in UNION {{<<i, k>> : k \in DOMAIN s[i]} : i \in ItemSet} :
                              Declares(s[d[1]][d[2]])}

-----------------------------------------------------------------------------
(* The plan.  A plan is the definitions known so far, by id, and whether   *)
(* the commands were accepted.                                             *)

NoDefinitions == [d \in {} |-> Nothing]

\* _carry_over_visible_map: orders are those of another section, so they
\* become zero; what was deleted is dropped.
CarryOver(defs) ==
    [d \in {e \in DOMAIN defs : defs[e].deleted = 0} |-> [defs[d] EXCEPT !.order = 0]]

\* _active_definitions
Active(defs, scopes, order) ==
    {d \in DOMAIN defs : /\ defs[d].scope \in scopes
                         /\ defs[d].order < order
                         /\ defs[d].deleted # 0 => defs[d].deleted > order}

\* _validate_ref_visibility
RefAccepted(defs, section, c) ==
    Reads(c) =>
        /\ c.ref \in Active(defs, Readable(section), c.order)
        /\ Compatible(c.code, defs[c.ref].type)
        /\ c.code = "deleteVariable" => defs[c.ref].scope \in Writable(section)

\* Mutant: names are not compared.
DeclarationAccepted_AnyName(defs, section, c) == Declares(c) => c.scope \in Writable(section)

\* _validate_declarations, with _validate_duplicate_name
DeclarationAccepted(defs, section, c) ==
    Declares(c) =>
        /\ c.scope \in Writable(section)
        /\ \A d \in Active(defs, Scopes, c.order + 1) :
              ~(defs[d].name = c.name /\ defs[d].scope = c.scope)

\* _planned_declarations
Planned(c) == [scope |-> c.scope, name |-> c.name, type |-> c.type,
               order |-> c.order, deleted |-> 0]

\* One turn of the loop of plan_definitions_for_commands.
PlanCommand(item, plan, k, c) ==
    LET section == Section(item)
        defs == plan.defs
    IN  IF ~(plan.ok /\ RefAccepted(defs, section, c)) THEN [plan EXCEPT !.ok = FALSE]
        ELSE IF c.code = "deleteVariable"
             THEN [plan EXCEPT !.defs[c.ref].deleted = c.order]
        ELSE IF ~DeclarationAccepted(defs, section, c) THEN [plan EXCEPT !.ok = FALSE]
        ELSE IF Declares(c)
             THEN [plan EXCEPT !.defs = [d \in DOMAIN defs \cup {<<item, k>>} |->
                                           IF d = <<item, k>> THEN Planned(c) ELSE defs[d]]]
        ELSE plan

\* plan_definitions_for_commands
Plan(s, item, initial) ==
    FoldLeftDomain(LAMBDA plan, k : PlanCommand(item, plan, k, s[item][k]),
                   [ok |-> TRUE, defs |-> CarryOver(initial)], s[item])

\* validate_suite_constant_graph, and again rebuild_suite_constant_definitions:
\* a test and after-each start from what before-each leaves, after-all from
\* what before-all leaves.
Accepted(s) ==
    LET beforeAll == Plan(s, "beforeAll", NoDefinitions)
        beforeEach == Plan(s, "beforeEach", beforeAll.defs)
    IN  /\ beforeAll.ok /\ beforeEach.ok
        /\ \A i \in {"test1", "test2", "afterEach"} : Plan(s, i, beforeEach.defs).ok
        /\ Plan(s, "afterAll", beforeAll.defs).ok

\* The rows rebuild_suite_constant_definitions inserts.
Rebuilt(s) == [d \in Definitions(s) |-> LET c == s[d[1]][d[2]] IN <<c.scope, c.name>>]

-----------------------------------------------------------------------------
(* The run context. *)

AllNames == Names \cup TargetNames

EmptyScope == [n \in AllNames |-> Nothing]

EmptyContext == [sc \in Scopes |-> EmptyScope]

\* extract_context_root
Root(path) == IF path[1] = "vars" THEN "global"
              ELSE IF path[1] \in Scopes THEN path[1] ELSE "none"

\* Mutant: the alias is compared as it is written.
RootAllowed_Verbatim(path, section) ==
    /\ Root(path) # "none"
    /\ section = "test" => path[1] \notin {"global", "runEnvelope"}

\* _validate_target_roots, and the same two conditions in write_context_path.
RootAllowed(path, section) ==
    /\ Root(path) # "none"
    /\ section = "test" => Root(path) \notin {"global", "runEnvelope"}

\* The rest of a path, which may name the enclosing contexts: the local scope
\* holds the global one and that the envelope.
Rest(path) == IF path[2] \in {"constants", "global", "runEnvelope"} THEN Tail(path)
              ELSE <<"constants">> \o Tail(path)

\* _assign_nested_value: where write_context_path stores the value.
Place(path) ==
    LET r == Rest(path)
    IN  [name  |-> Last(path),
         scope |-> IF "runEnvelope" \in Range(r) THEN "runEnvelope"
                   ELSE IF "global" \in Range(r) THEN "global" ELSE Root(path)]

Write(scope, name, value) == context' = [context EXCEPT ![scope][name] = value]

\* resolve_definition_path, then the path is looked up: a missing value is None.
Resolve(d) == context[table[d][1]][table[d][2]]

-----------------------------------------------------------------------------
(* Editing and saving. *)

Init ==
    /\ phase = "edit"
    /\ suite = [i \in ItemSet |-> <<>>]
    /\ table = [d \in {} |-> <<>>]
    /\ at = 0 /\ done = {}
    /\ context = EmptyContext
    /\ failed = {} /\ faults = 0
    /\ lastRead = [ref |-> Nothing, got |-> Nothing]

Size(s) == Len(s["beforeAll"]) + Len(s["beforeEach"]) + Len(s["test1"])
             + Len(s["test2"]) + Len(s["afterEach"]) + Len(s["afterAll"])

NewCommands(order) ==
    {[Command("setVariable", order) EXCEPT !.scope = sc, !.name = n, !.type = t] :
        sc \in SetScopes, n \in Names, t \in ValueTypes}
    \cup {[Command("deleteVariable", order) EXCEPT !.ref = d] : d \in Definitions(suite)}
    \cup {[Command(r, order) EXCEPT !.ref = d] : r \in Readers, d \in Definitions(suite)}
    \cup {[Command("readApi", order) EXCEPT !.scope = "result", !.name = n, !.type = "json"] : n \in Names}
    \cup {[Command("queryDatabase", order) EXCEPT !.target = p] : p \in Targets}

\* A command is typed in.  The items are filled in the order of Items, and a
\* command has the order of the one before it or the next one.
TypeCommand(j) ==
    LET item == Items[j]
        cs == suite[item]
        last == IF cs = <<>> THEN 0 ELSE Last(cs).order
    IN  /\ phase = "edit" /\ Size(suite) < MaxCommands
        /\ item \in TypedBy
        /\ \A l \in (j + 1)..Len(Items) : suite[Items[l]] = <<>>
        /\ \E order \in {last, last + 1} \ {0} : \E c \in NewCommands(order) :
              suite' = [suite EXCEPT ![item] = Append(cs, c)]
        /\ UNCHANGED <<phase, table, runVars>>

\* The suite is saved: refused, or its definitions replace the stored ones.
Save ==
    /\ phase = "edit"
    /\ phase' = IF Accepted(suite) THEN "stored" ELSE "refused"
    /\ table' = IF Accepted(suite) THEN Rebuilt(suite) ELSE table
    /\ UNCHANGED <<suite, runVars>>

-----------------------------------------------------------------------------
(* The run. *)

Item == Agenda[at]

\* Mutant: the local constants of the previous test stay.
Entered_Dirty(place) == context

\* The context an item starts with: before-each begins a test's fresh local
\* constants, before-all and after-all get constants of their own.
Entered(place) ==
    IF Agenda[place] \in {"beforeAll", "beforeEach", "afterAll"}
    THEN [context EXCEPT !["local"] = EmptyScope] ELSE context

StartRun ==
    /\ phase = "stored"
    /\ phase' = "run"
    /\ at' = 1 /\ done' = {}
    /\ context' = EmptyContext
    /\ UNCHANGED <<suite, table, failed, faults, lastRead>>

\* A command whose turn it is: get_all_by_suite_item_id sorts by order only.
Turn(k) ==
    /\ phase = "run"
    /\ k \in DOMAIN suite[Item] \ done
    /\ \A l \in DOMAIN suite[Item] \ done : suite[Item][k].order <= suite[Item][l].order

\* validate_operation_policy
Allowed(c) == /\ Supported(c.code, Section(Item))
              /\ c.target # <<>> => RootAllowed(c.target, Section(Item))
              /\ Declares(c) => RootAllowed(<<c.scope, c.name>>, Section(Item))

Executed(k) == /\ done' = done \cup {k}
               /\ UNCHANGED <<phase, suite, table, at, failed, faults>>

\* DataOperationExecutor.execute
SetVariable(k) ==
    LET c == suite[Item][k] IN
    /\ Turn(k) /\ c.code = "setVariable" /\ Allowed(c)
    /\ c.type \notin {"dataset", "jsonArray"}
    /\ Write(c.scope, c.name, <<Item, k>>)
    /\ Executed(k)
    /\ UNCHANGED lastRead

\* DeleteConstantOperationExecutor.execute; remove_context_path does nothing
\* when the constant is not there.
DeleteVariable(k) ==
    LET c == suite[Item][k] IN
    /\ Turn(k) /\ c.code = "deleteVariable" /\ Allowed(c)
    /\ Write(table[c.ref][1], table[c.ref][2], Nothing)
    /\ Executed(k)
    /\ UNCHANGED lastRead

\* A command that resolves its inputRef, or that writes its resultConstant.
UseConstants(k) ==
    LET c == suite[Item][k] IN
    /\ Turn(k) /\ c.code \in Readers \cup {"readApi"} /\ Allowed(c)
    /\ lastRead' = IF Reads(c) THEN [ref |-> c.ref, got |-> Resolve(c.ref)]
                               ELSE lastRead
    /\ IF Declares(c) THEN Write("result", c.name, <<Item, k>>) ELSE UNCHANGED context
    /\ Executed(k)

\* receiveQueue and queryDatabase write what they loaded at their target.
WriteTarget(k) ==
    LET c == suite[Item][k] IN
    /\ Turn(k) /\ c.code = "queryDatabase" /\ Allowed(c)
    /\ Write(Place(c.target).scope, Place(c.target).name, <<Item, k>>)
    /\ Executed(k)
    /\ UNCHANGED lastRead

\* Mutant: failures are kept by section, so that a test's is nobody's.
CommandFails_BySection(k) ==
    LET c == suite[Item][k]
        unsupported == c.code = "setVariable" /\ c.type \in {"dataset", "jsonArray"}
    IN  /\ Turn(k)
        /\ ~Allowed(c) \/ unsupported \/ faults < MaxFaults
        /\ faults' = IF Allowed(c) /\ ~unsupported THEN faults + 1 ELSE faults
        /\ failed' = failed \cup {Section(Item)}
        /\ done' = DOMAIN suite[Item]
        /\ UNCHANGED <<phase, suite, table, at, context, lastRead>>

\* A command fails: it is not allowed here, its value type cannot be loaded,
\* or for a reason of its own.  The rest of the item is skipped.
CommandFails(k) ==
    LET c == suite[Item][k]
        unsupported == c.code = "setVariable" /\ c.type \in {"dataset", "jsonArray"}
    IN  /\ Turn(k)
        /\ ~Allowed(c) \/ unsupported \/ faults < MaxFaults
        /\ faults' = IF Allowed(c) /\ ~unsupported THEN faults + 1 ELSE faults
        /\ failed' = failed \cup {Item}
        /\ done' = DOMAIN suite[Item]
        /\ UNCHANGED <<phase, suite, table, at, context, lastRead>>

\* The next item: after a failed before-all only after-all runs, and a failed
\* test whose on_failure is ABORT ends the loop.
NextPlaces == IF Item = "beforeAll" /\ Item \in failed THEN {Len(Agenda)}
              ELSE IF Item = "afterEach" /\ failed # {} THEN {at + 1, Len(Agenda)}
              ELSE {at + 1}

NextItem ==
    /\ phase = "run" /\ done = DOMAIN suite[Item] /\ at < Len(Agenda)
    /\ at' \in NextPlaces
    /\ context' = Entered(at')
    /\ done' = {}
    /\ UNCHANGED <<phase, suite, table, failed, faults, lastRead>>

EndRun ==
    /\ phase = "run" /\ done = DOMAIN suite[Item] /\ at = Len(Agenda)
    /\ phase' = "over"
    /\ UNCHANGED <<suite, table, runVars>>

Next ==
    \/ \E j \in DOMAIN Items : TypeCommand(j)
    \/ Save \/ StartRun \/ NextItem \/ EndRun
    \/ \E k \in 1..MaxCommands : SetVariable(k) \/ DeleteVariable(k) \/ UseConstants(k)
                                   \/ WriteTarget(k) \/ CommandFails(k)

Spec == Init /\ [][Next]_vars

-----------------------------------------------------------------------------

Values == {Nothing} \cup (ItemSet \X (1..MaxCommands))

\* Type invariant.
TypeOK ==
    /\ phase \in {"edit", "refused", "stored", "run", "over"}
    /\ at \in 0..Len(Agenda)
    /\ done \subseteq 1..MaxCommands
    /\ context \in [Scopes -> [AllNames -> Values]]
    /\ failed \subseteq ItemSet
    /\ faults \in 0..MaxFaults

\* A delete whose effect the plan does not see everywhere: of a constant that
\* another item declares, or of the same order as another command of its item.
LooseDelete ==
    \E i \in ItemSet : \E k \in DOMAIN suite[i] :
        /\ suite[i][k].code = "deleteVariable"
        /\ \/ i # suite[i][k].ref[1]
           \/ \E l \in DOMAIN suite[i] \ {k} : suite[i][l].order = suite[i][k].order

\* The value v was written at the place of definition d through a target path,
\* which the plan does not look at.
Overwritten(v, d) ==
    /\ v # Nothing
    /\ LET path == suite[v[1]][v[2]].target
       IN  path # <<>> /\ Place(path) = [scope |-> table[d][1], name |-> table[d][2]]

\* A command of an accepted suite that refers to a constant reads the value
\* the referenced command wrote, whatever test it runs for and whatever failed
\* before, unless the declaring item failed, the suite has a loose delete, or a
\* target path led to the very place of the constant: two definitions never
\* share a scope and name at a time when the plan lets either be read.
ReadsTheirDefinition ==
    lastRead.ref # Nothing =>
        \/ lastRead.got = lastRead.ref
        \/ lastRead.ref[1] \in failed
        \/ LooseDelete
        \/ Overwritten(lastRead.got, lastRead.ref)

\* No command of a test changes a constant of the global scope or of the run's
\* envelope, except one whose target path leads there through the local scope.
GlobalsFixedInTests ==
    phase = "run" /\ phase' = "run" /\ Section(Item) = "test" =>
       \A scope \in {"global", "runEnvelope"} :
          \/ context'[scope] = context[scope]
          \/ \E k \in done' \ done :
                LET path == suite[Item][k].target
                IN  path # <<>> /\ path[1] = "local" /\ Place(path).scope = scope

\* "Global context is immutable during test execution." (run_context.py):
\* whatever the target path.
GlobalIsImmutable ==
    phase = "run" /\ phase' = "run" /\ Section(Item) = "test" =>
       context'["global"] = context["global"]

\* A local constant was written by the test that is running, by its
\* before-each or by its after-each.
LocalsOfThisTest ==
    phase = "run" =>
        \A n \in AllNames : context["local"][n] # Nothing =>
            context["local"][n][1] \in {Item, "beforeEach", "afterEach"}
                \cup (IF Item = "afterEach" THEN {Agenda[at - 1]} ELSE {})

OrdersDistinct ==
    \A i \in ItemSet : \A k, l \in DOMAIN suite[i] :
        suite[i][k].order = suite[i][l].order => k = l

\* What refusing a suite with "Constant reference ... is not visible for
\* command ..." promises: when the suite is accepted and nothing failed, a
\* command finds every constant it refers to.
AcceptedReadsResolve ==
    lastRead.ref # Nothing /\ failed = {} /\ OrdersDistinct => lastRead.got = lastRead.ref

=============================================================================
