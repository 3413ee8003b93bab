------------------------------ MODULE MCCommands ------------------------------
(***************************************************************************)
(* The commands of a test suite on small instances: the constants they     *)
(* declare and read, their configurations, the verdicts of asserts, and    *)
(* the messages made from a template.                                      *)
(* A behaviour follows one part; the variables of the others are absent.   *)
(***************************************************************************)
EXTENDS Naturals, Sequences, TLC

CONSTANTS None,
          Targets,                                      \* of ConstantDefinitions
          Codes,                                        \* of CommandConfiguration
          AssertNames, AssertSources, StoredArrays, Asserted, \* of AssertCommands
          Sources, Paths, Constants,                    \* of SendMessage
          OtherSources, OtherPaths               \* of SendMessage, saved again

VARIABLES
    part,                                                     \* the part that is followed
    executed,                                                 \* of more than one part
    phase, suite, table, at, done, context, failed, faults, lastRead,  \* ConstantDefinitions
    code, written, stored, status, resaves,                   \* CommandConfiguration
    values, data, artifacts, item,                            \* AssertCommands
    editing, form, caption, shown, dropped, saved, said, saves, sent   \* SendMessage

ofConstants == <<phase, suite, table, at, done, context, failed, faults, lastRead>>
ofConfiguration == <<code, written, stored, status, resaves>>
ofAsserts == <<values, data, artifacts, item>>
ofMessages == <<editing, form, caption, shown, dropped, saved, said, saves, sent>>
vars == <<part, executed, ofConstants, ofConfiguration, ofAsserts, ofMessages>>

\* Four commands that declare, delete and read one name.
Reads == INSTANCE ConstantDefinitions WITH
    Names <- {"x"}, TargetNames <- {}, Targets <- {},
    SetScopes <- {"global", "local"}, ValueTypes <- {"json"}, Readers <- {"sendMessageQueue"},
    TypedBy <- {"beforeAll", "beforeEach", "test1", "afterEach"}, MaxCommands <- 4, MaxFaults <- 0

\* Every way to write a constant, and commands that fail.
Scopes == INSTANCE ConstantDefinitions WITH
    Names <- {"x"}, TargetNames <- {"t"},
    SetScopes <- {"global", "local", "result"}, ValueTypes <- {"json", "dataset"},
    Readers <- {"jsonArrayEquals"}, TypedBy <- {"beforeEach", "test1"},
    MaxCommands <- 3, MaxFaults <- 1

Configuration == INSTANCE CommandConfiguration WITH MaxResaves <- 2

Asserts == INSTANCE MCAssertCommands WITH
    Names <- AssertNames, Sources <- AssertSources, Commands <- Asserted, MaxCommands <- 3, LogMayFail <- TRUE

\* Every source and path, saved once; a few, saved again.
Messages == INSTANCE SendMessage WITH MaxSaves <- 1
Again == INSTANCE SendMessage WITH Sources <- OtherSources, Paths <- OtherPaths, MaxSaves <- 2

ASSUME CommandsAssumption ==
    /\ Reads!ConstantsAssumption /\ Scopes!ConstantsAssumption
    /\ Configuration!ConfigurationAssumption /\ Asserts!AssertAssumption

\* Each scope and its alias, a scope that is none, the global scope by way of
\* the local one, and the name of a constant that commands declare.
MCTargets == {<<"local", "t">>, <<"vars", "t">>, <<"global", "constants", "t">>,
              <<"runEnvelope", "t">>, <<"result", "constants", "t">>, <<"other", "t">>,
              <<"local", "global", "constants", "t">>, <<"local", "x">>}

\* The values the constants stand for.
GivenAsserts == INSTANCE MCAssertCommands WITH
    Names <- {}, Sources <- <<>>, StoredArrays <- <<>>, Commands <- {}, MaxCommands <- 0, LogMayFail <- TRUE

MCAssertNames == GivenAsserts!MCNames
MCAssertSources == GivenAsserts!MCSources
MCStoredArrays == GivenAsserts!MCStored
MCAsserted == GivenAsserts!MCCommands

\* Nested lists, lists of scalars, objects whose fields have the name of an
\* ancestor, a json array that is one object, a constant that is not what the
\* editor saw, and a dataset.
S(x) == [scalar |-> x]
O(f) == [obj |-> f]
L(s) == [list |-> s]
One(n) == [name |-> n, each |-> FALSE]
Each(n) == [name |-> n, each |-> TRUE]

Nested == O("p" :> L(<<O("f" :> S("x") @@ "n" :> L(<<O("g" :> S("y")), O("g" :> S("z"))>>)),
                       O("f" :> S("a") @@ "n" :> L(<<O("g" :> S("b"))>>)),
                       O("f" :> S("c"))>>))
Named == O("p" :> O("f" :> S("x") @@ "n" :> L(<<O("p" :> O("f" :> S("own"))), S("y"), L(<<S("z")>>)>>)))

Json(v) == [type |-> "json", preview |-> v, runtime |-> v]

MCSources ==
    "nested" :> Json(Nested) @@ "named" :> Json(Named)
    @@ "unset" :> [type |-> "json", preview |-> Named, runtime |-> S("null")]
    @@ "array" :> [type |-> "jsonArray", preview |-> L(<<Named, Nested>>), runtime |-> L(<<Named, Nested>>)]
    @@ "single" :> [type |-> "jsonArray", preview |-> Named, runtime |-> L(<<Named>>)]
    @@ "table" :> [type |-> "dataset", columns |-> {<<"f">>}, runtime |-> L(<<O("f" :> S("x")), O(<<>>)>>)]

MCPaths == {<<One("p")>>, <<Each("p"), Each("n")>>, <<One("p"), Each("n")>>, <<One("p"), One("n")>>,
            <<Each("p")>>}

MCConstants == {[name |-> "f", kind |-> "number", value |-> "5"]}

MCFewSources == [s \in {"named", "array"} |-> MCSources[s]]
MCFewPaths == {<<One("p"), Each("n")>>}

-----------------------------------------------------------------------------
NoConstants == /\ phase = None /\ suite = None /\ table = None /\ at = None /\ done = None
               /\ context = None /\ failed = None /\ faults = None /\ lastRead = None
NoConfiguration == code = None /\ written = None /\ stored = None /\ status = None /\ resaves = None
NoAsserts == values = None /\ data = None /\ artifacts = None /\ item = None
NoMessages == /\ editing = None /\ form = None /\ caption = None /\ shown = None /\ dropped = None
              /\ saved = None /\ said = None /\ saves = None /\ sent = None

Init ==
    \/ /\ \/ part = "reads" /\ Reads!Init
          \/ part = "scopes" /\ Scopes!Init
       /\ executed = None /\ NoConfiguration /\ NoAsserts /\ NoMessages
    \/ part = "configuration" /\ Configuration!Init /\ NoConstants /\ NoAsserts /\ NoMessages
    \/ part = "asserts" /\ Asserts!Init /\ NoConstants /\ NoConfiguration /\ NoMessages
    \/ /\ \/ part = "messages" /\ Messages!Init
          \/ part = "again" /\ Again!Init
       /\ executed = None /\ NoConstants /\ NoConfiguration /\ NoAsserts

\* Step A of part p.
OfConstants(p, A) ==
    part = p /\ A /\ UNCHANGED <<part, executed, ofConfiguration, ofAsserts, ofMessages>>
OfConfiguration(A) ==
    part = "configuration" /\ A /\ UNCHANGED <<part, ofConstants, ofAsserts, ofMessages>>
OfAsserts(A) ==
    part = "asserts" /\ A /\ UNCHANGED <<part, ofConstants, ofConfiguration, ofMessages>>
OfMessages(p, A) ==
    part = p /\ A /\ UNCHANGED <<part, executed, ofConstants, ofConfiguration, ofAsserts>>

Next ==
    \/ OfConstants("reads", Reads!Next)
    \/ OfConstants("scopes", Scopes!Next)
    \/ OfConfiguration(Configuration!Next)
    \/ OfAsserts(Asserts!Next)
    \/ OfMessages("messages", Messages!Next)
    \/ OfMessages("again", Again!Next)

Spec == Init /\ [][Next]_vars

-----------------------------------------------------------------------------
\* A command of an accepted suite that refers to a constant reads the value the
\* referenced command wrote (suite_constant_planner.py, RunContext), unless that
\* item failed, a delete is out of the plan's sight or a target path was aimed at
\* the constant; and a local constant was written by the running test or by a
\* hook around it.
ConstantsAreAsPlanned ==
    /\ part = "reads" => Reads!TypeOK /\ Reads!ReadsTheirDefinition
    /\ part = "scopes" => Scopes!TypeOK /\ Scopes!ReadsTheirDefinition /\ Scopes!LocalsOfThisTest

\* A payload that the command's own class accepts runs with the values that
\* were written, but for zeros and blanks, and what saving accepts, a run and
\* the next save can convert (configuration_command_dto.py).  An assert on a list
\* passes exactly when every actual row has an expected row of its own that prints
\* alike under every compared key, with none left over for equality; one on an
\* object when the compared keys agree, one on emptiness when the value is empty;
\* and no command of an item runs after an assert of it failed.  A run sends one
\* message for every record of a json source that the forEach path leads to, and
\* the preview the editor shows is the first message of a source that is no
\* dataset and has not changed.
CommandsDoWhatIsWritten ==
    /\ part = "configuration" =>
           Configuration!TypeOK /\ Configuration!RunsAsWritten /\ Configuration!StoredConverts
    /\ part = "asserts" =>
           Asserts!TypeOK /\ Asserts!VerdictIsRight /\ Asserts!FailureStopsTheItem
    /\ part = "messages" => /\ Messages!TypeOK
                            /\ Messages!OneMessagePerRecord /\ Messages!PreviewIsTheFirstMessage
    /\ part = "again" => /\ Again!TypeOK
                         /\ Again!OneMessagePerRecord /\ Again!PreviewIsTheFirstMessage

\* Steps that must leave something alone: no command of a test changes a
\* constant of the global scope or the envelope but through a target that leads
\* there from the local scope, sending a stored configuration back does not
\* change what it means, and a command that is opened and saved without a change
\* stays as it was.
StepsKeepMeaning ==
    [][/\ part = "scopes" => Scopes!GlobalsFixedInTests
       /\ part = "configuration" => Configuration!ResaveKeepsMeaning
       /\ part = "again" => Again!UntouchedIsKept]_vars

=============================================================================
