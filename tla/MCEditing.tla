------------------------------- MODULE MCEditing -------------------------------
(***************************************************************************)
(* Editing a test suite on small instances: the handlers that store suites *)
(* and tests, the draft the user interface keeps of a suite, and the form  *)
(* of one command.  A behaviour follows one part; the variables of the     *)
(* others are absent.                                                      *)
(***************************************************************************)
EXTENDS Naturals, Sequences, TLC

CONSTANTS None,
          StoreItems, Suites, Elsewhere,      \* of TestSuiteEditing
          DraftSuites, NewCommands,           \* of SuiteDraft
          InHooks, InTests, Offers            \* of CommandForms

VARIABLES
    part,                                             \* the part that is followed
    last, edits, stored,                              \* of more than one part
    exists, items, elsewhere, defs, run,              \* TestSuiteEditing
    special, draft, nextId, nextTag, said, kept,      \* SuiteDraft
    own, form, offers, open, changes, outcome         \* CommandForms

ofStore == <<exists, items, elsewhere, defs, run>>
ofDraft == <<special, draft, nextId, nextTag, said, kept>>
ofForms == <<own, form, offers, open, changes, outcome>>
vars == <<part, last, edits, stored, ofStore, ofDraft, ofForms>>

Store == INSTANCE TestSuiteEditing WITH Items <- StoreItems, MaxEdits <- 3

Draft == INSTANCE MCSuiteDraft WITH
    Suites <- DraftSuites, Elsewhere <- {}, Special <- {"test1"}, MaxEdits <- 2

HookForms == INSTANCE MCCommandForms WITH
    Scope <- "global", Commands <- InHooks, MaxChanges <- 1
TestForms == INSTANCE MCCommandForms WITH
    Scope <- "local", Commands <- InTests, MaxChanges <- 2

ASSUME EditingAssumptions ==
    /\ Store!EditingAssumption /\ Draft!DraftAssumption
    /\ HookForms!FormsAssumption /\ TestForms!FormsAssumption

\* The values the constants stand for.
GivenStore == INSTANCE TestSuiteEditing WITH Items <- {}, Suites <- {}, Elsewhere <- {}, MaxEdits <- 0
GivenDraft == INSTANCE MCSuiteDraft WITH
    Suites <- {}, NewCommands <- {}, Elsewhere <- {}, Special <- {}, MaxEdits <- 0
GivenHooks == INSTANCE MCCommandForms WITH
    Scope <- "global", Commands <- {}, Offers <- {}, MaxChanges <- 0
GivenTests == INSTANCE MCCommandForms WITH
    Scope <- "local", Commands <- {}, Offers <- {}, MaxChanges <- 0

MCDraftSuites == GivenDraft!MCSuites
MCNewCommands == GivenDraft!MCNewCommands
MCHookCommands == GivenHooks!HookCommands
MCTestCommands == GivenTests!TestCommands
MCOffers == GivenHooks!AllOffers

\* Tests that declare a constant, read one of their own or of a hook, or share
\* a source with the hook, and a test made from a template.
Custom(order, declares, reads) == [order |-> order, sleep |-> 0, declares |-> declares, reads |-> reads]
Declares(order, d) == Custom(order, d, GivenStore!NoDefinition)
Reads(order, d) == Custom(order, GivenStore!NoDefinition, d)
u(n) == <<"user", n>>

Test(sources, commands) ==
    [kind |-> "test", phase |-> "none", sources |-> sources, template |-> "custom",
     config |-> GivenStore!NoConfig, commands |-> commands]

OwnTest == Test({}, <<Declares(1, u(1)), Reads(2, u(1))>>)
ReaderTest == Test({}, <<Reads(1, u(2))>>)
SourceTest == Test({"s"}, <<>>)
ForeignTest == Test({}, <<Declares(1, u(9))>>)
WriterTest == Test({}, <<Declares(1, u(2))>>)
ZeroTest == Test({}, <<Declares(0, u(3)), Reads(2, u(3))>>)
Hook == [Test({"s"}, <<Declares(1, u(2))>>) EXCEPT !.kind = "hook", !.phase = "before-each"]

\* A template test, also as a whole-suite edit may send it: with its own commands.
MockAssert ==
    [Test({}, <<>>) EXCEPT
        !.template = "mock_assert",
        !.config = GivenStore!Config(FALSE, "none", 5, <<GivenStore!AssertSpec("queue", "exists", FALSE, TRUE)>>)]
MockAssertEdited == [MockAssert EXCEPT !.commands = <<Declares(1, u(1))>>]

Suite(hooks, tests) == [hooks |-> hooks, tests |-> tests]

MCItems == {OwnTest, ReaderTest, Hook, ForeignTest, WriterTest, MockAssert}
MCSuites == {Suite(<<>>, <<>>), Suite(<<Hook, Hook>>, <<ZeroTest, ReaderTest>>),
             Suite(<<>>, <<Hook, MockAssertEdited>>), Suite(<<Hook>>, <<SourceTest>>)}
MCElsewhere == {u(9)}

-----------------------------------------------------------------------------
NoStore == exists = None /\ items = None /\ elsewhere = None /\ defs = None /\ run = None
NoDraft == /\ special = None /\ draft = None /\ nextId = None /\ nextTag = None
           /\ said = None /\ kept = None
NoForms == /\ own = None /\ form = None /\ offers = None /\ open = None
           /\ changes = None /\ outcome = None

Init ==
    \/ part = "store" /\ Store!Init /\ stored = None /\ NoDraft /\ NoForms
    \/ part = "draft" /\ Draft!Init /\ NoStore /\ NoForms
    \/ /\ \/ part = "hook form" /\ HookForms!Init
          \/ part = "test form" /\ TestForms!Init
       /\ last = None /\ edits = None /\ NoStore /\ NoDraft

\* Step A of part p.
OfStore(A) == part = "store" /\ A /\ UNCHANGED <<part, stored, ofDraft, ofForms>>
OfDraft(A) == part = "draft" /\ A /\ UNCHANGED <<part, ofStore, ofForms>>
OfForms(p, A) == part = p /\ A /\ UNCHANGED <<part, last, edits, ofStore, ofDraft>>

Next ==
    \/ OfStore(Store!Next)
    \/ OfDraft(Draft!Next)
    \/ OfForms("hook form", HookForms!Next)
    \/ OfForms("test form", TestForms!Next)

Spec == Init /\ [][Next]_vars

-----------------------------------------------------------------------------

\* Saving an unchanged draft stores every command as it was (draft_mapper.py), a
\* saved reference is to a constant that is declared before the command, the
\* draft is the stored suite apart from the additions and deletions that were
\* refused and left in it, and when none is left, the references on offer where
\* a command stands, before-each apart, are those that are found when it is
\* saved (_collect_visible_constants).
DraftIsFaithful ==
    part = "draft" => /\ Draft!TypeOK
                      /\ Draft!SaveChangesNothing /\ Draft!ReferencesComeAfter
                      /\ Draft!DraftFollowsStore /\ Draft!OffersWhatIsFound

\* A command that a form built, opened and saved again, is built as it was,
\* as long as what it refers to is on offer and it has no text where the form
\* shows JSON; and the keys an assert compares are keys of the value it expects.
FormsKeepTheirCommand ==
    /\ part = "hook form" => HookForms!TypeOK /\ HookForms!SavedAgainUnchanged
    /\ part = "test form" => /\ TestForms!TypeOK /\ TestForms!SavedAgainUnchanged
                             /\ TestForms!KeysBelongToExpected

\* What one edit must do and leave alone: a test that is added comes after
\* every test of the suite ("Append a single test to an existing suite."); after an accepted save every
\* command but the edited one and runSuite refers to a constant of the same
\* scope and name; and what a form builds, an assert on arrays apart, is a
\* configuration the classes of the server accept.
EditsDoWhatTheySay ==
    [][/\ part = "store" => Store!AddedIsLast
       /\ part = "draft" => Draft!ReferencesKeepTheirPath
       /\ part = "hook form" => HookForms!BuiltIsAccepted
       /\ part = "test form" => TestForms!BuiltIsAccepted]_vars

=============================================================================
