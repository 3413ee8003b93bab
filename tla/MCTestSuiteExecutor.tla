------------------------ MODULE MCTestSuiteExecutor ------------------------
(***************************************************************************)
(* TestSuiteExecutor on small suites.  Two models in one, told apart by    *)
(* part: "order" has every choice of hooks, on_failure settings, requested *)
(* test and failures, and items without commands; "commands" has items     *)
(* with a command and one choice of hooks.                                 *)
(***************************************************************************)
EXTENDS TestSuiteExecutor

VARIABLE part

AllHookSets == SUBSET Hooks

PerTestHooks == {{"before_each", "after_each"}}

Order == INSTANCE TestSuiteExecutor WITH MaxCommands <- 0

Commands == INSTANCE TestSuiteExecutor WITH HookSets <- PerTestHooks, Exceptions <- {"text"}

allVars == <<part, vars>>

PartInit == \/ part = "order" /\ Order!Init
            \/ part = "commands" /\ Commands!Init

InOrderPart == part = "order" /\ UNCHANGED part
InCommandsPart == part = "commands" /\ UNCHANGED part

PartNext == \/ InOrderPart /\ Order!Next
            \/ InCommandsPart /\ Commands!Next

PartSpec == /\ PartInit /\ [][PartNext]_allVars
            /\ WF_allVars(InOrderPart /\ Order!RunStep)
            /\ WF_allVars(InCommandsPart /\ Commands!RunStep)
=============================================================================
