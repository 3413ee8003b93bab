------------------------ MODULE MCTestSuiteScheduler ------------------------
(***************************************************************************)
(* TestSuiteScheduler on small instances.  Two models in one, told apart   *)
(* by part: "edits" has one schedule, all settings and requests to the     *)
(* API; "due" has two schedules that compete for the loop, no requests     *)
(* after their creation, and fairness.                                     *)
(***************************************************************************)
EXTENDS TestSuiteScheduler

CONSTANT Second   \* the schedule that only the part "due" creates

VARIABLE part

Edits == INSTANCE TestSuiteScheduler WITH MaxRuns <- 2

Loop == INSTANCE TestSuiteScheduler WITH
            Frequencies <- {1}, StartTimes <- {0}, EndTimes <- {0},
            MaxRequests <- 0

allVars == <<part, vars>>

PartInit == part \in {"edits", "due"} /\ Init

EditsPart == part = "edits" /\ life'[Second] = "new" /\ UNCHANGED part
DuePart == part = "due" /\ UNCHANGED part

PartNext == \/ Edits!Next /\ EditsPart
            \/ DuePart /\ Loop!Next

PartSpec == /\ PartInit /\ [][PartNext]_allVars
            /\ WF_allVars(DuePart /\ Loop!SchedulerStep)
            /\ WF_allVars(DuePart /\ (Loop!TriggerStarts("api") \/ Loop!TriggerCommits("api")))
            /\ WF_allVars(DuePart /\ Loop!RunStep)

(* A due schedule is served (DueIsServed), in the part that is fair:       *)
(* unless the API takes it away, its next run is moved on, whatever else   *)
(* is due and although one failing schedule ends the iteration for all     *)
(* (process_due_schedules).                                                *)
LoopServesDue == part = "due" => DueIsServed
=============================================================================
