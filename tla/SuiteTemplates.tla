--------------------------- MODULE SuiteTemplates ---------------------------
(***************************************************************************)
(* The template engine (app/templating): from a template_config to the     *)
(* commands of a test.  A command is what the plan of constants and the    *)
(* run see of it: its order, how long it sleeps, the definition it         *)
(* declares and the one it reads.  A definition id is a pair, for the      *)
(* templates the constant ids they write ("tpl_sv_payload" is <<"sv", 0>>, *)
(* "tpl_sv_actual_0" is <<"sv", 1>>).                                      *)
(***************************************************************************)
EXTENDS Integers, Sequences, SequencesExt

NoDefinition == <<"none", 0>>

\* A template_config: a queue and a payload may be missing, wait is "none" or
\* a number of milliseconds, an assert has a target, an operator and perhaps
\* an expected value; complete says that its queue, or its connection and its
\* query, are given.
Config(queue, payload, wait, asserts) ==
    [queue |-> queue, payload |-> payload, wait |-> wait, asserts |-> asserts]

\* No template_config.
NoConfig == Config(FALSE, "absent", 0, <<>>)

AssertSpec(target, operator, expected, complete) ==
    [target |-> target, operator |-> operator, expected |-> expected, complete |-> complete]

Step(sleep, declares, reads) == [sleep |-> sleep, declares |-> declares, reads |-> reads]

\* _wrap: the order counts from zero.
Wrapped(steps) ==
    [i \in DOMAIN steps |-> [order |-> i - 1, sleep |-> steps[i].sleep,
                             declares |-> steps[i].declares, reads |-> steps[i].reads]]

\* _coerce_wait_ms; minus one stands for no wait given.
WaitOr(wait, default) == IF wait = -1 THEN default ELSE wait
WaitValid(wait) == wait >= -1

\* "expected" must be there for equals; the assert class refuses a null.
AssertSpecValid(a, targets) ==
    /\ a.target \in targets
    /\ a.target # "none" =>
          /\ a.operator \in {"equals", "exists"}
          /\ a.complete
          /\ a.operator = "equals" => a.expected

SleepStep(wait) == IF wait > 0 THEN <<Step(wait, NoDefinition, NoDefinition)>> ELSE <<>>

\* The reading command and the assert of each assert that has a target.
AssertSteps(template, asserts) ==
    FlattenSeq([i \in DOMAIN asserts |->
        IF asserts[i].target = "none" THEN <<>>
        ELSE <<Step(0, <<template, i>>, NoDefinition), Step(0, NoDefinition, <<template, i>>)>>])

\* SendVerifyTemplate.generate_commands
SendVerifyValid(c) ==
    /\ c.queue /\ c.payload = "json_inline" /\ WaitValid(c.wait)
    /\ \A i \in DOMAIN c.asserts : AssertSpecValid(c.asserts[i], {"queue", "database", "none"})

SendVerifyCommands(c) ==
    Wrapped(<<Step(0, <<"sv", 0>>, NoDefinition), Step(0, NoDefinition, <<"sv", 0>>)>>
            \o SleepStep(WaitOr(c.wait, 500)) \o AssertSteps("sv", c.asserts))

\* MockAssertTemplate.generate_commands
MockAssertValid(c) ==
    /\ WaitValid(c.wait) /\ c.asserts # <<>>
    /\ \A i \in DOMAIN c.asserts : AssertSpecValid(c.asserts[i], {"queue", "database"})

MockAssertCommands(c) ==
    Wrapped(SleepStep(WaitOr(c.wait, 1000)) \o AssertSteps("ma", c.asserts))

\* template_registry
IsSupported(template) == template \in {"send_verify", "mock_assert"}
Generates(template, c) == IF template = "send_verify" THEN SendVerifyValid(c) ELSE MockAssertValid(c)
GenerateCommands(template, c) ==
    IF template = "send_verify" THEN SendVerifyCommands(c) ELSE MockAssertCommands(c)

=============================================================================
