---------------------------- MODULE MCSuiteDraft ----------------------------
(***************************************************************************)
(* Small instances of SuiteDraft and OfferedReferences: suites in which    *)
(* one name is declared in two scopes, declared again after a deletion,    *)
(* used across items, and bound to a parameter of a data set.              *)
(***************************************************************************)
EXTENDS OfferedReferences

Cmd(code, tag, order) == [Command(code) EXCEPT !.tag = tag, !.order = order]
Declares(code, tag, order, id, scope, name) ==
    [Cmd(code, tag, order) EXCEPT !.def = id, !.scope = scope, !.name = name]
Uses(code, tag, order, id) == [Cmd(code, tag, order) EXCEPT !.ref = id]
Suite(ba, be, t1, t2, ae, aa) ==
    [i \in ItemSet |-> CASE i = "beforeAll" -> ba [] i = "beforeEach" -> be [] i = "test1" -> t1
                         [] i = "test2" -> t2 [] i = "afterEach" -> ae [] OTHER -> aa]

\* x is global and local; after-all uses the global one.
TwoScopes ==
    Suite(<<Declares("setVariable", 1, 1, Uuid(1), "global", "x")>>, <<>>,
          <<Declares("setVariable", 2, 1, Uuid(2), "local", "x"), Uses("sendMessageQueue", 3, 2, Uuid(1)),
            [Uses("jsonEquals", 4, 3, Uuid(2)) EXCEPT !.exp = Uuid(1)]>>,
          <<>>, <<>>, <<Uses("saveTable", 5, 1, Uuid(1))>>)

\* x is deleted and declared again.
Redeclared ==
    Suite(<<>>, <<Declares("setVariable", 1, 1, Uuid(1), "local", "x")>>,
          <<Uses("writeApi", 2, 1, Uuid(1)), Uses("deleteVariable", 3, 2, Uuid(1)),
            Declares("setVariable", 4, 3, Uuid(2), "local", "x"), Uses("exportDataset", 5, 5, Uuid(2))>>,
          <<[Declares("setVariable", 6, 1, Uuid(3), "local", "y") EXCEPT !.ref = Uuid(1)]>>, <<Uses("runSuite", 7, 1, Uuid(1))>>, <<>>)

\* Results of API calls, one of them used by the next test command.
Results ==
    Suite(<<Declares("readApi", 1, 1, Uuid(1), "result", "r")>>, <<>>,
          <<Declares("writeApi", 2, 1, Uuid(2), "result", "s"), Uses("jsonContains", 3, 2, Uuid(2))>>,
          <<[Declares("writeApi", 4, 1, Uuid(3), "result", "s") EXCEPT !.ref = Uuid(1)]>>, <<>>, <<>>)

\* x is in two scopes; the hooks after a test delete both.
Shadowed ==
    Suite(<<Declares("setVariable", 1, 1, Uuid(1), "global", "x")>>,
          <<Declares("setVariable", 2, 1, Uuid(2), "local", "x")>>,
          <<Uses("deleteVariable", 3, 1, Uuid(2)),
            Declares("setVariable", 4, 2, Uuid(3), "local", "x")>>, <<>>,
          <<Uses("deleteVariable", 5, 1, Uuid(2))>>,
          <<Uses("deleteVariable", 6, 1, Uuid(1))>>)

\* The before-each hook keeps two results.
KeptResults ==
    Suite(<<>>, <<Declares("readApi", 1, 1, Uuid(1), "result", "r"),
                  Declares("readApi", 2, 2, Uuid(2), "result", "s")>>,
          <<Declares("writeApi", 3, 1, Uuid(3), "result", "t")>>, <<>>, <<>>, <<>>)

MCSuites == {TwoScopes, Redeclared, Results, Shadowed, KeptResults}

MCNewCommands ==
    {[Command("setVariable") EXCEPT !.scope = "local", !.name = "x"],
     [Command("setVariable") EXCEPT !.scope = "global", !.name = "x"],
     [Command("setVariable") EXCEPT !.scope = "local", !.name = "y", !.path = <<"local", "x">>],
     [Command("deleteVariable") EXCEPT !.path = <<"local", "x">>],
     [Command("deleteVariable") EXCEPT !.path = <<"result", "r">>],
     [Command("sendMessageQueue") EXCEPT !.path = <<"global", "x">>],
     [Command("sendMessageQueue") EXCEPT !.path = <<"local", "x">>],
     [Command("runSuite") EXCEPT !.path = <<"", "x">>],
     [Command("writeApi") EXCEPT !.scope = "result", !.name = "s", !.path = <<"result", "r">>],
     [Command("writeApi") EXCEPT !.scope = "result", !.name = "s"]}

=============================================================================
