------------------------- MODULE OfferedReferences -------------------------
(***************************************************************************)
(* What a form offers for a reference (ui/test_suites/components/          *)
(* suite_editor_component.py): the editor walks the commands of the draft  *)
(* itself, while the mapper (SuiteDraft) looks a chosen path up when the   *)
(* suite is saved.  The two walks are compared at every command of every   *)
(* draft that editing reaches.  The types of the constants, by which the   *)
(* offer is narrowed further, are left out.                                *)
(***************************************************************************)
EXTENDS SuiteDraft

\* Mutant: a deletion takes the first constant of that name.
Effect_AnyScope(active, c) ==
    IF c.code = "deleteVariable"
    THEN SelectSeq(active, LAMBDA p : p[2] # c.path[2])
    ELSE IF c.name = "" THEN active ELSE Append(active, <<c.scope, c.name>>)

\* _apply_visible_constant_effect: a deletion takes the last constant of its
\* path, every other command appends what it declares.
Effect(active, c) ==
    IF c.code = "deleteVariable"
    THEN LET k == SelectLastInSeq(active, LAMBDA p : p = c.path)
         IN  IF k = 0 THEN active ELSE RemoveAt(active, k)
    ELSE IF c.name = "" THEN active ELSE Append(active, <<c.scope, c.name>>)

\* _collect_visible_constants_from_operations
Collected(active, commands) == FoldLeft(Effect, active, commands)

\* The commands that are walked before command k of an item: all of
\* before-all, all of before-each - also when the item is before-each - and
\* then the item's own.
Walk(d, i, k) ==
    LET all == Collected(<<>>, IF i = "beforeAll" THEN <<>> ELSE d["beforeAll"])
        each == IF i \in {"beforeAll", "afterAll"} THEN all
                ELSE Collected(all, d["beforeEach"])
    IN  Collected(each, SubSeq(d[i], 1, k - 1))

\* _resolve_available_source_constants: the readable paths, each once.
Offered(d, i, k) == {p \in Range(Walk(d, i, k)) : p[1] \in Readable(Section(i))}

\* The definitions the mapper knows when it comes to command k of the payload.
Known(d, i, k) ==
    LET payload == ToPayload(d, nextId)
    IN  SerializedItem(SubSeq(d[i], 1, k - 1), Section(i),
                       [defs |-> payload.defs[StartsFrom(i)], next |-> payload.next]).defs

\* The paths that can be chosen with effect at command k.  A command that is
\* added at the end gives the commands new orders.
Findable(d, i, k) ==
    LET adds == k \notin DOMAIN d[i]
        defs == Known(IF adds THEN [d EXCEPT ![i] = Resequenced(@)] ELSE d, i, k)
        order == IF adds THEN k ELSE d[i][k].order
    IN  {<<defs[v].scope, defs[v].name>> : v \in VisibleAt(defs, Section(i), order)}

Places(d, i) == 1..(Len(d[i]) + 1)

-----------------------------------------------------------------------------

\* Outside before-each, and as long as no refused edit is left in the draft,
\* a form offers exactly the constants the mapper will find: none that the
\* save would drop, and none is missing.
\* (_resolve_available_source_constants against _find_definition_by_path)
OffersWhatIsFound ==
    kept = NothingKept =>
    \A i \in ItemSet \ {"beforeEach"} : \A k \in Places(draft, i) :
        Offered(draft, i, k) = Findable(draft, i, k)

\* "Visible and compatible variables at this point.": what is offered at a
\* command is visible there.
OfferedIsVisible ==
    \A i \in ItemSet : \A k \in Places(draft, i) : Offered(draft, i, k) \subseteq Findable(draft, i, k)

=============================================================================
