----------------------------- MODULE ChangedRanges -----------------------------
(* Which ranges of the text have different syntax in two trees                *)
(* (get_changed_ranges.c).                                                    *)
EXTENDS Subtree, RangeArrays

-----------------------------------------------------------------------------
(* Walking a tree by its visible nodes.  An iterator is the path from the     *)
(* root (each entry with its position and indices, from 1 and from 0), the    *)
(* depth in visible nodes, and whether it stands in the padding before its    *)
(* node rather than on it.                                                    *)

RootEntry(t) == [subtree |-> t, position |-> length_zero, child_index |-> 1,
                 structural_child_index |-> 0]
iterator_new(t) == [stack |-> << RootEntry(t) >>, visible_depth |-> 1, in_padding |-> FALSE]
iterator_done(it) == it.stack = << >>

iterator_start_position(it) ==
    LET entry == Last(it.stack)
    IN  IF it.in_padding THEN entry.position ELSE length_add(entry.position, entry.subtree.padding)
iterator_end_position(it) ==
    LET entry == Last(it.stack)
        start == length_add(entry.position, entry.subtree.padding)
    IN  IF it.in_padding THEN start ELSE length_add(start, entry.subtree.size)

EntryAlias(stack, i) ==
    IF i = 1 THEN 0
    ELSE ts_language_alias_at(stack[i - 1].subtree.production_id, stack[i].structural_child_index)
EntryVisible(stack, i) == stack[i].subtree.visible \/ EntryAlias(stack, i) # 0
iterator_tree_is_visible(it) == EntryVisible(it.stack, Len(it.stack))

\* The innermost visible node around the iterator, if there is one.
iterator_get_visible_state(it) ==
    LET around == 1 .. Len(it.stack) - (IF it.in_padding THEN 1 ELSE 0)
        visible == {i \in around : EntryVisible(it.stack, i)}
        i == Max(visible)
    IN  IF visible = {} THEN [tree |-> NULL_SUBTREE, alias |-> 0, start |-> 0]
        ELSE [tree |-> it.stack[i].subtree, alias |-> EntryAlias(it.stack, i),
              start |-> it.stack[i].position.bytes]

iterator_ascend(it) ==
    IF iterator_done(it) THEN it
    ELSE [stack |-> Front(it.stack),
          visible_depth |-> it.visible_depth
                - (IF iterator_tree_is_visible(it) /\ ~it.in_padding THEN 1 ELSE 0),
          in_padding |-> it.in_padding /\ Last(it.stack).child_index = 1]

\* The entry of child i below the last entry of a path.
ChildEntry(entry, i) ==
    LET kids == entry.subtree.children IN
    [subtree |-> kids[i], child_index |-> i, structural_child_index |-> StructuralIndex(kids, i),
     position |-> FoldLeft(LAMBDA acc, k : length_add(acc, ts_subtree_total_size(k)),
                           entry.position, SubSeq(kids, 1, i - 1))]

\* Goes to the first visible node that ends after the goal, through hidden ones.
RECURSIVE iterator_descend(_, _)
iterator_descend(it, goal) ==
    LET entry == Last(it.stack)
        End(i) == length_add(ChildEntry(entry, i).position,
                             ts_subtree_total_size(entry.subtree.children[i])).bytes
        after == {i \in DOMAIN entry.subtree.children : End(i) > goal}
        child == ChildEntry(entry, Min(after))
        below == [it EXCEPT !.stack = Append(@, child)]
        padded == length_add(child.position, child.subtree.padding).bytes > goal
    IN  IF it.in_padding \/ after = {} THEN [it |-> it, did |-> FALSE]
        ELSE IF ~iterator_tree_is_visible(below) THEN iterator_descend(below, goal)
        ELSE [did |-> TRUE,
              it |-> IF padded THEN [below EXCEPT !.in_padding = TRUE]
                     ELSE [below EXCEPT !.visible_depth = @ + 1]]

\* Goes on to the next node: from the padding to its node, else to the next
\* sibling of the node or of the nearest ancestor that has one.
RECURSIVE iterator_advance(_)
iterator_advance(it) ==
    LET entry == Last(it.stack)
        entered == [it EXCEPT !.in_padding = FALSE]
        left == IF iterator_tree_is_visible(it) THEN it.visible_depth - 1 ELSE it.visible_depth
        up == [it EXCEPT !.stack = Front(@), !.visible_depth = left]
        parent == Last(up.stack)
        next == ChildEntry(parent, entry.child_index + 1)
        moved == [up EXCEPT !.stack = Append(@, next)]
    IN  IF it.in_padding
        THEN IF iterator_tree_is_visible(entered) THEN [entered EXCEPT !.visible_depth = @ + 1]
             ELSE iterator_descend(entered, 0).it
        ELSE IF iterator_done(up) THEN up
        ELSE IF Len(parent.subtree.children) <= entry.child_index THEN iterator_advance(up)
        ELSE IF ~iterator_tree_is_visible(moved) THEN iterator_descend(moved, 0).it
        ELSE IF next.subtree.padding.bytes > 0 THEN [moved EXCEPT !.in_padding = TRUE]
        ELSE [moved EXCEPT !.visible_depth = @ + 1]

\* Mutant of iterator_compare: nodes of one symbol and place always match.
iterator_compare_shallow(old_iter, new_iter) ==
    LET old == iterator_get_visible_state(old_iter)
        new == iterator_get_visible_state(new_iter)
    IN  IF old.tree.symbol = new.tree.symbol /\ old.start = new.start THEN "Matches"
        ELSE "Differs"

\* Nodes match only if nothing in them can have changed.
iterator_compare(old_iter, new_iter) ==
    LET old == iterator_get_visible_state(old_iter)
        new == iterator_get_visible_state(new_iter)
        Known(t) == t.parse_state # TS_TREE_STATE_NONE
    IN  IF IsNull(old.tree) /\ IsNull(new.tree) THEN "Matches"
        ELSE IF IsNull(old.tree) \/ IsNull(new.tree) THEN "Differs"
        ELSE IF old.alias # new.alias \/ old.tree.symbol # new.tree.symbol THEN "Differs"
        ELSE IF /\ old.start = new.start /\ ~old.tree.has_changes
                /\ ~ts_subtree_is_error(old.tree)
                /\ old.tree.size.bytes = new.tree.size.bytes
                /\ Known(old.tree) /\ Known(new.tree)
                /\ (old.tree.parse_state = ERROR_STATE) = (new.tree.parse_state = ERROR_STATE)
        THEN "Matches" ELSE "MayDiffer"

-----------------------------------------------------------------------------
(* Comparing two trees.                                                       *)

RECURSIVE CatchUp(_, _), AscendTo(_, _)
CatchUp(it, position) ==
    IF iterator_done(it) \/ iterator_end_position(it).bytes > position.bytes THEN it
    ELSE CatchUp(iterator_advance(it), position)
AscendTo(it, depth) ==
    IF it.visible_depth <= depth THEN it ELSE AscendTo(iterator_ascend(it), depth)

\* Both iterators go past the place that was compared up to.
LevelledWith(old, new, next, ranges) ==
    [old |-> old, new |-> AscendTo(new, old.visible_depth), position |-> next, ranges |-> ranges]
Levelled(old, new, next, ranges) ==
    LevelledWith(AscendTo(old, new.visible_depth), new, next, ranges)
PastCompared(old, new, w, next, changed) ==
    Levelled(CatchUp(old, next), CatchUp(new, next), next,
             IF changed THEN ts_range_array_add(w.ranges, w.position, next) ELSE w.ranges)

\* Where nodes may differ inside, both iterators go down.
AfterDescent(w, old, new) ==
    PastCompared(old.it, new.it, w,
        CASE old.did /\ new.did -> w.position
          [] old.did /\ ~new.did -> iterator_end_position(old.it)
          [] ~old.did /\ new.did -> iterator_end_position(new.it)
          [] OTHER -> length_min(iterator_end_position(old.it), iterator_end_position(new.it)),
        old.did # new.did)

\* One round, by how the two nodes compare.
RoundFor(w, order) ==
    IF order = "MayDiffer"
    THEN AfterDescent(w, iterator_descend(w.old, w.position.bytes),
                         iterator_descend(w.new, w.position.bytes))
    ELSE PastCompared(w.old, w.new, w,
            IF order = "Matches" THEN iterator_end_position(w.old)
            ELSE length_min(iterator_end_position(w.old), iterator_end_position(w.new)),
            order = "Differs")
CompareRound(w, included) ==
    LET compared == iterator_compare(w.old, w.new) IN
    RoundFor(w, IF /\ compared = "Matches"
                   /\ ts_range_array_intersects(included, 1, w.position.bytes,
                                                iterator_end_position(w.old).bytes)
                THEN "MayDiffer" ELSE compared)

RECURSIVE CompareTrees(_, _)
CompareTrees(w, included) ==
    IF iterator_done(w.old) \/ iterator_done(w.new) THEN w.ranges
    ELSE CompareTrees(CompareRound(w, included), included)

\* The bytes between two places, whichever is first.
AddBetween(ranges, a, b) ==
    IF a.bytes < b.bytes THEN ts_range_array_add(ranges, a, b)
    ELSE IF b.bytes < a.bytes THEN ts_range_array_add(ranges, b, a) ELSE ranges

ts_subtree_get_changed_ranges(old_tree, new_tree, included) ==
    LET old == iterator_new(old_tree)
        new == iterator_new(new_tree)
        starts == << iterator_start_position(old), iterator_start_position(new) >>
        position == IF starts[1].bytes < starts[2].bytes THEN starts[2] ELSE starts[1]
        compared == CompareTrees([old |-> old, new |-> new, position |-> position,
                                  ranges |-> AddBetween(<< >>, starts[1], starts[2])], included)
    IN  AddBetween(compared, ts_subtree_total_size(old_tree), ts_subtree_total_size(new_tree))
=============================================================================
