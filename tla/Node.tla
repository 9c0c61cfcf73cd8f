--------------------------------- MODULE Node ---------------------------------
(* Looking around in a tree from a node (node.c).  A TSNode does not know its *)
(* parent: everything is found again from the root by byte positions.         *)
(*                                                                            *)
(* A node is a record: `id`, the place of its subtree (the indices that lead  *)
(* to it from the root; the code has its address), the subtree, the position  *)
(* where it starts and its alias.                                             *)
EXTENDS Subtree

ts_node_new(id, t, position, alias) ==
    [id |-> id, subtree |-> t, position |-> position, alias |-> alias]
ts_node__null == [id |-> <<-1>>]
ts_node_is_null(n) == n = ts_node__null

ts_tree_root_node(t) == ts_node_new(<< >>, t, t.padding, 0)

ts_node_start_byte(n) == n.position.bytes
ts_node_start_point(n) == Extent(n.position)
ts_node_end(n) == length_add(n.position, n.subtree.size)
ts_node_end_byte(n) == ts_node_end(n).bytes
ts_node_symbol(n) ==
    ts_language_public_symbol(IF n.alias # 0 THEN n.alias ELSE n.subtree.symbol)
ts_node_is_named(n) ==
    IF n.alias # 0 THEN ts_language_symbol_metadata(n.alias).named ELSE n.subtree.named

\* The children of a node; the position of the iterator after child i is the end
\* of child i.
ChildNode(n, i, start) ==
    ts_node_new(Append(n.id, i), n.subtree.children[i], start, AliasOf(n.subtree, i))
AppendChild(n, kids, i) ==
    Append(kids, ChildNode(n, i,
        IF i = 1 THEN n.position
        ELSE length_add(ts_node_end(kids[i - 1]), n.subtree.children[i].padding)))
ts_node_iterate_children(n) ==
    FoldLeft(LAMBDA kids, i : AppendChild(n, kids, i), << >>,
             [i \in DOMAIN n.subtree.children |-> i])

ts_node__is_relevant(n, include_anonymous) ==
    IF include_anonymous THEN n.subtree.visible \/ n.alias # 0
    ELSE IF n.alias # 0 THEN ts_language_symbol_metadata(n.alias).named
    ELSE n.subtree.visible /\ n.subtree.named

ts_node__relevant_child_count(n, include_anonymous) ==
    IF n.subtree.children = << >> THEN 0
    ELSE IF include_anonymous THEN n.subtree.visible_child_count
    ELSE n.subtree.named_child_count
ts_node_child_count(n) == ts_node__relevant_child_count(n, TRUE)
ts_node_descendant_count(n) == n.subtree.visible_descendant_count + 1

\* How many relevant children of its parent a child stands for.
RelevantWeight(kid, anonymous) ==
    IF ts_node__is_relevant(kid, anonymous) THEN 1
    ELSE ts_node__relevant_child_count(kid, anonymous)

\* The child of `n` a relevant index falls on, and the index that is left inside
\* it; `passed` counts the relevant children before each child.
ChildOn(n, kids, passed, index) ==
    LET on == SelectInSeq(passed, LAMBDA p : index < p) IN
    IF on = 0 THEN << >>
    ELSE << [node |-> kids[on], index |-> index - (IF on = 1 THEN 0 ELSE passed[on - 1]),
             structural |-> StructuralIndex(n.subtree.children, on)] >>
RunningCount(kids, anonymous) ==
    [i \in DOMAIN kids |->
        SumOf(LAMBDA k : RelevantWeight(k, anonymous), SubSeq(kids, 1, i))]
ChildAmong(n, kids, index, anonymous) ==
    ChildOn(n, kids, RunningCount(kids, anonymous), index)
ChildAt(n, index, anonymous) ==
    ChildAmong(n, ts_node_iterate_children(n), index, anonymous)

\* Down through hidden children until the one at the index is relevant.
RECURSIVE EnterChild(_, _)
EnterChild(at, anonymous) ==
    IF at = << >> THEN ts_node__null
    ELSE IF ts_node__is_relevant(at[1].node, anonymous) THEN at[1].node
    ELSE EnterChild(ChildAt(at[1].node, at[1].index, anonymous), anonymous)
ts_node__child(n, index, anonymous) == EnterChild(ChildAt(n, index, anonymous), anonymous)

-----------------------------------------------------------------------------
(* Upwards.                                                                   *)

\* Mutant of PassesBy: an empty node right after a child is looked for inside it.
PassesByLate(kid, descendant) ==
    ts_node_end_byte(kid) < ts_node_end_byte(descendant) \/ ts_node_child_count(kid) = 0

\* A child that cannot have the descendant below it.
PassesBy(kid, descendant) ==
    \/ IF ts_node_start_byte(descendant) = ts_node_end_byte(descendant)
       THEN ts_node_end_byte(kid) <= ts_node_end_byte(descendant)
       ELSE ts_node_end_byte(kid) < ts_node_end_byte(descendant)
    \/ ts_node_child_count(kid) = 0

\* Scans some children from the i-th for the one that is `descendant` or has it
\* below; a hidden one is entered.  Positions decide, except that an empty
\* descendant is looked for inside every child it may belong to.
RECURSIVE ScanForDescendant(_, _, _)
ts_node_child_with_descendant(n, descendant) ==
    ScanForDescendant(ts_node_iterate_children(n), descendant, 1)
InsideChild(kid, descendant) ==
    IF /\ ts_node_start_byte(descendant) = ts_node_end_byte(descendant)
       /\ ts_node_end_byte(kid) >= ts_node_end_byte(descendant)
       /\ ts_node_child_count(kid) > 0
    THEN ts_node_child_with_descendant(kid, descendant) ELSE ts_node__null
ScanForDescendant(kids, descendant, i) ==
    IF i > Len(kids) THEN ts_node__null
    ELSE LET kid == kids[i]
             inside == InsideChild(kid, descendant)
         IN  IF ts_node_start_byte(kid) > ts_node_start_byte(descendant) THEN ts_node__null
             ELSE IF kid.id = descendant.id THEN kid
             ELSE IF ~ts_node_is_null(inside)
             THEN IF ts_node__is_relevant(kid, TRUE) THEN kid ELSE inside
             ELSE IF PassesBy(kid, descendant) THEN ScanForDescendant(kids, descendant, i + 1)
             ELSE IF ts_node__is_relevant(kid, TRUE) THEN kid
             ELSE ts_node_child_with_descendant(kid, descendant)

\* The child that has the descendant strictly below it.
RECURSIVE ScanForContaining(_, _, _)
ScanForContaining(kids, descendant, i) ==
    IF i > Len(kids) THEN ts_node__null
    ELSE LET kid == kids[i]
             inside == InsideChild(kid, descendant)
         IN  IF \/ ts_node_start_byte(kid) > ts_node_start_byte(descendant)
                \/ kid.id = descendant.id
             THEN ts_node__null
             ELSE IF ~ts_node_is_null(inside)
             THEN IF ts_node__is_relevant(kid, TRUE) THEN kid ELSE inside
             ELSE IF PassesBy(kid, descendant) THEN ScanForContaining(kids, descendant, i + 1)
             ELSE IF ts_node__is_relevant(kid, TRUE) THEN kid
             ELSE ScanForContaining(ts_node_iterate_children(kid), descendant, 1)
ts_node_child_containing_descendant(n, descendant) ==
    ScanForContaining(ts_node_iterate_children(n), descendant, 1)

\* From the root towards the node, until the next one is the node or is lost.
RECURSIVE ParentFrom(_, _, _)
ParentFrom(above, next, n) ==
    IF ts_node_is_null(next) \/ next.id = n.id THEN above
    ELSE ParentFrom(next, ts_node_child_with_descendant(next, n), n)
ts_node_parent(tree, n) ==
    LET root == ts_tree_root_node(tree) IN
    IF n.id = << >> THEN ts_node__null
    ELSE ParentFrom(root, ts_node_child_with_descendant(root, n), n)

-----------------------------------------------------------------------------
(* Siblings.                                                                  *)

\* Two addresses are the same; a leaf is stored in place, so that two leaves
\* compare equal when all their fields are.
SameTree(m, n) == IF m.subtree.children = << >> /\ n.subtree.children = << >>
                  THEN m.subtree = n.subtree ELSE m.id = n.id

RECURSIVE ts_subtree_has_trailing_empty_descendant(_, _)
ts_subtree_has_trailing_empty_descendant(n, other) ==
    LET kids == ts_node_iterate_children(n)
        Empty(i) == \A j \in i .. Len(kids) : ts_subtree_total_bytes(kids[j].subtree) = 0
    IN  \E i \in DOMAIN kids :
            /\ Empty(i)
            /\ \/ SameTree(kids[i], other)
               \/ ts_subtree_has_trailing_empty_descendant(kids[i], other)

\* The last of some nodes that is relevant or has something relevant below.
Relevant(nodes, anonymous) ==
    SelectSeq(nodes, LAMBDA k : \/ ts_node__is_relevant(k, anonymous)
                                \/ ts_node__relevant_child_count(k, anonymous) > 0)

\* Whether the target ends in a child.
HoldsEnd(kid, self) ==
    \/ ts_node_end_byte(kid) > ts_node_end_byte(self)
    \/ /\ ts_node_end_byte(kid) = ts_node_end_byte(self)
       /\ \/ ts_subtree_total_bytes(self.subtree) # 0
          \/ ts_subtree_has_trailing_empty_descendant(kid, self)

\* One round: the children up to the one that is the target or holds it, which is
\* child `stop`, 0 if there is none.  When it holds the target the search goes on
\* in it, and what was last seen before it is remembered; else the answer is at
\* hand, or below it.
RECURSIVE PrevSiblingFrom(_, _, _, _)
PrevRound(kids, stop, seen, earlier_node, self, anonymous) ==
    IF stop # 0 /\ kids[stop].id # self.id
    THEN PrevSiblingFrom(kids[stop], IF seen = << >> THEN earlier_node ELSE Last(seen),
                         self, anonymous)
    ELSE IF seen # << >>
    THEN IF ts_node__is_relevant(Last(seen), anonymous) THEN Last(seen)
         ELSE PrevSiblingFrom(Last(seen), earlier_node, self, anonymous)
    ELSE IF ts_node_is_null(earlier_node) THEN ts_node__null
    ELSE IF ts_node__is_relevant(earlier_node, anonymous) THEN earlier_node
    ELSE PrevSiblingFrom(earlier_node, ts_node__null, self, anonymous)
PrevUpTo(kids, stop, earlier_node, self, anonymous) ==
    PrevRound(kids, stop,
              Relevant(IF stop = 0 THEN kids ELSE SubSeq(kids, 1, stop - 1), anonymous),
              earlier_node, self, anonymous)
PrevAmong(kids, earlier_node, self, anonymous) ==
    PrevUpTo(kids, SelectInSeq(kids, LAMBDA k : k.id = self.id \/ HoldsEnd(k, self)),
             earlier_node, self, anonymous)
PrevSiblingFrom(node, earlier_node, self, anonymous) ==
    IF ts_node_is_null(node) THEN ts_node__null
    ELSE PrevAmong(ts_node_iterate_children(node), earlier_node, self, anonymous)
ts_node__prev_sibling(tree, n, anonymous) ==
    IF n.id = << >> THEN ts_node__null
    ELSE PrevSiblingFrom(ts_node_parent(tree, n), ts_node__null, n, anonymous)

\* The search of ts_node__next_sibling starts the same round again and again.
ts_node__diverges == [id |-> <<-2>>]

RECURSIVE NextSiblingFrom(_, _, _, _)
NextSiblingFrom(node, later_node, self, anonymous) ==
    LET start == ts_node_start_byte(self)
        target_end == ts_node_end_byte(self)
        after == SelectSeq(ts_node_iterate_children(node),
                           LAMBDA k : ts_node_end_byte(k) > target_end)
        Holds(k) == IF start = target_end THEN ts_node_start_byte(k) < start
                    ELSE ts_node_start_byte(k) <= start
        laters == Relevant(SelectSeq(after, LAMBDA k : ~Holds(k)), anonymous)
        later == IF laters = << >> THEN ts_node__null ELSE Head(laters)
        Before(k) == laters = << >> \/ Last(k.id) < Last(later.id)
        around == SelectSeq(after, LAMBDA k : Holds(k) /\ Before(k) /\ ~SameTree(k, self))
    IN  IF ts_node_is_null(node) THEN ts_node__null
        ELSE IF around # << >>
        THEN NextSiblingFrom(Last(around), IF laters = << >> THEN later_node ELSE later,
                             self, anonymous)
        ELSE IF laters # << >>
        THEN IF ts_node__is_relevant(later, anonymous) THEN later
             ELSE NextSiblingFrom(later, later_node, self, anonymous)
        ELSE IF ts_node_is_null(later_node) THEN ts_node__null
        ELSE IF ts_node__is_relevant(later_node, anonymous) THEN later_node
        ELSE IF node = later_node THEN ts_node__diverges
        ELSE NextSiblingFrom(later_node, later_node, self, anonymous)
ts_node__next_sibling(tree, n, anonymous) ==
    IF n.id = << >> THEN ts_node__null
    ELSE NextSiblingFrom(ts_node_parent(tree, n), ts_node__null, n, anonymous)

-----------------------------------------------------------------------------
(* By position.                                                               *)

\* The first child that ends after the goal.  Inside a hidden child the search
\* remembers where it left its parent only if the child has more children than
\* that place; it goes back there once when it finds nothing.
RECURSIVE FirstChildForByte(_, _, _, _, _)
FirstChildForByte(kids, from, last, goal, anonymous) ==
    LET hits == {i \in from .. Len(kids) :
                    /\ ts_node_end_byte(kids[i]) > goal
                    /\ \/ ts_node__is_relevant(kids[i], anonymous)
                       \/ ts_node_child_count(kids[i]) > 0}
        i == Min(hits)
        kid == kids[i]
        keep == i < Len(kid.subtree.children)
    IN  IF hits # {}
        THEN IF ts_node__is_relevant(kid, anonymous) THEN kid
             ELSE FirstChildForByte(ts_node_iterate_children(kid), 1,
                                    IF keep THEN << [kids |-> kids, from |-> i + 1] >> ELSE last,
                                    goal, anonymous)
        ELSE IF last # << >> THEN FirstChildForByte(last[1].kids, last[1].from, << >>, goal, anonymous)
        ELSE ts_node__null
ts_node__first_child_for_byte(n, goal, anonymous) ==
    FirstChildForByte(ts_node_iterate_children(n), 1, << >>, goal, anonymous)

\* Mutant of Touches: an empty child may end before the range.
TouchesAny(start, end, range_start, range_end) ==
    ~point_lt(end, range_end) /\ ~point_lt(end, range_start)

\* Whether a child from `start` to `end` reaches to the end of the range and
\* beyond its start, which an empty one need only meet.  Byte offsets are columns
\* of one row.
Touches(start, end, range_start, range_end) ==
    /\ ~point_lt(end, range_end)
    /\ IF start = end THEN ~point_lt(end, range_start) ELSE point_lt(range_start, end)
Offset(byte) == Point(0, byte)

\* Down into the first child that spans the range; the last relevant one counts.
RECURSIVE ts_node__descendant_for_byte_range(_, _, _, _, _)
ts_node__descendant_for_byte_range(n, last_visible, range_start, range_end, anonymous) ==
    LET kids == ts_node_iterate_children(n)
        touching == {i \in DOMAIN kids :
                        Touches(Offset(ts_node_start_byte(kids[i])), Offset(ts_node_end_byte(kids[i])),
                                Offset(range_start), Offset(range_end))}
        kid == kids[Min(touching)]
    IN  IF touching = {} THEN last_visible
        ELSE IF range_start < ts_node_start_byte(kid) THEN last_visible
        ELSE ts_node__descendant_for_byte_range(
                kid, IF ts_node__is_relevant(kid, anonymous) THEN kid ELSE last_visible,
                range_start, range_end, anonymous)

RECURSIVE ts_node__descendant_for_point_range(_, _, _, _, _)
ts_node__descendant_for_point_range(n, last_visible, range_start, range_end, anonymous) ==
    LET kids == ts_node_iterate_children(n)
        touching == {i \in DOMAIN kids :
                        Touches(ts_node_start_point(kids[i]), Extent(ts_node_end(kids[i])),
                                range_start, range_end)}
        kid == kids[Min(touching)]
    IN  IF touching = {} THEN last_visible
        ELSE IF point_lt(range_start, ts_node_start_point(kid)) THEN last_visible
        ELSE ts_node__descendant_for_point_range(
                kid, IF ts_node__is_relevant(kid, anonymous) THEN kid ELSE last_visible,
                range_start, range_end, anonymous)

-----------------------------------------------------------------------------
(* Fields.                                                                    *)

\* The first child with the field.  `map` are the entries of the field, by child;
\* an inherited one is looked up inside its hidden child.
RECURSIVE ts_node_child_by_field_id(_, _), ChildByMap(_, _, _, _)
ts_node_child_by_field_id(n, field) ==
    LET all == ts_language_field_map(n.subtree.production_id)
    IN  IF field = 0 \/ ts_node_child_count(n) = 0 THEN ts_node__null
        ELSE ChildByMap(n, field, SelectSeq(all, LAMBDA m : m.field = field), 1)
ChildByMap(n, field, map, from) ==
    LET kids == ts_node_iterate_children(n)
        Index(i) == StructuralIndex(n.subtree.children, i)
        at == {i \in from .. Len(kids) : ~kids[i].subtree.extra /\ Index(i) >= map[1].child}
        i == Min(at)
        kid == kids[i]
        inherited == ts_node_child_by_field_id(kid, field)
    IN  IF map = << >> THEN ts_node__null
        ELSE IF at = {} THEN ts_node__null
        ELSE IF map[1].inherited
        THEN IF Len(map) = 1 \/ ~ts_node_is_null(inherited) THEN inherited
             ELSE ChildByMap(n, field, Tail(map), i + 1)
        ELSE IF ts_node__is_relevant(kid, TRUE) THEN kid
        ELSE IF ts_node_child_count(kid) > 0 THEN ts_node__child(kid, 0, TRUE)
        ELSE ChildByMap(n, field, Tail(map), i + 1)

ts_node__field_name_from_language(n, structural) ==
    LET own == SelectSeq(ts_language_field_map(n.subtree.production_id),
                         LAMBDA m : ~m.inherited /\ m.child = structural)
    IN  IF own = << >> THEN 0 ELSE own[1].field

\* The field of a child by index: its own, else that of the hidden child nearest
\* to it that has one.  A hidden extra child is looked up as the child before it.
RECURSIVE FieldOfChild(_, _, _, _)
FieldOfChild(n, at, inherited, anonymous) ==
    IF at = << >> THEN 0
    ELSE LET kid == at[1].node
             own == ts_node__field_name_from_language(
                       n, IF kid.subtree.extra THEN at[1].structural - 1 ELSE at[1].structural)
             field == IF own # 0 THEN own ELSE inherited
         IN  IF ~ts_node__is_relevant(kid, anonymous)
             THEN FieldOfChild(kid, ChildAt(kid, at[1].index, anonymous), field, anonymous)
             ELSE IF kid.subtree.extra THEN 0
             ELSE field
ts_node_field_name_for_child(n, index) ==
    FieldOfChild(n, ChildAt(n, index, TRUE), 0, TRUE)
ts_node_field_name_for_named_child(n, index) ==
    FieldOfChild(n, ChildAt(n, index, FALSE), 0, FALSE)

-----------------------------------------------------------------------------
\* Mutant of ts_node_edit: a node right behind the edit moves to its end only when
\* the edit removes text.
NodeEditStrict(n, edit) ==
    LET start == n.position IN
    [n EXCEPT !.position =
        IF start.bytes > edit.old_end.bytes
        THEN length_add(edit.new_end, length_sub(start, edit.old_end))
        ELSE IF start.bytes > edit.start.bytes THEN edit.new_end
        ELSE start]

\* A node that outlives an edit moves as its start does.
ts_node_edit(n, edit) ==
    LET start == n.position IN
    [n EXCEPT !.position =
        IF start.bytes >= edit.old_end.bytes
        THEN length_add(edit.new_end, length_sub(start, edit.old_end))
        ELSE IF start.bytes > edit.start.bytes THEN edit.new_end
        ELSE start]
=============================================================================
