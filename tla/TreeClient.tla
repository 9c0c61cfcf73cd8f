------------------------------ MODULE TreeClient ------------------------------
(* A reader of a finished tree: it moves a cursor and, from the node the      *)
(* cursor is at, asks for parents, siblings, children, fields and descendants *)
(* as node.c finds them.  `tree` does not change; `cursor` is the cursor and  *)
(* `base` the place it was made at; `back` counts its moves to a previous     *)
(* sibling, and `drift` is the first entry of its stack whose descendant      *)
(* index such a move has lost, 0 when there is none.                          *)
EXTENDS TreeCursor, TreeEdit, Places

CONSTANTS ReaderTrees,      \* the trees of the instance
          ReaderEdits(_),   \* the edits of a tree that nodes are moved along with
          MaxBack           \* bound on moves to a previous sibling

VARIABLES tree, cursor, base, back, drift
vars == <<tree, cursor, base, back, drift>>

\* A production with aliases has extras among its children.  Going back from an
\* extra leaves the structural index one too high, and with it the alias.
AliasBesideExtra ==
    \E p \in Range(Places(tree)) :
        /\ SubtreeAt(tree, p).production_id # 0
        /\ \E i \in DOMAIN SubtreeAt(tree, p).children : SubtreeAt(tree, p).children[i].extra

-----------------------------------------------------------------------------
(* The reader.                                                                *)

PlaceOf(c) == base \o [i \in 1 .. Len(c.stack) - 1 |-> c.stack[i + 1].child_index + 1]
Here == PlaceOf(cursor)
CurrentNode ==
    ts_node_new(Here, Last(cursor.stack).subtree, Last(cursor.stack).position,
                ts_tree_cursor_current_alias(cursor))

Init ==
    /\ tree \in ReaderTrees
    /\ cursor = ts_tree_cursor_init(tree, tree.padding, 0)
    /\ base = << >> /\ back = 0 /\ drift = 0

\* How many entries of its stack the cursor keeps when it becomes c.
Kept(c) ==
    Max({n \in 0 .. Len(c.stack) : n <= Len(cursor.stack)
                                   /\ SubSeq(c.stack, 1, n) = SubSeq(cursor.stack, 1, n)})

\* The cursor becomes c, of whose entries the first n are kept or computed from
\* the ones that were in their place.
Goto(c, n) ==
    /\ cursor' = c
    /\ drift' = IF drift <= n THEN drift ELSE 0
    /\ UNCHANGED <<tree, base, back>>
Move(c) == Goto(c, Kept(c))

GotoFirstChild == Move(ts_tree_cursor_goto_first_child(cursor).cursor)
GotoLastChild == Move(ts_tree_cursor_goto_last_child(cursor).cursor)
GotoNextSibling ==
    \E to \in {ts_tree_cursor_goto_next_sibling(cursor).cursor} : Goto(to, Kept(to) + 1)
GotoParent == Move(ts_tree_cursor_goto_parent(cursor).cursor)
\* A step back and a step forward may leave the structural index higher than it
\* was, so that the number of steps back is bounded; where that index selects an
\* alias, a further step would read beyond the production's aliases, and is not
\* taken.
GotoPreviousSibling ==
    /\ back < MaxBack /\ ~AliasBesideExtra
    /\ \E to \in {ts_tree_cursor_goto_previous_sibling(cursor)} :
          /\ cursor' = to.cursor
          /\ back' = IF to.moved THEN back + 1 ELSE back
          /\ drift' = IF ~to.moved \/ drift \in 1 .. Kept(to.cursor) THEN drift
                      ELSE Kept(to.cursor) + 1
    /\ UNCHANGED <<tree, base>>

\* Descendant indices are those of the whole tree below the cursor's base.
GotoDescendant(goal) == Move(ts_tree_cursor_goto_descendant(cursor, goal))

GotoFirstChildForByte(b) ==
    Move(ts_tree_cursor_goto_first_child_for_byte_and_point(cursor, b, POINT_ZERO).cursor)
GotoFirstChildForPoint(p) ==
    Move(ts_tree_cursor_goto_first_child_for_byte_and_point(cursor, 0, p).cursor)

\* A new cursor is made for the current node.
ResetCursor ==
    /\ cursor' = ts_tree_cursor_init(CurrentNode.subtree, CurrentNode.position, CurrentNode.alias)
    /\ base' = Here
    /\ drift' = 0
    /\ UNCHANGED <<tree, back>>

Next ==
    \/ GotoFirstChild \/ GotoLastChild \/ GotoNextSibling \/ GotoPreviousSibling \/ GotoParent
    \/ \E goal \in 0 .. tree.visible_descendant_count + 1 : GotoDescendant(goal)
    \/ \E b \in 0 .. ts_subtree_total_bytes(tree) :
        GotoFirstChildForByte(b)
    \/ \E p \in {Extent(StartAt(tree, q)) : q \in Range(Places(tree))} : GotoFirstChildForPoint(p)
    \/ ResetCursor

Spec == Init /\ [][Next]_vars

-----------------------------------------------------------------------------
(* Properties.                                                                *)

\* Every entry of a cursor is the child it claims to be and starts where that
\* child starts, rows crossed backwards included.
OnPath(c) ==
    \A i \in DOMAIN c.stack :
        LET p == base \o [j \in 1 .. i - 1 |-> c.stack[j + 1].child_index + 1] IN
        c.stack[i].subtree = SubtreeAt(tree, p) /\ c.stack[i].position = StartAt(tree, p)

\* The current node shows, and its parent and its depth are the visible ones.
CursorShows ==
    /\ Here = base \/ Shows(tree, Here)
    /\ Here # base =>
          LET above == ts_tree_cursor_parent_node(cursor)[1] IN
          /\ base \o [j \in 1 .. above.index - 1 |-> cursor.stack[j + 1].child_index + 1]
                = ParentOf(tree, Here)
          /\ Cardinality({n \in Len(base) .. Len(Here) : Shows(tree, SubSeq(Here, 1, n))})
                = ts_tree_cursor_current_depth(cursor) + 1

\* In front of the entry that was reached by going back, every entry that shows has
\* the index of its node among all descendants of the cursor's first node; without
\* such an entry a descendant is found by its index.
DescendantsCounted ==
    LET shown == ShownWithin(tree, base)
        exact == IF drift = 0 THEN Len(cursor.stack) ELSE drift - 1
    IN  /\ \A i \in 1 .. exact :
              LET p == SubSeq(Here, 1, Len(base) + i - 1) IN
              p = base \/ Shows(tree, p) => shown[cursor.stack[i].descendant_index + 1] = p
        /\ drift = 0 => \A goal \in 0 .. SubtreeAt(tree, base).visible_descendant_count :
              PlaceOf(ts_tree_cursor_goto_descendant(cursor, goal)) = shown[goal + 1]

\* The structural index of an entry selects its alias and its fields: it is exact
\* where the production has any.
StructuralIndicesExact ==
    \A i \in 2 .. Len(cursor.stack) :
        LET parent == cursor.stack[i - 1].subtree IN
        ProductionOf(parent) # 0 =>
            cursor.stack[i].structural_child_index =
                StructuralIndex(parent.children, cursor.stack[i].child_index + 1)

\* The entries of the cursor are the path to its node, with their positions, and so
\* they are after a step back, whatever the sequence of moves (tree_cursor.c).  The
\* indices follow the moves with two exceptions, where the code does not: a step back
\* leaves the descendant index of the entry it reaches at 0, and with it that of the
\* entries below and of the siblings after, until the cursor goes up again; and in a
\* production with aliases or fields a step back from an extra leaves the structural
\* index one too high (AliasBesideExtra: no step back is taken in such a tree, its
\* entries are looked at after one).
CursorExact ==
    /\ OnPath(cursor)
    /\ OnPath(ts_tree_cursor_goto_previous_sibling(cursor).cursor)
    /\ CursorShows
    /\ DescendantsCounted
    /\ StructuralIndicesExact

\* The first and the last visible child, the next and the previous visible
\* sibling and the visible parent are where the cursor goes, through any number
\* of hidden nodes, and it stays when there is none.
CursorMovesExact ==
    LET kids == ChildrenOf(tree, Here)
        sibs == IF Here = base THEN <<Here>> ELSE SiblingsOf(tree, Here)
        i == IndexIn(sibs, Here)
        Leads(to, ok, place) ==
            to.moved = ok /\ PlaceOf(to.cursor) = IF ok THEN place ELSE Here
    IN  /\ Leads(ts_tree_cursor_goto_first_child(cursor), kids # << >>, kids[1])
        /\ Leads(ts_tree_cursor_goto_last_child(cursor), kids # << >>, kids[Len(kids)])
        /\ Leads(ts_tree_cursor_goto_next_sibling(cursor), i < Len(sibs), sibs[i + 1])
        /\ ~AliasBesideExtra =>
              Leads(ts_tree_cursor_goto_previous_sibling(cursor), i > 1, sibs[i - 1])
        /\ Leads(ts_tree_cursor_goto_parent(cursor), Here # base, ParentOf(tree, Here))

\* The places that count when anonymous nodes do or do not.
Counting(s, anonymous) == IF anonymous THEN s ELSE SelectSeq(s, LAMBDA q : Named(tree, q))
PlaceOfNode(n) == IF ts_node_is_null(n) THEN << >> ELSE n.id

\* From a node alone, by searching positions from the root, node.c finds the same
\* parent and the same children as the tree has, and the child of a node that has
\* it below (for a node that is empty the node itself may be the answer).
NodeParentExact ==
    LET n == NodeAt(tree, Here) IN
    /\ Here # << >> => ts_node_parent(tree, n).id = ParentOf(tree, Here)
    /\ \A i \in 1 .. Len(Here) :
          Shows(tree, SubSeq(Here, 1, i - 1)) /\ n.subtree.size.bytes > 0 =>
              LET above == NodeAt(tree, SubSeq(Here, 1, i - 1))
                  between == {j \in i .. Len(Here) - 1 : Shows(tree, SubSeq(Here, 1, j))}
              IN  PlaceOfNode(ts_node_child_containing_descendant(above, n))
                      = IF between = {} THEN << >> ELSE SubSeq(Here, 1, Min(between))
    /\ \A anonymous \in BOOLEAN :
          LET kids == Counting(ChildrenOf(tree, Here), anonymous) IN
          \A i \in 0 .. Len(kids) :
              ts_node__child(n, i, anonymous)
                  = IF i = Len(kids) THEN ts_node__null ELSE NodeAt(tree, kids[i + 1])

\* The first child that ends after a byte is found by the cursor, with its index,
\* and by node.c, whatever hidden nodes lie before it or around it; the search for
\* a named child may miss one behind a hidden node that has none after the byte.
ChildForByteExact ==
    LET n == NodeAt(tree, Here)
        After(kids, b) == {i \in DOMAIN kids : EndAt(tree, kids[i]).bytes > b}
    IN  \A b \in 0 .. ts_subtree_total_bytes(tree) :
          /\ LET kids == ChildrenOf(tree, Here)
                 to == ts_tree_cursor_goto_first_child_for_byte_and_point(cursor, b, POINT_ZERO)
                 none == After(kids, b) = {}
             IN  /\ to.index = IF none THEN -1 ELSE Min(After(kids, b)) - 1
                 /\ PlaceOf(to.cursor) = IF none THEN Here ELSE kids[Min(After(kids, b))]
          /\ \A anonymous \in BOOLEAN :
                LET kids == Counting(ChildrenOf(tree, Here), anonymous)
                    found == ts_node__first_child_for_byte(n, b, anonymous)
                IN  IF ts_node_is_null(found) THEN anonymous => After(kids, b) = {}
                    ELSE found.id = kids[Min(After(kids, b))]

\* From a node alone the next and the previous sibling, named or any, are found
\* through hidden nodes on both sides, without mistaking an empty neighbour for
\* the node (ts_node__next_sibling, ts_node__prev_sibling).  Going forward, empty
\* siblings right at the end of the node are passed over.
NodeSiblingsExact ==
    Here # << >> =>
    \A anonymous \in BOOLEAN :
        LET n == NodeAt(tree, Here)
            sibs == SiblingsOf(tree, Here)
            i == IndexIn(sibs, Here)
            before == Counting(SubSeq(sibs, 1, i - 1), anonymous)
            later == SelectSeq(SubSeq(sibs, i + 1, Len(sibs)),
                               LAMBDA q : EndAt(tree, q).bytes > EndAt(tree, Here).bytes)
            after == Counting(later, anonymous)
        IN  /\ PlaceOfNode(ts_node__next_sibling(tree, n, anonymous))
                  = IF after = << >> THEN << >> ELSE after[1]
            /\ PlaceOfNode(ts_node__prev_sibling(tree, n, anonymous))
                  = IF before = << >> THEN << >> ELSE before[Len(before)]

\* node.c finds the relatives of a node from its position alone, and they are those of
\* the tree.
NodesExact == NodeParentExact /\ ChildForByteExact /\ NodeSiblingsExact

\* What a query is told of the siblings still to come is what there is, also
\* beyond the hidden nodes that wrap the current one; that a named one is among
\* them may go unseen when an anonymous one is nearer.
SiblingsAhead ==
    Here # base =>
    LET status == ts_tree_cursor_current_status(cursor)
        sibs == SiblingsOf(tree, Here)
        after == SubSeq(sibs, IndexIn(sibs, Here) + 1, Len(sibs))
    IN  /\ status.has_later = (after # << >>)
        /\ status.has_later_named => Counting(after, FALSE) # << >>
        /\ Counting(after, FALSE) = after => status.has_later_named = status.has_later

\* The cursor, the status a query sees and the node's parent agree on the field of
\* every child, inherited fields and extras included, and the field leads back to
\* the first child that has it.
FieldsAgree ==
    Here # base =>
    LET sibs == SiblingsOf(tree, Here)
        parent == NodeAt(tree, ParentOf(tree, Here))
        field == ts_tree_cursor_current_field_id(cursor)
        FieldAt(q) == ts_node_field_name_for_child(parent, IndexIn(sibs, q) - 1)
        named == Counting(sibs, FALSE)
    IN  /\ FieldAt(Here) = field
        /\ Named(tree, Here) =>
             field = ts_node_field_name_for_named_child(parent, IndexIn(named, Here) - 1)
        /\ ts_tree_cursor_current_status(cursor).field = field
        /\ field # 0 =>
             ts_node_child_by_field_id(parent, field).id =
                 sibs[Min({i \in DOMAIN sibs : FieldAt(sibs[i]) = field})]

\* What a query is told of the current node (ts_tree_cursor_current_status) is what the
\* tree has: the siblings to come and the field, for the cursor and for node.c alike.
StatusExact == SiblingsAhead /\ FieldsAgree

Boundaries == {StartAt(tree, q) : q \in Range(Places(tree))}
                  \cup {EndAt(tree, q) : q \in Range(Places(tree))}
Spans(q, from, to) == StartAt(tree, q).bytes <= from.bytes /\ to.bytes <= EndAt(tree, q).bytes

\* An empty range is found beside an empty node as that node or its parent.
EmptyNodeAt(at) ==
    \E q \in Range(Places(tree)) : StartAt(tree, q) = at /\ EndAt(tree, q) = at

\* The smallest visible node that spans a range is found, of bytes or of points:
\* whatever else shows and spans the range, beyond its start, is above it.
DescendantSmallest ==
    \A from, to \in Boundaries :
        from.bytes <= to.bytes /\ Spans(Here, from, to) =>
            LET n == NodeAt(tree, Here)
                found == ts_node__descendant_for_byte_range(n, n, from.bytes, to.bytes, TRUE).id
            IN  /\ Spans(found, from, to)
                /\ found = ts_node__descendant_for_point_range(n, n, Extent(from), Extent(to), TRUE).id
                /\ from # to \/ ~EmptyNodeAt(from) =>
                     \A q \in Range(ShownWithin(tree, Here)) :
                         Spans(q, from, to) /\ from.bytes < EndAt(tree, q).bytes
                             => IsPrefix(q, found)

\* A node kept across an edit and moved by ts_node_edit starts where the edited
\* tree has it, unless the edit removes the text it starts in.
NodeEditAgrees ==
    \A edit \in ReaderEdits(tree) :
        LET edited == ts_subtree_edit(tree, edit)
            start == StartAt(tree, Here)
        IN  (start.bytes < edit.start.bytes \/ start.bytes >= edit.old_end.bytes) =>
            ts_node_edit(NodeAt(tree, Here), edit).position = StartAt(edited, Here)
=============================================================================
