------------------------------ MODULE TreeEdit ------------------------------
(* What happens to a finished tree: rebalancing its repetitions               *)
(* (ts_subtree_balance), moving it along with an edit of the text             *)
(* (ts_subtree_edit, ts_tree_edit).  An edit is a record of three Lengths,    *)
(* start, old_end and new_end.                                                *)
EXTENDS Subtree

-----------------------------------------------------------------------------
(* Rebalancing.  `shared` is the set of nodes another tree also holds: those  *)
(* are not touched.                                                           *)

Rotatable(t, sym, shared) ==
    Len(t.children) >= 2 /\ t \notin shared /\ t.symbol = sym

SetChild(t, i, kid) == [t EXCEPT !.children[i] = kid]

\* Up to n rotations along the left spine: the first grandchild goes up, the
\* child becomes its last child, and the spine below it is next.  Nodes are
\* summarized again from the bottom.
RECURSIVE ts_subtree__compress(_, _, _)
ts_subtree__compress(t, n, shared) ==
    LET child == t.children[1]
        grandchild == child.children[1]
        width == Len(grandchild.children)
        lowered == SetChild(child, 1, grandchild.children[width])
        raised == ts_subtree__compress(SetChild(grandchild, width, lowered), n - 1, shared)
        settled == ts_subtree_summarize_children(
                        SetChild(raised, width, ts_subtree_summarize_children(lowered)))
    IN  IF \/ n = 0
           \/ Len(t.children) < 2 \/ t \in shared
           \/ ~Rotatable(child, t.symbol, shared)
           \/ ~Rotatable(grandchild, t.symbol, shared)
        THEN t
        ELSE ts_subtree_summarize_children(SetChild(t, 1, settled))

RECURSIVE CompressHalving(_, _, _), ts_subtree_balance(_, _)
CompressHalving(t, n, shared) ==
    IF n = 0 THEN t
    ELSE CompressHalving(ts_subtree__compress(t, n, shared), n \div 2, shared)

ts_subtree_balance(t, shared) ==
    LET delta == t.children[1].repeat_depth - t.children[Len(t.children)].repeat_depth
        compressed == IF t.repeat_depth > 0 /\ delta > 0
                      THEN CompressHalving(t, delta \div 2, shared) ELSE t
    IN  IF t.children = << >> \/ t \in shared THEN t
        ELSE [compressed EXCEPT !.children =
                [i \in DOMAIN @ |-> ts_subtree_balance(@[i], shared)]]

-----------------------------------------------------------------------------
(* Edits.                                                                     *)

IsInsertion(edit) == edit.old_end.bytes = edit.start.bytes
IsNoop(edit) == IsInsertion(edit) /\ edit.new_end.bytes = edit.start.bytes

\* Mutant of Resized: a node whose lookahead alone is edited is not marked.
ResizedUnmarked(t, edit) ==
    LET total == ts_subtree_total_size(t)
        Placed(padding, size) == [t EXCEPT !.padding = padding, !.size = size,
                                           !.has_changes = TRUE]
    IN  CASE edit.old_end.bytes <= t.padding.bytes ->
                Placed(length_add(edit.new_end, length_sub(t.padding, edit.old_end)), t.size)
          [] edit.start.bytes < t.padding.bytes /\ edit.old_end.bytes > t.padding.bytes ->
                Placed(edit.new_end,
                       length_saturating_sub(t.size, length_sub(edit.old_end, t.padding)))
          [] edit.start.bytes = t.padding.bytes /\ IsInsertion(edit) ->
                Placed(edit.new_end, t.size)
          [] OTHER ->
                IF edit.start.bytes < total.bytes
                THEN Placed(t.padding,
                            length_add(length_sub(edit.new_end, t.padding),
                                       length_saturating_sub(total, edit.old_end)))
                ELSE t

\* The new padding and size of a node, by where the edit meets it: before it,
\* across its start, at its start, inside it, or only in what it looked ahead at.
Resized(t, edit) ==
    LET total == ts_subtree_total_size(t)
        Placed(padding, size) == [t EXCEPT !.padding = padding, !.size = size,
                                           !.has_changes = TRUE]
    IN  CASE edit.old_end.bytes <= t.padding.bytes ->
                Placed(length_add(edit.new_end, length_sub(t.padding, edit.old_end)), t.size)
          [] edit.start.bytes < t.padding.bytes /\ edit.old_end.bytes > t.padding.bytes ->
                Placed(edit.new_end,
                       length_saturating_sub(t.size, length_sub(edit.old_end, t.padding)))
          [] edit.start.bytes = t.padding.bytes /\ IsInsertion(edit) ->
                Placed(edit.new_end, t.size)
          [] OTHER ->
                IF \/ edit.start.bytes < total.bytes
                   \/ edit.start.bytes = total.bytes /\ IsInsertion(edit)
                THEN Placed(t.padding,
                            length_add(length_sub(edit.new_end, t.padding),
                                       length_saturating_sub(total, edit.old_end)))
                ELSE Placed(t.padding, t.size)

\* Whether the edit can no longer reach a child that starts at `left`, nor a
\* token of it that depends on its column.  `was` tells how the edit reached the
\* node: whether it only inserts, whether it moves the column of what follows,
\* and whether the node depends on its column.
PastEdit(t, i, left, edit, was) ==
    LET child == t.children[i] IN
    /\ \/ left.bytes > edit.old_end.bytes
       \/ left.bytes = edit.old_end.bytes /\ ts_subtree_total_bytes(child) > 0 /\ i > 1
    /\ ~was.on_column \/ left.row > t.padding.row
    /\ ~child.depends_on_column \/ ~was.shifted \/ left.row > edit.old_end.row

RECURSIVE ts_subtree_edit(_, _), EditChildren(_, _, _, _, _)

ts_subtree_edit(t, edit) ==
    LET end == ts_subtree_total_bytes(t) + t.lookahead_bytes
        was == [insertion |-> IsInsertion(edit), on_column |-> t.depends_on_column,
                shifted |-> edit.new_end.col # edit.old_end.col]
    IN  IF edit.start.bytes > end \/ (IsNoop(edit) /\ edit.start.bytes = end) THEN t
        ELSE EditChildren(Resized(t, edit), 1, length_zero, edit, was)

\* The children from i on, the first of them starting at `left`.  The inserted
\* text goes to the first child the edit touches; the ones before it only learn
\* that what they looked ahead at has changed.
EditChildren(t, i, left, edit, was) ==
    LET child == t.children[i]
        right == length_add(left, ts_subtree_total_size(child))
        touched == \/ right.bytes > edit.start.bytes
                   \/ right.bytes = edit.start.bytes /\ was.insertion
        Here(l) == length_saturating_sub(l, left)
        own == [start |-> Here(edit.start),
                old_end |-> Here(IF touched THEN edit.old_end ELSE edit.start),
                new_end |-> Here(IF touched THEN edit.new_end ELSE edit.start)]
        next == IF touched THEN [edit EXCEPT !.new_end = edit.start] ELSE edit
    IN  IF i > Len(t.children) THEN t
        ELSE IF right.bytes + child.lookahead_bytes < edit.start.bytes
        THEN EditChildren(t, i + 1, right, edit, was)
        ELSE IF PastEdit(t, i, left, edit, was) THEN t
        ELSE EditChildren(SetChild(t, i, ts_subtree_edit(child, own)), i + 1, right, next, was)
=============================================================================
