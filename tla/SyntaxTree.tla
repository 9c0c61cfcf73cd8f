------------------------------ MODULE SyntaxTree ------------------------------
(* What a tree says, whatever its hidden nodes and its sharing: its leaves    *)
(* with their places, and the visible nodes a reader sees.  Nothing here is   *)
(* code; the properties of the parser, of the cursors and of the changed      *)
(* ranges are stated with these definitions.                                  *)
EXTENDS Subtree

\* The offset at which child i of a tree that starts at offset `from` starts.
ChildStart(t, i, from) ==
    length_add(from, FoldLeft(LAMBDA acc, k : length_add(acc, ts_subtree_total_size(k)),
                              length_zero, SubSeq(t.children, 1, i - 1)))

\* The sequences f(1), ..., f(n) in one.
Concat(f(_), n) == FoldLeft(LAMBDA acc, i : acc \o f(i), << >>, [i \in 1 .. n |-> i])

\* The leaves of a tree, in order, each with where its padding starts.
RECURSIVE LeavesFrom(_, _)
LeavesFrom(t, from) ==
    IF t.children = << >> THEN << [leaf |-> t, from |-> from] >>
    ELSE Concat(LAMBDA i : LeavesFrom(t.children[i], ChildStart(t, i, from)), Len(t.children))
Leaves(t) == LeavesFrom(t, length_zero)

\* The visible nodes at the top of what a child stands for: itself, or, when it
\* is hidden and has no alias, those below it.
RECURSIVE VisibleFrom(_, _, _)
VisibleFrom(t, alias, from) ==
    LET start == length_add(from, t.padding)
        below == Concat(LAMBDA i : VisibleFrom(t.children[i], AliasOf(t, i),
                                               ChildStart(t, i, from)), Len(t.children))
        sym == IF alias # 0 THEN alias ELSE t.symbol
    IN  IF alias = 0 /\ ~t.visible THEN below
        ELSE << [symbol |-> sym, start |-> start, end |-> length_add(start, t.size),
                 extra |-> t.extra, missing |-> t.is_missing, children |-> below] >>
VisibleTree(t) == VisibleFrom(t, 0, length_zero)

\* The sizes of every node are those of its children.
RECURSIVE SizesAddUp(_)
SizesAddUp(t) ==
    t.children # << >> =>
        /\ ts_subtree_total_size(t) = ChildStart(t, Len(t.children) + 1, length_zero)
        /\ t.padding = t.children[1].padding
        /\ \A i \in DOMAIN t.children : SizesAddUp(t.children[i])

\* The symbols of the visible nodes around byte b, from the outside.
RECURSIVE ScopesIn(_, _)
ScopesIn(forest, b) ==
    LET around == {i \in DOMAIN forest : forest[i].start.bytes <= b /\ b < forest[i].end.bytes}
    IN  IF around = {} THEN << >>
        ELSE LET n == forest[CHOOSE i \in around : TRUE]
             IN  << n.symbol >> \o ScopesIn(n.children, b)
Scopes(t, b) == ScopesIn(VisibleTree(t), b)

RECURSIVE SubtreesOf(_)
SubtreesOf(t) == {t} \cup UNION {SubtreesOf(t.children[i]) : i \in DOMAIN t.children}
=============================================================================
