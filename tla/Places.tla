------------------------------- MODULE Places -------------------------------
(* What a reader sees in a tree, stated by places: the indices that lead from *)
(* the root to a node.  Nothing here is code; the properties of the cursors,  *)
(* of the nodes and of queries are stated with these definitions.             *)
EXTENDS Node, SyntaxTree

SubtreeAt(t, p) == FoldLeft(LAMBDA u, i : u.children[i], t, p)
AliasAt(t, p) == IF p = << >> THEN 0 ELSE AliasOf(SubtreeAt(t, Front(p)), Last(p))
PaddingStartAt(t, p) ==
    FoldLeft(LAMBDA u, i : [tree |-> u.tree.children[i], from |-> ChildStart(u.tree, i, u.from)],
             [tree |-> t, from |-> length_zero], p).from
StartAt(t, p) == length_add(PaddingStartAt(t, p), SubtreeAt(t, p).padding)
EndAt(t, p) == length_add(StartAt(t, p), SubtreeAt(t, p).size)
NodeAt(t, p) == ts_node_new(p, SubtreeAt(t, p), StartAt(t, p), AliasAt(t, p))

RECURSIVE PlacesFrom(_, _)
PlacesFrom(t, p) ==
    << p >> \o Concat(LAMBDA i : PlacesFrom(t.children[i], Append(p, i)), Len(t.children))
Places(t) == PlacesFrom(t, << >>)

Shows(t, p) == p = << >> \/ SubtreeAt(t, p).visible \/ AliasAt(t, p) # 0
Named(t, p) ==
    IF AliasAt(t, p) # 0 THEN ts_language_symbol_metadata(AliasAt(t, p)).named
                         ELSE SubtreeAt(t, p).named

\* The nearest place above p that shows, and the places that show right below p.
ParentOf(t, p) ==
    SubSeq(p, 1, Max({n \in 0 .. Len(p) - 1 : Shows(t, SubSeq(p, 1, n))}))
ChildrenOf(t, p) ==
    SelectSeq(Places(t), LAMBDA q : q # << >> /\ Shows(t, q) /\ ParentOf(t, q) = p)
SiblingsOf(t, p) == ChildrenOf(t, ParentOf(t, p))
IndexIn(s, x) == CHOOSE i \in DOMAIN s : s[i] = x

\* The visible places below p, and p, in the order of the text.
ShownWithin(t, p) ==
    SelectSeq(Places(t), LAMBDA q : Shows(t, q) /\ IsPrefix(p, q))
=============================================================================
