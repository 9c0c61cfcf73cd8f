------------------------------- MODULE MCStack -------------------------------
(* A small language and five trees for StackClient: a leaf, a node, one that  *)
(* differs from it in precedence only, an extra token and an error.           *)
EXTENDS StackClient

MCLang ==
    LET shown == [visible |-> TRUE, named |-> TRUE] IN
    [symbol_metadata |-> <<shown, shown, shown>>]

One == Len3(1, Point(0, 1))
Leaf == [Bare(1) EXCEPT !.size = One]
Plain == ts_subtree_new_node(2, <<Leaf>>, 0)
Preferred == [Plain EXCEPT !.dynamic_precedence = 1]
Extra == [Leaf EXCEPT !.extra = TRUE, !.has_external_tokens = TRUE,
                      !.scanner_state = <<1>>]
Broken == ts_subtree_new_error_node(<<Leaf>>, FALSE)
MCPushed == {Plain, Extra}
MCTrees == {Leaf, Plain, Preferred, Extra, Broken}
=============================================================================
