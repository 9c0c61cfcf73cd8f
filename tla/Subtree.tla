------------------------------- MODULE Subtree -------------------------------
(* Syntax trees (subtree.h, subtree.c) as values: a tree is a record with the *)
(* fields of SubtreeHeapData and the sequence of its children.  What a tree   *)
(* costs to share (reference counts, the free list, the inline encoding of    *)
(* small leaves) is left out here: two trees are equal when every field of    *)
(* theirs is.  Module Stack counts the references its links hold.             *)
EXTENDS Language, SequencesExt

ERROR_COST_PER_RECOVERY == 500
ERROR_COST_PER_MISSING_TREE == 110
ERROR_COST_PER_SKIPPED_TREE == 100
ERROR_COST_PER_SKIPPED_LINE == 30
ERROR_COST_PER_SKIPPED_CHAR == 1
TS_TREE_STATE_NONE == 65535

NULL_SUBTREE == [symbol |-> -1]
IsNull(t) == t = NULL_SUBTREE

SumOf(f(_), s) == FoldLeft(LAMBDA acc, x : acc + f(x), 0, s)
AnyOf(f(_), s) == \E i \in DOMAIN s : f(s[i])

ts_subtree_child_count(t) == Len(t.children)
ts_subtree_total_size(t) == length_add(t.padding, t.size)
ts_subtree_total_bytes(t) == ts_subtree_total_size(t).bytes
ts_subtree_is_error(t) == t.symbol = ts_builtin_sym_error
ts_subtree_is_eof(t) == t.symbol = ts_builtin_sym_end
ts_subtree_is_fragile(t) == t.fragile_left \/ t.fragile_right
ts_subtree_error_cost(t) ==
    IF t.is_missing THEN ERROR_COST_PER_MISSING_TREE + ERROR_COST_PER_RECOVERY
                    ELSE t.error_cost
ts_subtree_leaf_symbol(t) ==
    IF t.children = << >> THEN t.symbol ELSE t.first_leaf.symbol
ts_subtree_leaf_parse_state(t) ==
    IF t.children = << >> THEN t.parse_state ELSE t.first_leaf.parse_state
ts_subtree_is_repetition(t) == ~t.named /\ ~t.visible /\ t.children # << >>

EmptyScannerState == << >>
ts_subtree_external_scanner_state(t) ==
    IF ~IsNull(t) /\ t.has_external_tokens /\ t.children = << >>
    THEN t.scanner_state ELSE EmptyScannerState
ts_subtree_external_scanner_state_eq(t, u) ==
    ts_subtree_external_scanner_state(t) = ts_subtree_external_scanner_state(u)

Bare(sym) ==
    LET metadata == ts_language_symbol_metadata(sym) IN
    [symbol |-> sym, padding |-> length_zero, size |-> length_zero,
     lookahead_bytes |-> 0, error_cost |-> 0, parse_state |-> 0,
     visible |-> metadata.visible, named |-> metadata.named, extra |-> FALSE,
     fragile_left |-> FALSE, fragile_right |-> FALSE, has_changes |-> FALSE,
     has_external_tokens |-> FALSE, has_external_scanner_state_change |-> FALSE,
     depends_on_column |-> FALSE, is_missing |-> FALSE, is_keyword |-> FALSE,
     visible_child_count |-> 0, named_child_count |-> 0,
     visible_descendant_count |-> 0, dynamic_precedence |-> 0,
     repeat_depth |-> 0, production_id |-> 0,
     first_leaf |-> [symbol |-> 0, parse_state |-> 0],
     scanner_state |-> EmptyScannerState, children |-> << >>]

ts_subtree_new_leaf(sym, padding, size, lookahead, state, external, column, keyword) ==
    [Bare(sym) EXCEPT !.padding = padding, !.size = size,
                      !.lookahead_bytes = lookahead, !.parse_state = state,
                      !.extra = sym = ts_builtin_sym_end,
                      !.has_external_tokens = external,
                      !.depends_on_column = column, !.is_keyword = keyword]

ts_subtree_new_error(padding, size, bytes_scanned, state) ==
    [ts_subtree_new_leaf(ts_builtin_sym_error, padding, size, bytes_scanned, state,
                         FALSE, FALSE, FALSE)
        EXCEPT !.fragile_left = TRUE, !.fragile_right = TRUE]

ts_subtree_new_missing_leaf(sym, padding, lookahead) ==
    [ts_subtree_new_leaf(sym, padding, length_zero, lookahead, 0, FALSE, FALSE, FALSE)
        EXCEPT !.is_missing = TRUE]

ts_subtree_set_symbol(t, sym) ==
    LET metadata == ts_language_symbol_metadata(sym)
    IN  [t EXCEPT !.symbol = sym, !.named = metadata.named, !.visible = metadata.visible]

\* The length of the first i children, the padding of the first one apart.
SizeOfFirst(kids, i) ==
    FoldLeft(LAMBDA acc, k : length_add(acc, ts_subtree_total_size(k)),
             kids[1].size, SubSeq(kids, 2, i))

\* The structural index of child i: how many children before it are not extra.
StructuralIndex(kids, i) == Cardinality({j \in 1 .. i - 1 : ~kids[j].extra})

AliasOf(t, i) ==
    IF t.children[i].extra THEN 0
    ELSE ts_language_alias_at(t.production_id, StructuralIndex(t.children, i))

\* What each child adds to the three visible counts of its parent.
VisibleChildren(t, i) ==
    LET k == t.children[i] IN
    IF AliasOf(t, i) # 0 \/ k.visible THEN 1 ELSE k.visible_child_count
NamedChildren(t, i) ==
    LET k == t.children[i]
        alias == AliasOf(t, i)
    IN  IF alias # 0 THEN IF ts_language_symbol_metadata(alias).named THEN 1 ELSE 0
        ELSE IF k.visible THEN IF k.named THEN 1 ELSE 0
        ELSE k.named_child_count
VisibleDescendants(t, i) ==
    t.children[i].visible_descendant_count
        + (IF AliasOf(t, i) # 0 \/ t.children[i].visible THEN 1 ELSE 0)

\* What a child of an error node adds to its cost beyond its own cost.
SkippedTreeCost(k) ==
    IF k.extra \/ (ts_subtree_is_error(k) /\ k.children = << >>) THEN 0
    ELSE ERROR_COST_PER_SKIPPED_TREE
            * (IF k.visible THEN 1 ELSE k.visible_child_count)

SummarizedErrorCost(t, size) ==
    SumOf(LAMBDA k : IF k.symbol = ts_builtin_sym_error_repeat THEN 0
                     ELSE ts_subtree_error_cost(k), t.children)
    + (IF ~IsErrorSymbol(t.symbol) THEN 0
       ELSE SumOf(SkippedTreeCost, t.children) + ERROR_COST_PER_RECOVERY
            + ERROR_COST_PER_SKIPPED_CHAR * size.bytes
            + ERROR_COST_PER_SKIPPED_LINE * size.row)

SummarizedRepeatDepth(t, first, last) ==
    IF Len(t.children) >= 2 /\ ~t.visible /\ ~t.named /\ first.symbol = t.symbol
    THEN 1 + (IF first.repeat_depth > last.repeat_depth THEN first.repeat_depth
                                                       ELSE last.repeat_depth)
    ELSE 0

\* Everything of a node that depends on its children; `sizes` are the lengths of
\* its first children.  The row test for the first child reads the size the node
\* had before.
SummarizeFrom(t, kids, sizes) ==
    LET first == kids[1]
        last == kids[Len(kids)]
        size == sizes[Len(kids)]
        error == AnyOf(ts_subtree_is_error, kids)
        CountOf(f(_, _)) == FoldLeft(LAMBDA acc, i : acc + f(t, i), 0,
                                     [i \in DOMAIN kids |-> i])
    IN  [t EXCEPT
            !.padding = first.padding, !.size = size,
            !.lookahead_bytes =
                Max({sizes[i].bytes + kids[i].lookahead_bytes : i \in DOMAIN kids}) - size.bytes,
            !.error_cost = SummarizedErrorCost(t, size),
            !.parse_state = IF error THEN TS_TREE_STATE_NONE ELSE t.parse_state,
            !.fragile_left = t.fragile_left \/ error \/ first.fragile_left,
            !.fragile_right = t.fragile_right \/ error \/ last.fragile_right,
            !.has_external_tokens = AnyOf(LAMBDA k : k.has_external_tokens, kids),
            !.has_external_scanner_state_change =
                AnyOf(LAMBDA k : k.has_external_scanner_state_change, kids),
            !.depends_on_column =
                \E i \in DOMAIN kids :
                    /\ (IF i = 1 THEN t.size.row ELSE sizes[i - 1].row) = 0
                    /\ kids[i].depends_on_column,
            !.visible_child_count = CountOf(VisibleChildren),
            !.named_child_count = CountOf(NamedChildren),
            !.visible_descendant_count = CountOf(VisibleDescendants),
            !.dynamic_precedence = SumOf(LAMBDA k : k.dynamic_precedence, kids),
            !.repeat_depth = SummarizedRepeatDepth(t, first, last),
            !.first_leaf = [symbol |-> ts_subtree_leaf_symbol(first),
                            parse_state |-> ts_subtree_leaf_parse_state(first)]]

ts_subtree_summarize_children(t) ==
    IF t.children = << >>
    THEN [t EXCEPT !.error_cost = IF IsErrorSymbol(t.symbol)
                                  THEN ERROR_COST_PER_RECOVERY ELSE 0]
    ELSE SummarizeFrom(t, t.children,
                       [i \in DOMAIN t.children |-> SizeOfFirst(t.children, i)])

ts_subtree_new_node(sym, kids, production_id) ==
    ts_subtree_summarize_children(
        [Bare(sym) EXCEPT !.children = kids, !.production_id = production_id,
                          !.fragile_left = IsErrorSymbol(sym),
                          !.fragile_right = IsErrorSymbol(sym)])

ts_subtree_new_error_node(kids, extra) ==
    [ts_subtree_new_node(ts_builtin_sym_error, kids, 0) EXCEPT !.extra = extra]

\* The children without the extras they end with, and those extras.
ts_subtree_array_remove_trailing_extras(kids) ==
    LET keep == CHOOSE n \in 0 .. Len(kids) :
                    /\ n = 0 \/ ~kids[n].extra
                    /\ \A i \in n + 1 .. Len(kids) : kids[i].extra
    IN  [kids |-> SubSeq(kids, 1, keep), extras |-> SubSeq(kids, keep + 1, Len(kids))]

\* The order on trees that resolves ambiguities: symbols, then child counts, in
\* preorder.  The result is -1, 0 or 1.
RECURSIVE ts_subtree_compare(_, _)
ts_subtree_compare(l, r) ==
    CASE l.symbol < r.symbol -> -1
      [] r.symbol < l.symbol -> 1
      [] Len(l.children) < Len(r.children) -> -1
      [] Len(r.children) < Len(l.children) -> 1
      [] OTHER -> LET results == [i \in DOMAIN l.children |->
                                    ts_subtree_compare(l.children[i], r.children[i])]
                      different == SelectSeq(results, LAMBDA x : x # 0)
                  IN  IF different = << >> THEN 0 ELSE different[1]

RECURSIVE ts_subtree_last_external_token(_)
ts_subtree_last_external_token(t) ==
    IF ~t.has_external_tokens THEN NULL_SUBTREE
    ELSE IF t.children = << >> THEN t
    ELSE ts_subtree_last_external_token(
            t.children[CHOOSE i \in DOMAIN t.children :
                         /\ t.children[i].has_external_tokens
                         /\ \A j \in i + 1 .. Len(t.children) :
                                ~t.children[j].has_external_tokens])
=============================================================================
