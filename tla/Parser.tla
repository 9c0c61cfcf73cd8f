-------------------------------- MODULE Parser --------------------------------
(* What the parser does with a token (parser.c, reduce_action.h): shifting,   *)
(* reducing along every path of the stack, accepting, comparing and pruning   *)
(* versions, recovering from errors, and giving up nodes reused from the old  *)
(* tree.  Versions count from 1, 0 is STACK_VERSION_NONE.                     *)
EXTENDS ParserTokens

-----------------------------------------------------------------------------
(* Comparing versions.                                                        *)

ts_parser__compare_versions(a, b) ==
    LET clear(x, y) == (y.cost - x.cost) * (1 + x.node_count) > MAX_COST_DIFFERENCE
    IN  CASE ~a.is_in_error /\ b.is_in_error ->
                IF a.cost < b.cost THEN "TakeLeft" ELSE "PreferLeft"
          [] a.is_in_error /\ ~b.is_in_error ->
                IF b.cost < a.cost THEN "TakeRight" ELSE "PreferRight"
          [] a.is_in_error = b.is_in_error /\ a.cost < b.cost ->
                IF clear(a, b) THEN "TakeLeft" ELSE "PreferLeft"
          [] a.is_in_error = b.is_in_error /\ b.cost < a.cost ->
                IF clear(b, a) THEN "TakeRight" ELSE "PreferRight"
          [] OTHER ->
                CASE a.dynamic_precedence > b.dynamic_precedence -> "PreferLeft"
                  [] a.dynamic_precedence < b.dynamic_precedence -> "PreferRight"
                  [] OTHER -> "None"

\* Computing a status lowers the version's error mark, see LowerErrorMark.
ts_parser__version_status(stk, v) ==
    [cost |-> ts_stack_error_cost(stk, v)
                + (IF ts_stack_is_paused(stk, v) THEN ERROR_COST_PER_SKIPPED_TREE ELSE 0),
     node_count |-> ts_stack_node_count_since_error(stk, v),
     dynamic_precedence |-> ts_stack_dynamic_precedence(stk, v),
     is_in_error |-> ts_stack_is_paused(stk, v) \/ ts_stack_state(stk, v) = ERROR_STATE]

\* Whether a version with this status would be worse than what there is, and
\* the stack with the marks lowered of the versions looked at.
BeatenBy(stk, v, status, i) ==
    LET comparison == ts_parser__compare_versions(status, ts_parser__version_status(stk, i))
    IN  \/ comparison = "TakeRight"
        \/ comparison = "PreferRight" /\ ts_stack_can_merge(stk, i, v)
LookedAt(stk, rivals, better) ==
    [result |-> better # {},
     stack |-> FoldSet(LAMBDA i, s : LowerErrorMark(s, i), stk,
                       {i \in rivals : \A b \in better : i <= b})]
BetterAmong(stk, v, status, rivals) ==
    LookedAt(stk, rivals, {i \in rivals : BeatenBy(stk, v, status, i)})
BetterIn(stk, v, is_in_error, cost) ==
    BetterAmong(stk, v,
        [cost |-> cost, is_in_error |-> is_in_error,
         dynamic_precedence |-> ts_stack_dynamic_precedence(stk, v),
         node_count |-> ts_stack_node_count_since_error(stk, v)],
        {i \in DOMAIN stk.heads :
            /\ i # v /\ ts_stack_is_active(stk, i)
            /\ ts_stack_position(stk, i).bytes >= ts_stack_position(stk, v).bytes})
ts_parser__better_version_exists(self, v, is_in_error, cost) ==
    IF ~IsNull(self.finished_tree) /\ ts_subtree_error_cost(self.finished_tree) <= cost
    THEN [result |-> TRUE, stack |-> self.stack]
    ELSE BetterIn(LowerErrorMark(self.stack, v), v, is_in_error, cost)

ts_parser__select_tree(left, right) ==
    LET l == ts_subtree_error_cost(left)
        r == ts_subtree_error_cost(right)
    IN  IF l # r THEN r < l
        ELSE IF left.dynamic_precedence # right.dynamic_precedence
        THEN right.dynamic_precedence > left.dynamic_precedence
        ELSE l > 0 \/ ts_subtree_compare(left, right) = 1

ts_parser__select_children(left, kids) ==
    ts_parser__select_tree(left, ts_subtree_new_node(left.symbol, kids, 0))

-----------------------------------------------------------------------------
(* Giving up reused nodes.                                                    *)

PushAll(stk, v, trees, state) ==
    FoldLeft(LAMBDA s, t : ts_stack_push(s, v, t, FALSE, state), stk, trees)

\* Mutant of ts_parser__breakdown_top_of_stack: it always claims to have done so.
BreakdownClaimed(stk, v) == [stack |-> stk, did |-> TRUE]

\* Replaces a reused parent by its children, in the states they lead to.
PushChildren(stk, v, parent) ==
    FoldLeft(LAMBDA s, child :
                ts_stack_push(s, v, child, child.children # << >>,
                    CASE ts_subtree_is_error(child) -> ERROR_STATE
                      [] child.extra -> ts_stack_state(s, v)
                      [] OTHER -> ts_language_next_state(ts_stack_state(s, v), child.symbol)),
             stk, parent.children)

\* The siblings that stood above the parent go above its children.
PushSiblings(stk, slice) ==
    PushAll(stk, slice.version, Tail(slice.subtrees), ts_stack_state(stk, slice.version))
PushSlice(stk, slice) ==
    PushSiblings(PushChildren(stk, slice.version, slice.subtrees[1]), slice)

\* The last child of the last slice decides whether to go on.
RECURSIVE ts_parser__breakdown_top_of_stack(_, _)
BreakdownSlices(stk, v, pop) ==
    LET kids == Last(pop.slices).subtrees[1].children
        broken == FoldLeft(PushSlice, pop.stk, pop.slices)
    IN  IF pop.slices = << >> THEN [stack |-> stk, did |-> FALSE]
        ELSE IF kids # << >> /\ Last(kids).children # << >>
        THEN [ts_parser__breakdown_top_of_stack(broken, v) EXCEPT !.did = TRUE]
        ELSE [stack |-> broken, did |-> TRUE]
ts_parser__breakdown_top_of_stack(stk, v) ==
    BreakdownSlices(stk, v, ts_stack_pop_pending(stk, v))

\* Mutant of ts_parser__breakdown_lookahead: the state is not compared.
LookaheadWhole(r, state) == r

\* Descends to the first node that was parsed in this state.
RECURSIVE ts_parser__breakdown_lookahead(_, _)
ts_parser__breakdown_lookahead(r, state) ==
    LET tree == reusable_node_tree(r)
    IN  IF tree.children # << >> /\ tree.parse_state # state
        THEN ts_parser__breakdown_lookahead(reusable_node_descend(r), state) ELSE r

\* Mutant of CantReuse: changed nodes are reused.
CantReuseUnlessBroken(t) == ts_subtree_is_error(t) \/ t.is_missing \/ ts_subtree_is_fragile(t)

CantReuse(t) ==
    t.has_changes \/ ts_subtree_is_error(t) \/ t.is_missing \/ ts_subtree_is_fragile(t)

\* The next node of the old tree that can stand at the version's position.
RECURSIVE ts_parser__reuse_node(_, _)
ts_parser__reuse_node(self, v) ==
    LET r == self.reusable_node
        t == reusable_node_tree(r)
        state == ts_stack_state(self.stack, v)
        position == ts_stack_position(self.stack, v).bytes
        offset == reusable_node_byte_offset(r)
        end == IF ts_subtree_is_eof(t) THEN UINT32_MAX ELSE offset + ts_subtree_total_bytes(t)
        entry == ts_language_table_entry(state, ts_subtree_leaf_symbol(t))
        Again(r2) == ts_parser__reuse_node([self EXCEPT !.reusable_node = r2], v)
        nothing == [self |-> self, lookahead |-> NULL_SUBTREE]
    IN  IF IsNull(t) \/ offset > position THEN nothing
        ELSE IF offset < position
        THEN Again(IF end <= position \/ ~CanDescend(r) THEN reusable_node_advance(r)
                                                        ELSE reusable_node_descend(r))
        ELSE IF ~ts_subtree_external_scanner_state_eq(
                    r.last_external_token, ts_stack_last_external_token(self.stack, v))
        THEN Again(reusable_node_advance(r))
        ELSE IF CantReuse(t)
        THEN IF CanDescend(r) THEN Again(reusable_node_descend(r))
             ELSE ts_parser__reuse_node(
                    [self EXCEPT !.reusable_node = reusable_node_advance(r),
                                 !.stack = ts_parser__breakdown_top_of_stack(@, v).stack], v)
        ELSE IF ~ts_parser__can_reuse_first_leaf(state, t, entry)
        THEN [nothing EXCEPT !.self.reusable_node = reusable_node_advance_past_leaf(r)]
        ELSE [nothing EXCEPT !.lookahead = t]

-----------------------------------------------------------------------------
(* Shifting, reducing, accepting.                                             *)

SetExternalToken(stk, v, t) ==
    IF t.has_external_tokens
    THEN ts_stack_set_last_external_token(stk, v, ts_subtree_last_external_token(t)) ELSE stk

ts_parser__shift(stk, v, state, lookahead, extra) ==
    LET leaf == lookahead.children = << >>
        t == IF leaf THEN [lookahead EXCEPT !.extra = extra] ELSE lookahead
    IN  SetExternalToken(ts_stack_push(stk, v, t, ~leaf, state), v, t)

\* The slices of `slices` that belong to one version, from index i on: those
\* of a version are next to each other.
SameVersion(slices, i) ==
    SelectSeq(SubSeq(slices, i, Len(slices)), LAMBDA s : s.version = slices[i].version)

\* The parent made of the best of several child lists, with the extras that
\* follow it.
ParentOfSplit(symbol, production_id, split) ==
    [tree |-> ts_subtree_new_node(symbol, split.kids, production_id), extras |-> split.extras]
BetterParent(best, split, production_id) ==
    IF ts_parser__select_children(best.tree, split.kids)
    THEN ParentOfSplit(best.tree.symbol, production_id, split) ELSE best
SplitSlice(slice) == ts_subtree_array_remove_trailing_extras(slice.subtrees)
BestParent(symbol, production_id, group) ==
    FoldLeft(LAMBDA best, slice : BetterParent(best, SplitSlice(slice), production_id),
             ParentOfSplit(symbol, production_id, SplitSlice(group[1])), Tail(group))

\* Merges version v into the first earlier one, other than `except`, that it
\* can merge with.
MergeEarlier(stk, v, except) ==
    LET targets == {j \in 1 .. v - 1 : j # except /\ ts_stack_can_merge(stk, j, v)}
    IN  IF targets = {} THEN [stack |-> stk, merged |-> 0]
        ELSE [stack |-> ts_stack_merge(stk, Min(targets), v), merged |-> 1]

\* `r` is the reduction: its version, symbol and flags, and the slices popped.
PushInState(stk, v, r, best, state, next_state) ==
    LET fragile == r.fragile \/ Len(r.slices) > 1 \/ r.initial_version_count > 1
        parent == [best.tree EXCEPT
                    !.extra = r.end_of_non_terminal_extra /\ next_state = state,
                    !.fragile_left = @ \/ fragile, !.fragile_right = @ \/ fragile,
                    !.parse_state = IF fragile THEN TS_TREE_STATE_NONE ELSE state,
                    !.dynamic_precedence = @ + r.action.dynamic_precedence]
    IN  PushAll(ts_stack_push(stk, v, parent, FALSE, next_state), v, best.extras, next_state)
PushParent(stk, v, r, group) ==
    PushInState(stk, v, r, BestParent(r.action.symbol, r.action.production_id, group),
                ts_stack_state(stk, v),
                ts_language_next_state(ts_stack_state(stk, v), r.action.symbol))

\* The slices from index i on; `removed` versions before them are gone.
RECURSIVE ReduceSlices(_, _, _, _)
ReduceMerged(merge, r, next, removed) ==
    ReduceSlices(merge.stack, r, next, removed + merge.merged)
ReduceGroup(stk, v, r, group, next, removed) ==
    IF v - 1 > MAX_VERSION_COUNT + MAX_VERSION_COUNT_OVERFLOW
    THEN ReduceSlices(ts_stack_remove_version(stk, v), r, next, removed + 1)
    ELSE ReduceMerged(MergeEarlier(PushParent(stk, v, r, group), v, r.version),
                      r, next, removed)
ReduceSlices(stk, r, i, removed) ==
    IF i > Len(r.slices) THEN stk
    ELSE LET group == SameVersion(r.slices, i) IN
         ReduceGroup(stk, r.slices[i].version - removed, r, group, i + Len(group), removed)

\* The stack after the reduction, and the first version it created.
Reduced(stk, count) ==
    [stack |-> stk, version |-> IF ts_stack_version_count(stk) > count THEN count + 1 ELSE 0]
ReducePopped(pop, v, action, is_fragile, end_of_non_terminal_extra, count) ==
    Reduced(ReduceSlices(pop.stk,
                [version |-> v, action |-> action, slices |-> pop.slices,
                 fragile |-> is_fragile, initial_version_count |-> count,
                 end_of_non_terminal_extra |-> end_of_non_terminal_extra], 1, 0), count)
ts_parser__reduce(stk, v, action, is_fragile, end_of_non_terminal_extra) ==
    ReducePopped(ts_stack_pop_count(stk, v, action.child_count), v, action, is_fragile,
                 end_of_non_terminal_extra, ts_stack_version_count(stk))

\* Mutant of RootOf: the search stops one tree early.
RootOfStopsEarly(trees) ==
    LET j == Max({0} \cup {i \in 2 .. Len(trees) : ~trees[i].extra})
    IN  IF j = 0 THEN NULL_SUBTREE ELSE trees[j]

\* The children of the last tree that is not extra move up beside the others.
RootOf(trees) ==
    LET j == Max({0} \cup {i \in DOMAIN trees : ~trees[i].extra})
        tree == trees[j]
    IN  IF j = 0 THEN NULL_SUBTREE
        ELSE ts_subtree_new_node(tree.symbol,
                SubSeq(trees, 1, j - 1) \o tree.children \o SubSeq(trees, j + 1, Len(trees)),
                tree.production_id)

TakeRoot(self, root) ==
    [ts_assert(self, ~IsNull(root)) EXCEPT
        !.accept_count = @ + 1,
        !.finished_tree = IF IsNull(@) \/ ts_parser__select_tree(@, root) THEN root ELSE @]
AcceptPopped(self, v, pop) ==
    [FoldLeft(LAMBDA p, slice : TakeRoot(p, RootOf(slice.subtrees)), self, pop.slices)
        EXCEPT !.stack = ts_stack_halt(
                            ts_stack_remove_version(pop.stk, pop.slices[1].version), v)]
ts_parser__accept(self, v, lookahead) ==
    AcceptPopped(ts_assert(self, ts_subtree_is_eof(lookahead)), v,
        ts_stack_pop_all(ts_stack_push(self.stack, v, lookahead, FALSE, START_STATE), v))

-----------------------------------------------------------------------------
(* Error recovery.                                                            *)

\* The reductions a state allows before any of the symbols, one of each symbol
\* and child count.
ts_reduce_action_set_add(set, action) ==
    IF \E i \in DOMAIN set : set[i].symbol = action.symbol
                            /\ set[i].child_count = action.child_count
    THEN set ELSE Append(set, action)

ReduceActions(state, symbols) ==
    LET all == FlattenSeq([i \in DOMAIN symbols |-> ts_language_actions(state, symbols[i])])
        reduces == SelectSeq(all, LAMBDA a : a.type = "Reduce" /\ a.child_count > 0)
    IN  FoldLeft(ts_reduce_action_set_add, << >>, reduces)

HasShiftAction(state, symbols) ==
    \E i \in DOMAIN symbols :
        LET actions == ts_language_actions(state, symbols[i]) IN
        \E j \in DOMAIN actions :
            \/ actions[j].type = "Shift" /\ ~actions[j].extra /\ ~actions[j].repetition
            \/ actions[j].type = "Recover"

\* `d` holds the loop's variables: the starting version and the number of
\* versions at the start, the version in turn, the rounds, what was found.
RECURSIVE PotentialReductions(_, _, _)
AfterReductions(reduced, symbols, d, count, shifts) ==
    LET v == d.version
        again == [d EXCEPT !.round = @ + 1]
        next == [again EXCEPT !.version = IF v = d.start THEN count + 1 ELSE v + 1,
                              !.can_shift = @ \/ shifts]
    IN  IF shifts THEN PotentialReductions(reduced.stack, symbols, next)
        ELSE IF reduced.version # 0 /\ d.round < MAX_VERSION_COUNT
        THEN PotentialReductions(
                ts_stack_renumber_version(reduced.stack, reduced.version, v), symbols, again)
        ELSE PotentialReductions(IF d.any THEN reduced.stack
                                 ELSE ts_stack_remove_version(reduced.stack, v), symbols, next)
ReduceAll(stk, v, actions) ==
    FoldLeft(LAMBDA acc, a : ts_parser__reduce(acc.stack, v, a, TRUE, FALSE),
             [stack |-> stk, version |-> 0], actions)
ReduceOrMerge(stk, symbols, d, targets, state) ==
    IF targets # {}
    THEN PotentialReductions(ts_stack_merge(stk, Min(targets), d.version), symbols,
                             [d EXCEPT !.round = @ + 1])
    ELSE AfterReductions(ReduceAll(stk, d.version, ReduceActions(state, symbols)), symbols, d,
                         ts_stack_version_count(stk), HasShiftAction(state, symbols))
PotentialReductions(stk, symbols, d) ==
    IF d.version > ts_stack_version_count(stk) THEN [stack |-> stk, can_shift |-> d.can_shift]
    ELSE ReduceOrMerge(stk, symbols, d,
            {j \in d.initial + 1 .. d.version - 1 : ts_stack_can_merge(stk, j, d.version)},
            ts_stack_state(stk, d.version))

\* Symbol 0 stands for every token.
ts_parser__do_all_potential_reductions(stk, v, sym) ==
    PotentialReductions(stk, IF sym = 0 THEN [i \in 1 .. Lang.token_count - 1 |-> i] ELSE << sym >>,
        [start |-> v, initial |-> ts_stack_version_count(stk), version |-> v, round |-> 0,
         any |-> sym = 0, can_shift |-> FALSE])

\* Pops `depth` trees and wraps what was popped, with the error below it, in an
\* error node above the goal state.
PushWrapped(stk, w, split, goal_state) ==
    PushAll(IF split.kids = << >> THEN stk
            ELSE ts_stack_push(stk, w, ts_subtree_new_error_node(split.kids, TRUE), FALSE,
                               goal_state),
            w, split.extras, goal_state)
WrapWith(self, slice, error, goal_state) ==
    LET below == IF error.subtrees = << >> THEN << >> ELSE error.subtrees[1].children IN
    [previous |-> slice.version,
     self |-> [ts_assert(self, Len(error.subtrees) <= 1) EXCEPT
                 !.stack = PushWrapped(error.stk, slice.version,
                     ts_subtree_array_remove_trailing_extras(below \o slice.subtrees),
                     goal_state)]]
WrapSlice(acc, slice, goal_state) ==
    IF slice.version = acc.previous THEN acc
    ELSE IF ts_stack_state(acc.self.stack, slice.version) # goal_state
    THEN [acc EXCEPT !.self.stack = ts_stack_halt(@, slice.version)]
    ELSE WrapWith(acc.self, slice, ts_stack_pop_error(acc.self.stack, slice.version), goal_state)
WrapSlices(self, pop, goal_state) ==
    FoldLeft(LAMBDA acc, slice : WrapSlice(acc, slice, goal_state),
             [self |-> [self EXCEPT !.stack = pop.stk], previous |-> 0], pop.slices)
ts_parser__recover_to_state(self, v, depth, goal_state) ==
    WrapSlices(self, ts_stack_pop_count(self.stack, v, depth), goal_state)

\* Strategy 1: tries the entries of the summary from index i on.  One was
\* recovered to when some slice was wrapped.
RECURSIVE RecoverToPrevious(_, _, _, _, _)
UnlessRecovered(back, v, lookahead, at, i) ==
    IF back.previous # 0 THEN [self |-> back.self, recovered |-> TRUE]
    ELSE RecoverToPrevious(back.self, v, lookahead, at, i + 1)
TryEntry(self, v, lookahead, at, i, better) ==
    LET entry == at.summary[i]
        depth == entry.depth + (IF at.node_count > 0 THEN 1 ELSE 0)
        looked == [self EXCEPT !.stack = better.stack]
    IN  IF better.result THEN [self |-> looked, recovered |-> FALSE]
        ELSE IF ~ts_language_has_actions(entry.state, lookahead.symbol)
        THEN RecoverToPrevious(looked, v, lookahead, at, i + 1)
        ELSE UnlessRecovered(ts_parser__recover_to_state(looked, v, depth, entry.state),
                             v, lookahead, at, i)
RecoverToPrevious(self, v, lookahead, at, i) ==
    IF i > Len(at.summary) THEN [self |-> self, recovered |-> FALSE]
    ELSE
    LET entry == at.summary[i]
        would_merge == \E j \in 1 .. at.version_count :
                          /\ ts_stack_state(self.stack, j) = entry.state
                          /\ ts_stack_position(self.stack, j).bytes = at.position.bytes
        skip == \/ entry.state = ERROR_STATE
                \/ entry.position.bytes = at.position.bytes
                \/ would_merge
        new_cost == at.cost + entry.depth * ERROR_COST_PER_SKIPPED_TREE
                    + (at.position.bytes - entry.position.bytes) * ERROR_COST_PER_SKIPPED_CHAR
                    + (at.position.row - entry.position.row) * ERROR_COST_PER_SKIPPED_LINE
    IN  IF skip THEN RecoverToPrevious(self, v, lookahead, at, i + 1)
        ELSE TryEntry(self, v, lookahead, at, i,
                      ts_parser__better_version_exists(self, v, FALSE, new_cost))

\* Keeps the versions up to `count` and the active ones after them.
RemoveInactiveAfter(stk, count) ==
    FoldRight(LAMBDA i, s : IF ts_stack_is_active(s, i) THEN s ELSE ts_stack_remove_version(s, i),
              [k \in 1 .. ts_stack_version_count(stk) - count |-> count + k], stk)

\* Strategy 2: skips the lookahead, joining it to what was skipped before.
RemoveVersionsAfter(stk, kept) ==
    FoldLeft(LAMBDA s, i : ts_stack_remove_version(s, kept + 1), stk,
             [i \in 1 .. ts_stack_version_count(stk) - kept |-> i])
JoinRepeat(pop, v, repeat) ==
    ts_stack_push(
        ts_stack_renumber_version(
            IF Len(pop.slices) > 1 THEN RemoveVersionsAfter(pop.stk, pop.slices[1].version)
            ELSE pop.stk, pop.slices[1].version, v),
        v, ts_subtree_new_node(ts_builtin_sym_error_repeat,
                               Append(pop.slices[1].subtrees, repeat), 0),
        FALSE, ERROR_STATE)
PushRepeat(stk, v, repeat, node_count) ==
    IF node_count > 0 THEN JoinRepeat(ts_stack_pop_count(stk, v, 1), v, repeat)
    ELSE ts_stack_push(stk, v, repeat, FALSE, ERROR_STATE)
SkipLookahead(stk, v, lookahead, node_count) ==
    LET actions == ts_language_actions(START_STATE, lookahead.symbol)
        extra == actions # << >> /\ Last(actions).type = "Shift" /\ Last(actions).extra
        token == IF extra THEN [lookahead EXCEPT !.extra = TRUE] ELSE lookahead
    IN  SetExternalToken(
            PushRepeat(stk, v, ts_subtree_new_node(ts_builtin_sym_error_repeat, << token >>, 0),
                       node_count), v, token)

SkipOrHalt(self, v, lookahead, at, better) ==
    [self EXCEPT !.stack = IF better.result THEN ts_stack_halt(better.stack, v)
                           ELSE SkipLookahead(better.stack, v, lookahead, at.node_count)]
RecoverAfter(self, v, lookahead, at, recovered) ==
    LET new_cost == at.cost + ERROR_COST_PER_SKIPPED_TREE
                    + ts_subtree_total_bytes(lookahead) * ERROR_COST_PER_SKIPPED_CHAR
                    + ts_subtree_total_size(lookahead).row * ERROR_COST_PER_SKIPPED_LINE
    IN  IF recovered /\ (\/ ts_stack_version_count(self.stack) > MAX_VERSION_COUNT
                         \/ lookahead.has_external_scanner_state_change)
        THEN [self EXCEPT !.stack = ts_stack_halt(@, v)]
        ELSE IF ts_subtree_is_eof(lookahead)
        THEN ts_parser__accept(
                [self EXCEPT !.stack = ts_stack_push(@, v, ts_subtree_new_error_node(<< >>, FALSE),
                                                     FALSE, START_STATE)], v, lookahead)
        ELSE SkipOrHalt(self, v, lookahead, at,
                        ts_parser__better_version_exists(self, v, FALSE, new_cost))
RecoverBack(back, v, lookahead, at) ==
    RecoverAfter([back.self EXCEPT !.stack = RemoveInactiveAfter(@, at.version_count)],
                 v, lookahead, at, back.recovered)
RecoverAt(self, v, lookahead, at) ==
    RecoverBack(RecoverToPrevious(self, v, lookahead, at, 1), v, lookahead, at)
RecoverMarked(self, v, lookahead) ==
    LET summary == ts_stack_get_summary(self.stack, v) IN
    RecoverAt(self, v, lookahead,
        [version_count |-> ts_stack_version_count(self.stack),
         position |-> ts_stack_position(self.stack, v),
         summary |-> IF IsNull(summary) \/ ts_subtree_is_error(lookahead)
                     THEN << >> ELSE summary.entries,
         node_count |-> ts_stack_node_count_since_error(self.stack, v),
         cost |-> ts_stack_error_cost(self.stack, v)])
ts_parser__recover(self, v, lookahead) ==
    RecoverMarked([self EXCEPT !.stack = LowerErrorMark(@, v)], v, lookahead)

\* Whether, with this token inserted in this state, the lookahead would allow
\* a reduction.
MissingTokenHelps(state, sym, lookahead) ==
    LET after == ts_language_next_state(state, sym)
    IN  /\ after # 0 /\ after # state
        /\ ts_language_has_reduce_action(after, ts_subtree_leaf_symbol(lookahead))

\* Tries to insert a missing token above version v, the smallest that works.
TryOnCopy(stk, v, sym, lookahead) ==
    ts_parser__do_all_potential_reductions(
        ts_stack_push(stk, ts_stack_version_count(stk),
            ts_subtree_new_missing_leaf(sym, length_zero,
                ts_subtree_total_bytes(lookahead) + lookahead.lookahead_bytes),
            FALSE, ts_language_next_state(ts_stack_state(stk, v), sym)),
        ts_stack_version_count(stk), ts_subtree_leaf_symbol(lookahead))
TryMissing(acc, v, sym, lookahead) ==
    IF acc.can_shift \/ ~MissingTokenHelps(ts_stack_state(acc.stack, v), sym, lookahead) THEN acc
    ELSE TryOnCopy(ts_stack_copy_version(acc.stack, v), v, sym, lookahead)
InsertMissing(acc, v, lookahead) ==
    FoldLeft(LAMBDA a, sym : TryMissing(a, v, sym, lookahead), acc,
             [sym \in 1 .. Lang.token_count - 1 |-> sym])

\* The versions that all reductions lead to, those after the first `previous`, are
\* put in the error state and merged; recovery starts with the lookahead at hand.
Discontinue(acc, w, lookahead) ==
    [InsertMissing(acc, w, lookahead)
        EXCEPT !.stack = ts_stack_push(@, w, NULL_SUBTREE, FALSE, ERROR_STATE)]
DiscontinueAll(stk, v, previous, lookahead) ==
    FoldLeft(LAMBDA acc, w : Discontinue(acc, w, lookahead), [stack |-> stk, can_shift |-> FALSE],
             << v >> \o [i \in 1 .. ts_stack_version_count(stk) - previous |-> previous + i]).stack
JoinNext(acc, v, w) == [stack |-> ts_stack_merge(acc.stack, v, w),
                        ok |-> acc.ok /\ ts_stack_can_merge(acc.stack, v, w)]
JoinAll(stk, v, previous, count) ==
    FoldLeft(LAMBDA acc, i : JoinNext(acc, v, previous + 1), [stack |-> stk, ok |-> TRUE],
             [i \in 1 .. count - previous |-> i])
BreakAndJoin(stk, v, previous, lookahead) ==
    JoinAll(DiscontinueAll(stk, v, previous, lookahead), v, previous,
            ts_stack_version_count(stk))
RecoverJoined(self, v, lookahead, joined, node) ==
    LET whole == lookahead.children = << >> IN
    ts_parser__recover(
        [ts_assert(self, joined.ok) EXCEPT
            !.stack = ts_stack_record_summary(joined.stack, v, MAX_SUMMARY_DEPTH),
            !.reusable_node = IF whole THEN @ ELSE node],
        v, IF whole THEN lookahead ELSE reusable_node_tree(node))
ts_parser__handle_error(self, v, lookahead) ==
    RecoverJoined(self, v, lookahead,
        BreakAndJoin(ts_parser__do_all_potential_reductions(self.stack, v, 0).stack, v,
                     ts_stack_version_count(self.stack), lookahead),
        ts_parser__breakdown_lookahead(self.reusable_node, ERROR_STATE))

-----------------------------------------------------------------------------
(* The loops that keep the versions in order and in number.  `c` is the scan: *)
(* version i in turn with its status, the rival j, the least cost seen.       *)

RECURSIVE CompareWithEarlier(_, _, _, _)
CompareLowered(stk, i, j, status, order) ==
    IF order = "TakeLeft" THEN [stack |-> ts_stack_remove_version(stk, i), next |-> i]
    ELSE IF order = "TakeRight"
    THEN CompareWithEarlier(ts_stack_remove_version(stk, j), i - 1, j, status)
    ELSE IF ts_stack_can_merge(stk, j, i) THEN [stack |-> ts_stack_merge(stk, j, i), next |-> i]
    ELSE CompareWithEarlier(IF order = "PreferRight" THEN ts_stack_swap_versions(stk, i, j)
                            ELSE stk, i, j + 1, status)
CompareWithEarlier(stk, i, j, status) ==
    IF j >= i THEN [stack |-> stk, next |-> i + 1]
    ELSE LET lowered == LowerErrorMark(stk, j) IN
         CompareLowered(lowered, i, j, status,
            ts_parser__compare_versions(ts_parser__version_status(lowered, j), status))

RECURSIVE SortVersions(_, _, _)
SortOn(compared, min_cost) == SortVersions(compared.stack, compared.next, min_cost)
SortVersion(stk, i, status, min_cost) ==
    SortOn(CompareWithEarlier(stk, i, 1, status),
           IF status.is_in_error THEN min_cost ELSE Min({min_cost, status.cost}))
SortVersions(stk, i, min_cost) ==
    IF i > ts_stack_version_count(stk) THEN [stack |-> stk, min_cost |-> min_cost]
    ELSE IF ts_stack_is_halted(stk, i)
    THEN SortVersions(ts_stack_remove_version(stk, i), i, min_cost)
    ELSE LET lowered == LowerErrorMark(stk, i) IN
         SortVersion(lowered, i, ts_parser__version_status(lowered, i), min_cost)

\* The best paused version goes on when none before it does; the others go.
RECURSIVE ResumeVersions(_, _, _, _, _)
ResumeVersions(self, i, n, unpaused, min_cost) ==
    IF i > n THEN [self |-> self, min_cost |-> min_cost]
    ELSE IF ~ts_stack_is_paused(self.stack, i)
    THEN ResumeVersions(self, i + 1, n, TRUE, min_cost)
    ELSE IF ~unpaused /\ self.accept_count < MAX_VERSION_COUNT
    THEN ResumeVersions(
            ts_parser__handle_error([self EXCEPT !.stack = ts_stack_resume(@, i)], i,
                                    self.stack.heads[i].lookahead_when_paused),
            i + 1, n, TRUE, ts_stack_error_cost(self.stack, i))
    ELSE ResumeVersions([self EXCEPT !.stack = ts_stack_remove_version(@, i)], i, n - 1,
                        unpaused, min_cost)

CondenseTo(self, stk, min_cost) ==
    ResumeVersions([self EXCEPT !.stack = stk], 1, ts_stack_version_count(stk), FALSE, min_cost)
CondenseSorted(self, sorted) ==
    CondenseTo(self, RemoveVersionsAfter(sorted.stack, MAX_VERSION_COUNT), sorted.min_cost)
ts_parser__condense_stack(self) ==
    CondenseSorted(self, SortVersions(self.stack, 1, UINT32_MAX))

-----------------------------------------------------------------------------
(* One round of ts_parser__advance.  `c` holds its variables and the outcome: *)
(* "more" rounds, or the version is "done" with this token.                   *)

ts_parser_has_outstanding_parse(self) ==
    \/ self.external_scanner_payload
    \/ ts_stack_state(self.stack, 1) # START_STATE
    \/ ts_stack_node_count_since_error(self.stack, 1) # 0

\* Where the first token comes from.
FirstToken(self, state, position, token, did_reuse) ==
    [self |-> self,
     c |-> [lookahead |-> token, did_reuse |-> did_reuse, needs_lex |-> IsNull(token),
            state |-> state, position |-> position,
            entry |-> IF IsNull(token) THEN NoEntry
                      ELSE ts_language_table_entry(state, ts_subtree_leaf_symbol(token))]]
ReuseOrCached(self, v, lookahead, external_token, position) ==
    LET state == ts_stack_state(self.stack, v)
        did_reuse == ~IsNull(lookahead)
    IN  FirstToken(self, state, position,
                   IF did_reuse THEN lookahead
                   ELSE ts_parser__get_cached_token(self, state, position, external_token),
                   did_reuse)
\* Position and last external token are those before the old tree is looked at.
AfterReuse(reuse, v, before) ==
    ReuseOrCached(reuse.self, v, reuse.lookahead, ts_stack_last_external_token(before, v),
                  ts_stack_position(before, v).bytes)
FirstLookahead(self, v, allow_node_reuse) ==
    AfterReuse(IF allow_node_reuse THEN ts_parser__reuse_node(self, v)
               ELSE [self |-> self, lookahead |-> NULL_SUBTREE], v, self.stack)

\* Runs the lexer when there is no token; a null token ends an extra rule.
WithToken(self, v, c, leaf) ==
    [self |-> IF IsNull(leaf) THEN self
              ELSE ts_parser__set_cached_token(self, c.position,
                       ts_stack_last_external_token(self.stack, v), leaf),
     c |-> [c EXCEPT !.needs_lex = FALSE, !.lookahead = leaf,
                     !.entry = ts_language_table_entry(c.state,
                         IF IsNull(leaf) THEN ts_builtin_sym_end ELSE leaf.symbol)]]
LexIfNeeded(self, v, c) ==
    IF c.needs_lex THEN WithToken(self, v, c, ts_parser__lex(self, v, c.state))
    ELSE [self |-> self, c |-> c]

AdvanceReusable(self, c) ==
    IF c.did_reuse THEN [self EXCEPT !.reusable_node = reusable_node_advance(@)] ELSE self

\* A reused lookahead is broken down to the part that fits the state.
BreakDown(self, c, state) ==
    IF c.lookahead.children = << >> THEN [self |-> self, t |-> c.lookahead]
    ELSE LET r == ts_parser__breakdown_lookahead(self.reusable_node, state)
         IN  [self |-> [self EXCEPT !.reusable_node = r], t |-> reusable_node_tree(r)]

\* The token is shifted, or skipped by the recovery, and its node is left behind.
ShiftToken(down, v, c, action) ==
    LET next_state == IF c.lookahead.children # << >>
                      THEN ts_language_next_state(c.state, down.t.symbol)
                      ELSE IF action.extra THEN c.state ELSE action.state
    IN  AdvanceReusable([down.self EXCEPT !.stack =
                            ts_parser__shift(@, v, next_state, down.t, action.extra)], c)
RecoverToken(down, v, c) == AdvanceReusable(ts_parser__recover(down.self, v, down.t), c)
Consumed(self) == [self |-> self, last |-> 0, outcome |-> "done"]

\* The actions of the entry from index i on; `last` is the last reduction's version.
RECURSIVE DoActions(_, _, _, _, _)
AfterReduce(self, v, c, i, last, reduced) ==
    DoActions([self EXCEPT !.stack = reduced.stack], v, c, i + 1,
              IF reduced.version # 0 THEN reduced.version ELSE last)
DoActions(self, v, c, i, last) ==
    IF i > Len(c.entry.actions) THEN [self |-> self, last |-> last, outcome |-> "more"]
    ELSE LET action == c.entry.actions[i] IN
         CASE action.type = "Shift" ->
                IF action.repetition THEN DoActions(self, v, c, i + 1, last)
                ELSE Consumed(ShiftToken(BreakDown(self, c, c.state), v, c, action))
           [] action.type = "Reduce" ->
                AfterReduce(self, v, c, i, last,
                            ts_parser__reduce(self.stack, v, action, Len(c.entry.actions) > 1,
                                              IsNull(c.lookahead)))
           [] action.type = "Accept" -> Consumed(ts_parser__accept(self, v, c.lookahead))
           [] action.type = "Recover" ->
                Consumed(RecoverToken(BreakDown(self, c, ERROR_STATE), v, c))

\* What follows when no action consumed the token.
Done(self, c) == [self |-> self, c |-> c, outcome |-> "done"]
More(self, c) == [self |-> self, c |-> c, outcome |-> "more"]
\* A reduction leaves the version in another state, with the same token.
MoreInState(self, c, state) ==
    More(self, IF IsNull(c.lookahead) THEN [c EXCEPT !.state = state, !.needs_lex = TRUE]
               ELSE [c EXCEPT !.state = state, !.entry = ts_language_table_entry(
                        state, ts_subtree_leaf_symbol(c.lookahead))])
MoreAfterReduce(self, v, c) == MoreInState(self, c, ts_stack_state(self.stack, v))
\* Reused nodes on the stack are given up, else the version waits for recovery.
MoreOrPause(self, v, c, broken) ==
    IF broken.did
    THEN More([self EXCEPT !.stack = broken.stack],
              [c EXCEPT !.state = ts_stack_state(broken.stack, v), !.needs_lex = TRUE])
    ELSE Done([self EXCEPT !.stack = ts_stack_pause(@, v, c.lookahead)], c)
AfterActions(self, v, c, last) ==
    LET word == Lang.keyword_capture_token
        word_entry == ts_language_table_entry(c.state, word)
    IN  IF last # 0
        THEN MoreAfterReduce([self EXCEPT !.stack = ts_stack_renumber_version(@, last, v)], v, c)
        ELSE IF IsNull(c.lookahead) THEN Done([self EXCEPT !.stack = ts_stack_halt(@, v)], c)
        ELSE IF c.lookahead.is_keyword /\ c.lookahead.symbol # word /\ word_entry.actions # << >>
        THEN More(self, [c EXCEPT !.entry = word_entry,
                                  !.lookahead = ts_subtree_set_symbol(@, word)])
        ELSE IF c.state = ERROR_STATE
        THEN Done(ts_parser__recover(self, v, c.lookahead), c)
        ELSE MoreOrPause(self, v, c, ts_parser__breakdown_top_of_stack(self.stack, v))

AfterAll(acted, v, c) ==
    IF acted.outcome = "done" THEN Done(acted.self, c)
    ELSE AfterActions(acted.self, v, c, acted.last)
ts_parser__advance(self, v, c) == AfterAll(DoActions(self, v, c, 1, 0), v, c)
=============================================================================
