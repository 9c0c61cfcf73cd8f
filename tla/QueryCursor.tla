----------------------------- MODULE QueryCursor -----------------------------
(* How a query is run (query.c): the cursor walks over the tree and keeps a   *)
(* list of states, the matches in progress.  Each state has its own list of   *)
(* captures, taken from a pool whose size may be limited.                     *)
(*                                                                            *)
(* A cursor is a record with the fields of TSQueryCursor.  Its start and end  *)
(* have bytes and points of their own.  `base` is the place of the node it    *)
(* was started at, `did_match` the variable of that name in the loop that     *)
(* advances it, and `checks` how often the clock will still be found to be    *)
(* before the deadline.                                                       *)
EXTENDS TreeCursor, Query, Node

CONSTANT OP_COUNT_PER_QUERY_TIMEOUT_CHECK      \* 100 in the code

ID_MOD == 65536          \* a list's number has 16 bits
NONE == ID_MOD - 1
NO_ID == UINT32_MAX
NO_DEADLINE == -1

-----------------------------------------------------------------------------
(* The pool of capture lists.                                                 *)

capture_list_pool_new == [lists |-> << >>, free |-> 0, max |-> UINT32_MAX]

Unused == [used |-> FALSE, captures |-> << >>]
Cleared == [used |-> TRUE, captures |-> << >>]

capture_list_pool_reset(pool) ==
    [pool EXCEPT !.lists = MapIndices(@, LAMBDA i : Unused), !.free = Len(pool.lists)]

\* Lists are numbered from 0; a number without a list stands for an empty one.
capture_list_pool_get(pool, id) ==
    IF id >= Len(pool.lists) THEN << >> ELSE pool.lists[id + 1].captures

capture_list_pool_is_empty(pool) == pool.free = 0 /\ Len(pool.lists) >= pool.max

capture_list_pool_acquire(pool) ==
    LET unused == {i \in DOMAIN pool.lists : ~pool.lists[i].used} IN
    IF pool.free > 0 /\ unused # {}
    THEN [id |-> Min(unused) - 1,
          pool |-> [pool EXCEPT !.lists[Min(unused)] = Cleared, !.free = @ - 1]]
    ELSE IF Len(pool.lists) >= pool.max THEN [id |-> NONE, pool |-> pool]
    ELSE [id |-> Len(pool.lists) % ID_MOD, pool |-> [pool EXCEPT !.lists = Append(@, Cleared)]]

\* Mutant of capture_list_pool_release: the count of free lists stays.
ReleaseUncounted(pool, id) ==
    IF id >= Len(pool.lists) THEN pool ELSE [pool EXCEPT !.lists[id + 1] = Unused]

capture_list_pool_release(pool, id) ==
    IF id >= Len(pool.lists) THEN pool
    ELSE [pool EXCEPT !.lists[id + 1] = Unused, !.free = @ + 1]

-----------------------------------------------------------------------------
(* States.                                                                    *)

StepAt(q, state) == q.query.steps[state.step]
CapturesOf(q, state) == capture_list_pool_get(q.pool, state.list)
Release(q, state) == [q EXCEPT !.pool = capture_list_pool_release(@, state.list)]
EraseState(q, i) == [q EXCEPT !.states = RemoveAt(@, i)]

EndsBefore(node, at) ==
    ts_node_end_byte(node) <= at.bytes \/ point_lte(Extent(ts_node_end(node)), Extent(at))
StartsAfter(node, at) ==
    ts_node_start_byte(node) >= at.bytes \/ point_lte(Extent(at), ts_node_start_point(node))

\* The number of captures of a state that were returned or lie outside; it has
\* 12 bits.
Consume(count) == (count + 1) % 4096
RECURSIVE SkipCaptures(_, _, _)
SkipCaptures(captures, consumed, outside) ==
    IF consumed >= Len(captures) \/ captures[consumed + 1].node.id \notin outside THEN consumed
    ELSE SkipCaptures(captures, Consume(consumed), outside)

NodesOf(captures) == {captures[i].node : i \in DOMAIN captures}
ConsumedBefore(q, state) ==
    LET captures == CapturesOf(q, state)
    IN  SkipCaptures(captures, state.consumed,
                     {n.id : n \in {m \in NodesOf(captures) : EndsBefore(m, q.start)}})

SkipBeforeRange(q, state) ==
    IF state.dead THEN state ELSE [state EXCEPT !.consumed = ConsumedBefore(q, state)]

Spent(q, state) == state.consumed >= Len(CapturesOf(q, state))
NextByte(q, state) == ts_node_start_byte(CapturesOf(q, state)[state.consumed + 1].node)

\* The better of the first capture found so far and the one of state i, at `byte`.
IsEarlier(first, byte, pattern) ==
    byte < first.byte \/ (byte = first.byte /\ pattern < first.pattern)
NoneInProgress == [index |-> 0, byte |-> UINT32_MAX, pattern |-> UINT32_MAX]

FirstInProgress(q, definite) ==
    LET First(acc, i) ==
            IF /\ ~q.states[i].dead /\ ~Spent(q, q.states[i])
               /\ acc.index = 0 \/ IsEarlier(acc, NextByte(q, q.states[i]), q.states[i].pattern)
               /\ definite \/ ~StepAt(q, q.states[i]).root_pattern_guaranteed
            THEN [index |-> i, byte |-> NextByte(q, q.states[i]), pattern |-> q.states[i].pattern]
            ELSE acc
    IN  [cursor |-> q,
         first |-> FoldLeft(First, NoneInProgress, [i \in DOMAIN q.states |-> i])]

\* The earliest capture of the states in progress: the index of its state, 0 when
\* there is none.  Captures before the range count as returned.  Unless definite
\* states are asked for, those that would come first are passed over.
ts_query_cursor__first_in_progress_capture(q, definite) ==
    FirstInProgress(
        [q EXCEPT !.states = MapIndices(@, LAMBDA i : SkipBeforeRange(q, q.states[i]))], definite)

\* Which of two nodes comes first in preorder, by their extents.
ts_query_cursor__compare_nodes(l, r) ==
    IF l.id = r.id THEN 0
    ELSE IF ts_node_start_byte(l) # ts_node_start_byte(r)
    THEN IF ts_node_start_byte(l) < ts_node_start_byte(r) THEN -1 ELSE 1
    ELSE IF ts_node_end_byte(l) # ts_node_end_byte(r)
    THEN IF ts_node_end_byte(l) > ts_node_end_byte(r) THEN -1 ELSE 1
    ELSE 0

\* Whether the captures of one list include those of the other: <<l has r, r has l>>.
RECURSIVE Compare(_, _)
Compare(l, r) ==
    IF l = << >> \/ r = << >> THEN << r = << >>, l = << >> >>
    ELSE LET order == ts_query_cursor__compare_nodes(Head(l).node, Head(r).node)
             same == Head(l).node.id = Head(r).node.id /\ Head(l).index = Head(r).index
             rest == Compare(IF ~same /\ order = 1 THEN l ELSE Tail(l),
                             IF ~same /\ order = -1 THEN r ELSE Tail(r))
         IN  << rest[1] /\ (same \/ order = -1), rest[2] /\ (same \/ order = 1) >>
ts_query_cursor__compare_captures(q, l, r) == Compare(CapturesOf(q, l), CapturesOf(q, r))

\* A state for a pattern that may start here.  States are in the order of their
\* depth and pattern; one that is there already is not added again.
RECURSIVE StatePlace(_, _, _, _)
StatePlace(states, depth, entry, i) ==
    LET prev == states[i] IN
    IF i = 0 \/ prev.start_depth < depth THEN i + 1
    ELSE IF prev.start_depth = depth
    THEN IF prev.pattern = entry.pattern /\ prev.step = entry.step THEN 0
         ELSE IF prev.pattern <= entry.pattern THEN i + 1
         ELSE StatePlace(states, depth, entry, i - 1)
    ELSE StatePlace(states, depth, entry, i - 1)

StartDepth(q, entry) == (q.depth - q.query.steps[entry.step].depth) % UINT_MOD

ts_query_cursor__add_state(q, entry) ==
    LET depth == StartDepth(q, entry)
        at == StatePlace(q.states, depth, entry, Len(q.states))
        state == [id |-> NO_ID, list |-> NONE, step |-> entry.step, pattern |-> entry.pattern,
                  start_depth |-> depth % ID_MOD, consumed |-> 0, seeking_immediate |-> TRUE,
                  has_alternatives |-> FALSE, dead |-> FALSE,
                  needs_parent |-> q.query.steps[entry.step].depth = 1]
    IN  IF at = 0 THEN q ELSE [q EXCEPT !.states = InsertAt(@, at, state)]

\* State i is given up and its list, emptied, goes to another one.
StealList(q, i, list) ==
    [cursor |-> [q EXCEPT !.states[i] = [@ EXCEPT !.list = NONE, !.dead = TRUE],
                          !.pool.lists[list + 1] = Cleared],
     list |-> list]
RobFirst(found, preserve) ==
    IF found.first.index \in {0, preserve} THEN [cursor |-> found.cursor, list |-> NONE]
    ELSE StealList(found.cursor, found.first.index, found.cursor.states[found.first.index].list)
AcquireOrRob(q, new, preserve) ==
    IF new.id # NONE THEN [cursor |-> [q EXCEPT !.pool = new.pool], list |-> new.id]
    ELSE RobFirst(ts_query_cursor__first_in_progress_capture(
                    [q EXCEPT !.did_exceed_match_limit = TRUE], FALSE), preserve)

\* A capture list for a state that has none: from the pool or, when the pool is
\* used up, from the state with the earliest capture, which is given up, unless
\* that is state `preserve`.  The number is NONE when there is no list to have.
ts_query_cursor__prepare_to_capture(q, list, preserve) ==
    IF list # NONE THEN [cursor |-> q, list |-> list]
    ELSE AcquireOrRob(q, capture_list_pool_acquire(q.pool), preserve)

FillList(q, list, captures) == [q EXCEPT !.pool.lists[list + 1].captures = @ \o captures]

\* State i captures a node under the names of a step.
CaptureInto(got, i, captures) ==
    IF got.list = NONE THEN [got.cursor EXCEPT !.states[i].dead = TRUE]
    ELSE FillList([got.cursor EXCEPT !.states[i].list = got.list], got.list, captures)
ts_query_cursor__capture(q, i, step, node) ==
    IF q.states[i].dead THEN q
    ELSE CaptureInto(ts_query_cursor__prepare_to_capture(q, q.states[i].list, 0), i,
                     [j \in DOMAIN step.captures |-> [node |-> node, index |-> step.captures[j]]])

\* State i twice, the copy with a list of its own: <<the cursor, whether it has the copy>>.
InsertCopy(q, i, state, list) ==
    [q EXCEPT !.states = InsertAt(@, i + 1, [state EXCEPT !.list = list])]
CopyInto(got, i, state) ==
    IF got.list = NONE THEN << got.cursor, FALSE >>
    ELSE << InsertCopy(FillList(got.cursor, got.list, CapturesOf(got.cursor, state)),
                       i, state, got.list), TRUE >>
ts_query_cursor__copy_state(q, i) ==
    IF q.states[i].list = NONE THEN << InsertCopy(q, i, q.states[i], NONE), TRUE >>
    ELSE CopyInto(ts_query_cursor__prepare_to_capture(q, NONE, i), i, q.states[i])

\* Whether the walk goes below the current node.
ts_query_cursor__should_descend(q, intersects) ==
    \/ intersects /\ q.depth < q.max_start_depth
    \/ \E i \in DOMAIN q.states :
          /\ StepAt(q, q.states[i]).depth # PATTERN_DONE_MARKER
          /\ q.states[i].start_depth + StepAt(q, q.states[i]).depth > q.depth
    \/ LET t == Last(q.cursor.stack).subtree IN
       /\ q.depth < q.max_start_depth
       /\ ~q.on_visible_node
       /\ ts_subtree_is_repetition(t) =>
             t.symbol \in q.query.repeat_symbols_with_rootless_patterns

-----------------------------------------------------------------------------
(* Walking.                                                                   *)

NodeOf(q, i) ==
    LET entry == q.cursor.stack[i] IN
    ts_node_new(q.base \o [j \in 1 .. i - 1 |-> q.cursor.stack[j + 1].child_index + 1],
                entry.subtree, entry.position, 0)
CurrentNode(q) ==
    [NodeOf(q, Len(q.cursor.stack)) EXCEPT !.alias = ts_tree_cursor_current_alias(q.cursor)]
ParentNode(q) ==
    LET above == ts_tree_cursor_parent_node(q.cursor) IN
    IF above = << >> THEN ts_node__null
    ELSE [NodeOf(q, above[1].index) EXCEPT !.alias = above[1].alias]

\* Mutant of LeaveNode: states that look for a later sibling are removed as well.
LeaveNodeTooFar(q) ==
    LET Done(state) == StepAt(q, state).depth = PATTERN_DONE_MARKER
        Finished(state) == Done(state) /\ (state.start_depth > q.depth \/ q.depth = 0)
        Failed(state) == ~Done(state) /\ state.start_depth + StepAt(q, state).depth >= q.depth
        finished == SelectSeq(q.states, Finished)
    IN  [FoldLeft(Release, q, SelectSeq(q.states, Failed)) EXCEPT
            !.finished = @ \o finished,
            !.did_match = @ \/ finished # << >>,
            !.states = SelectSeq(@, LAMBDA state : ~Finished(state) /\ ~Failed(state))]

\* After a visible node: states that are complete are finished, states that needed
\* something inside of it are removed.
LeaveNode(q) ==
    LET Done(state) == StepAt(q, state).depth = PATTERN_DONE_MARKER
        Finished(state) == Done(state) /\ (state.start_depth > q.depth \/ q.depth = 0)
        Failed(state) == ~Done(state) /\ state.start_depth + StepAt(q, state).depth > q.depth
        finished == SelectSeq(q.states, Finished)
    IN  [FoldLeft(Release, q, SelectSeq(q.states, Failed)) EXCEPT
            !.finished = @ \o finished,
            !.did_match = @ \/ finished # << >>,
            !.states = SelectSeq(@, LAMBDA state : ~Finished(state) /\ ~Failed(state))]

\* To the next sibling or else to the parent.
MoveToSibling(q, cursor, shown) ==
    [q EXCEPT !.cursor = cursor, !.ascending = FALSE, !.on_visible_node = shown,
              !.depth = CASE shown /\ ~q.on_visible_node -> (@ + 1) % UINT_MOD
                          [] ~shown /\ q.on_visible_node -> (@ - 1) % UINT_MOD
                          [] OTHER -> @]
MoveUp(q, up) ==
    IF up.moved THEN [q EXCEPT !.cursor = up.cursor, !.depth = (@ - 1) % UINT_MOD]
    ELSE [q EXCEPT !.halted = TRUE]
SiblingOrUp(q, next) ==
    IF next # << >> THEN MoveToSibling(q, next[1], CurrentShown(next[1]))
    ELSE MoveUp(q, ts_tree_cursor_goto_parent(q.cursor))
Ascend(q) == SiblingOrUp(q, ts_tree_cursor_goto_next_sibling_internal(q.cursor))

\* The range and the current node and its parent.
NodePrecedes(node, parent, at) ==
    LET end == ts_node_end(node)
        empty == node.subtree.size.bytes = 0
    IN  \/ ~ts_node_is_null(parent) /\ EndsBefore(parent, at)
        \/ end.bytes < at.bytes \/ point_lt(Extent(end), Extent(at))
        \/ ~empty /\ (end.bytes = at.bytes \/ Extent(end) = Extent(at))
NodeFollows(node, parent, at) ==
    (~ts_node_is_null(parent) /\ StartsAfter(parent, at)) \/ StartsAfter(node, at)

\* All that the steps ask of the node that is entered.
AboutNode(q, node, parent) ==
    [node |-> node, parent |-> parent, status |-> ts_tree_cursor_current_status(q.cursor),
     symbol |-> ts_node_symbol(node), is_named |-> ts_node_is_named(node),
     is_error |-> ts_node_symbol(node) = ts_builtin_sym_error,
     parent_is_error |-> ~ts_node_is_null(parent)
                         /\ ts_node_symbol(parent) = ts_builtin_sym_error,
     intersects |-> ~NodePrecedes(node, parent, q.start) /\ ~NodeFollows(node, parent, q.end),
     parent_intersects |-> ts_node_is_null(parent)
                           \/ ~(EndsBefore(parent, q.start) \/ StartsAfter(parent, q.end))]
EnteredNode(q) == AboutNode(q, CurrentNode(q), ParentNode(q))

\* Whether a pattern may start at this node.
MayStart(q, n, entry, start_depth) ==
    LET field == q.query.steps[entry.step].field IN
    /\ IF entry.is_rooted THEN n.intersects ELSE n.parent_intersects /\ ~n.parent_is_error
    /\ field # 0 => field = n.status.field
    /\ start_depth <= q.max_start_depth

\* Patterns that start with a wildcard, then those that start with this symbol;
\* for these the depth of the first of them is asked for all.
AddStates(q, n) ==
    LET symbol(e) == q.query.steps[e.step].symbol
        wild == SelectSeq(q.query.map, LAMBDA e : symbol(e) = WILDCARD_SYMBOL)
        mine == SelectSeq(q.query.map, LAMBDA e : symbol(e) # WILDCARD_SYMBOL
                                                  /\ symbol(e) = n.symbol)
        WildStarts(e) == /\ ~n.is_error
                         /\ q.query.steps[e.step].supertype # 0 => n.status.supertypes # << >>
                         /\ MayStart(q, n, e, StartDepth(q, e))
        MineStarts(e) == MayStart(q, n, e, StartDepth(q, mine[1]))
    IN  FoldLeft(ts_query_cursor__add_state, q,
                 SelectSeq(wild, WildStarts) \o SelectSeq(mine, MineStarts))

NodeMatches(step, n) ==
    /\ IF step.symbol = WILDCARD_SYMBOL THEN ~n.is_error /\ (n.is_named \/ ~step.is_named)
       ELSE n.symbol = step.symbol
    /\ ~(step.is_last_child /\ n.status.has_later_named)
    /\ step.supertype # 0 => step.supertype \in Range(n.status.supertypes)
    /\ step.field # 0 => step.field = n.status.field
    /\ \A f \in step.negated : ts_node_is_null(ts_node_child_by_field_id(n.node, f))

\* Mutant of LaterCanMatch: a repetition may go on after a gap.
LaterCanMatchAfterGap(state, step, n) ==
    /\ n.status.has_later
    /\ ~(step.is_immediate /\ n.is_named)
    /\ ~(step.field # 0 /\ step.field = n.status.field /\ ~n.status.can_repeat)

\* Whether a later sibling may match the step as well.
LaterCanMatch(state, step, n) ==
    /\ n.status.has_later
    /\ ~(step.is_immediate /\ n.is_named) /\ ~state.seeking_immediate
    /\ ~(step.field # 0 /\ step.field = n.status.field /\ ~n.status.can_repeat)

\* A pattern whose first step was skipped: the parent is its root.
SkippedRoot(q, i) ==
    q.query.steps[Max({k \in 1 .. q.states[i].step - 1 :
                         LET s == q.query.steps[k]
                         IN  ~s.is_dead_end /\ ~s.is_pass_through /\ s.depth = 0})]
CaptureStep(q, i, step, node) ==
    IF step.captures = << >> THEN q ELSE ts_query_cursor__capture(q, i, step, node)
CaptureParent(q, i, parent) ==
    IF ~q.states[i].needs_parent THEN q
    ELSE IF ts_node_is_null(parent) THEN [q EXCEPT !.states[i].dead = TRUE]
    ELSE CaptureStep([q EXCEPT !.states[i].needs_parent = FALSE], i, SkippedRoot(q, i), parent)

\* The states from k to `last` follow the alternatives of their steps; a copy is
\* made of a state that goes both ways.
RECURSIVE Branch(_, _, _)
TurnCopy(state, step) ==
    [state EXCEPT !.step = step.alternative,
                  !.seeking_immediate = @ \/ step.alternative_is_immediate]
BothWays(copied, k, next, last, step) ==
    IF copied[2]
    THEN Branch([copied[1] EXCEPT !.states[k + 1] = TurnCopy(@, step)], next, last + 1)
    ELSE Branch(copied[1], next, last)
BranchAt(q, k, last, step) ==
    IF step.alternative = NO_STEP THEN Branch(q, k + 1, last)
    ELSE IF step.is_dead_end THEN Branch([q EXCEPT !.states[k].step = step.alternative], k, last)
    ELSE IF step.is_pass_through
    THEN BothWays(ts_query_cursor__copy_state([q EXCEPT !.states[k].step = @ + 1], k),
                  k, k, last, step)
    ELSE BothWays(ts_query_cursor__copy_state(q, k), k, k + 1, last, step)
Branch(q, k, last) ==
    IF k > last THEN << q, last >> ELSE BranchAt(q, k, last, StepAt(q, q.states[k]))

\* State j has its captures: it goes on to its next step and follows the
\* alternatives there.  `copies` counts the states that a split left after it.
MarkDefinite(q, j, stop_on_definite_step) ==
    [q EXCEPT !.did_match = @ \/ (stop_on_definite_step
                                   /\ StepAt(q, q.states[j]).root_pattern_guaranteed)]
PassCopies(branched, copies) == << branched[1], branched[2] + 1 + copies >>
AdvanceState(q, j, copies, stop_on_definite_step) ==
    IF q.states[j].dead THEN << EraseState(q, j), j + copies >>
    ELSE PassCopies(Branch(MarkDefinite([q EXCEPT !.states[j] =
                                            [@ EXCEPT !.step = @ + 1, !.seeking_immediate = FALSE]],
                                        j, stop_on_definite_step), j, j), copies)

MeetNode(split, j, step, n, stop_on_definite_step) ==
    AdvanceState(CaptureStep(CaptureParent(split[1], j, n.parent), j, step, n.node), j,
                 IF split[2] THEN 1 ELSE 0, stop_on_definite_step)

\* State j at its step meets the node; it splits when a later sibling may do as
\* well and the choice matters.
StateMeets(q, j, step, n, later, stop_on_definite_step) ==
    IF q.states[j].start_depth + step.depth # q.depth THEN << q, j + 1 >>
    ELSE IF ~NodeMatches(step, n)
    THEN IF later THEN << q, j + 1 >> ELSE << EraseState(Release(q, q.states[j]), j), j >>
    ELSE MeetNode(IF later /\ (step.contains_captures
                                \/ ts_query__step_is_fallible(q.query, q.states[j].step))
                  THEN ts_query_cursor__copy_state(q, j) ELSE << q, FALSE >>,
                  j, step, n, stop_on_definite_step)

\* State j meets the node: <<the cursor, the index of the next state>>.
UpdateState(q, j, n, stop_on_definite_step) ==
    LET state == q.states[j] IN
    StateMeets([q EXCEPT !.states[j].has_alternatives = FALSE], j, StepAt(q, state), n,
               LaterCanMatch(state, StepAt(q, state), n), stop_on_definite_step)

\* The states from the index at[2] on meet the node.
RECURSIVE UpdateStates(_, _, _)
UpdateStates(at, n, stop) ==
    IF at[2] > Len(at[1].states) THEN at[1]
    ELSE UpdateStates(UpdateState(at[1], at[2], n, stop), n, stop)

-----------------------------------------------------------------------------
(* The longest match.  Of two states of a pattern that started at the same    *)
(* depth and are at the same step, one with no other captures is dropped; at  *)
(* different steps it waits.                                                  *)

\* State j against state k and those after it: <<the cursor, whether j is gone>>.
RECURSIVE PruneAgainst(_, _, _)
PruneOne(q, j, k, same, contains) ==
    IF same /\ contains[1] THEN PruneAgainst(EraseState(Release(q, q.states[k]), k), j, k)
    ELSE IF same /\ contains[2] THEN << EraseState(Release(q, q.states[j]), j), TRUE >>
    ELSE PruneAgainst([q EXCEPT !.states[j].has_alternatives = @ \/ contains[2],
                                !.states[k].has_alternatives = @ \/ contains[1]], j, k + 1)
PruneAgainst(q, j, k) ==
    IF \/ k > Len(q.states)
       \/ q.states[k].start_depth # q.states[j].start_depth
       \/ q.states[k].pattern # q.states[j].pattern
    THEN << q, FALSE >>
    ELSE PruneOne(q, j, k, q.states[j].step = q.states[k].step,
                  ts_query_cursor__compare_captures(q, q.states[j], q.states[k]))

\* A state at the end of its pattern is finished, unless it waits for others.
FinishState(q, j) ==
    IF StepAt(q, q.states[j]).depth # PATTERN_DONE_MARKER \/ q.states[j].has_alternatives THEN q
    ELSE [EraseState(q, j) EXCEPT !.finished = Append(@, q.states[j]), !.did_match = TRUE]

RECURSIVE PruneStates(_, _)
PruneRest(pruned, j) ==
    IF pruned[2] THEN PruneStates(pruned[1], j)
    ELSE LET kept == FinishState(pruned[1], j)
         IN  PruneStates(kept, IF Len(kept.states) < Len(pruned[1].states) THEN j ELSE j + 1)
PruneStates(q, j) ==
    IF j > Len(q.states) THEN q
    ELSE IF q.states[j].dead THEN PruneStates(EraseState(q, j), j)
    ELSE PruneRest(PruneAgainst(q, j, j + 1), j)

-----------------------------------------------------------------------------
(* The loop.                                                                  *)

MoveDown(q, cursor, shown) ==
    [q EXCEPT !.cursor = cursor, !.on_visible_node = shown,
              !.depth = IF shown THEN (@ + 1) % UINT_MOD ELSE @]
Descend(q, down) == IF down = << >> THEN [q EXCEPT !.ascending = TRUE]
                    ELSE MoveDown(q, down[1], CurrentShown(down[1]))
GoBelow(q, intersects) ==
    IF ts_query_cursor__should_descend(q, intersects)
    THEN Descend(q, ts_tree_cursor_goto_first_child_internal(q.cursor))
    ELSE [q EXCEPT !.ascending = TRUE]
MatchNode(q, n, stop_on_definite_step) ==
    IF q.on_visible_node
    THEN PruneStates(UpdateStates(<< AddStates(q, n), 1 >>, n, stop_on_definite_step), 1)
    ELSE q
EnterWith(q, n, stop_on_definite_step) ==
    GoBelow(MatchNode(q, n, stop_on_definite_step), n.intersects)
EnterNode(q, stop_on_definite_step) == EnterWith(q, EnteredNode(q), stop_on_definite_step)

\* The test at the start of each round: <<the cursor, whether the loop ends>>.
NextRound(q) ==
    LET swept == IF q.halted
                 THEN [FoldLeft(Release, q, q.states) EXCEPT !.states = << >>] ELSE q
        asked == q.operation_count + 1 = OP_COUNT_PER_QUERY_TIMEOUT_CHECK
        counted == [swept EXCEPT !.operation_count = IF asked THEN 0 ELSE @ + 1]
    IN  IF q.did_match \/ q.halted THEN << counted, TRUE >>
        ELSE IF asked /\ q.checks # NO_DEADLINE
        THEN << [counted EXCEPT !.checks = IF @ = 0 THEN 0 ELSE @ - 1], q.checks = 0 >>
        ELSE << counted, FALSE >>

\* A round: leave the current node or enter it.
Round(q, stop_on_definite_step) ==
    IF q.ascending THEN Ascend(IF q.on_visible_node THEN LeaveNode(q) ELSE q)
                   ELSE EnterNode(q, stop_on_definite_step)

RECURSIVE AdvanceLoop(_, _)
AdvanceLoop(next, stop) ==
    IF next[2] THEN next[1] ELSE AdvanceLoop(NextRound(Round(next[1], stop)), stop)
\* The cursor after it advanced; did_match is the result.
ts_query_cursor__advance(q, stop) == AdvanceLoop(NextRound([q EXCEPT !.did_match = FALSE]), stop)

-----------------------------------------------------------------------------
(* The interface.                                                             *)

ts_query_cursor_new ==
    [pool |-> capture_list_pool_new, start |-> length_zero, end |-> LENGTH_MAX,
     max_start_depth |-> UINT32_MAX]

ts_query_cursor_exec(settings, pool, query, node, checks) ==
    [query |-> query, cursor |-> ts_tree_cursor_init(node.subtree, node.position, node.alias),
     base |-> node.id, states |-> << >>, finished |-> << >>,
     pool |-> capture_list_pool_reset(pool), depth |-> 0,
     max_start_depth |-> settings.max_start_depth,
     start |-> settings.start, end |-> settings.end, next_state_id |-> 0,
     operation_count |-> 0, checks |-> checks, on_visible_node |-> TRUE, ascending |-> FALSE,
     halted |-> FALSE, did_exceed_match_limit |-> FALSE, did_match |-> FALSE]

\* What a caller is given of a state.
Match(q, state) == [id |-> state.id, pattern |-> state.pattern, captures |-> CapturesOf(q, state)]
Identify(q, state) == IF state.id = NO_ID THEN [state EXCEPT !.id = q.next_state_id] ELSE state
CountId(q, state) ==
    IF state.id = NO_ID THEN [q EXCEPT !.next_state_id = @ + 1] ELSE q

\* Each call answers << >> when there is nothing to return.
GiveMatch(q, state) ==
    [cursor |-> [Release(CountId(q, q.finished[1]), state) EXCEPT !.finished = Tail(@)],
     answer |-> << Match(q, state) >>]
FirstMatch(q) == IF q.finished = << >> THEN [cursor |-> q, answer |-> << >>]
                 ELSE GiveMatch(q, Identify(q, q.finished[1]))
ts_query_cursor_next_match(q) ==
    FirstMatch(IF q.finished = << >> THEN ts_query_cursor__advance(q, FALSE) ELSE q)

ts_query_cursor_remove_match(q, id) ==
    LET done == {i \in DOMAIN q.finished : q.finished[i].id = id}
        open == {i \in DOMAIN q.states : q.states[i].id = id}
    IN  IF done # {} THEN [Release(q, q.finished[Min(done)])
                              EXCEPT !.finished = RemoveAt(@, Min(done))]
        ELSE IF open # {} THEN EraseState(Release(q, q.states[Min(open)]), Min(open))
        ELSE q

\* The finished states without those whose captures were all returned; captures
\* outside of the range count as returned.
SkipOutside(q, state, captures) ==
    [state EXCEPT !.consumed =
        SkipCaptures(captures, @,
                     {n.id : n \in {m \in NodesOf(captures) :
                                      EndsBefore(m, q.start) \/ StartsAfter(m, q.end)}})]
ReleaseSpent(q, skipped) ==
    [FoldLeft(Release, q, SelectSeq(skipped, LAMBDA state : Spent(q, state)))
        EXCEPT !.finished = SelectSeq(skipped, LAMBDA state : ~Spent(q, state))]
SweepFinished(q) ==
    ReleaseSpent(q, MapIndices(q.finished, LAMBDA i :
                                SkipOutside(q, q.finished[i], CapturesOf(q, q.finished[i]))))

EarliestFinished(q, first, Earlier(_, _, _)) ==
    LET Better(acc, i) ==
            IF Earlier(acc, NextByte(q, q.finished[i]), q.finished[i].pattern)
            THEN [index |-> i, byte |-> NextByte(q, q.finished[i]),
                  pattern |-> q.finished[i].pattern]
            ELSE acc
    IN  FoldLeft(Better, [first EXCEPT !.index = 0], [i \in DOMAIN q.finished |-> i]).index

\* Mutant of FirstFinished: the captures of unfinished states are not waited for.
FirstFinishedAny(q, first) ==
    EarliestFinished(q, first, LAMBDA acc, byte, pattern :
                                 acc.index = 0 \/ IsEarlier(acc, byte, pattern))

\* The finished state with the earliest capture, if that is before the first
\* capture of the states in progress.
FirstFinished(q, first) == EarliestFinished(q, first, IsEarlier)

\* A finished state, or one that is sure to finish, gives its next capture.
GiveCapture(q, list, i, state) ==
    LET taken == [Identify(q, state) EXCEPT !.consumed = Consume(@)] IN
    [cursor |-> CountId([q EXCEPT ![list][i] = taken], state),
     answer |-> << [match |-> Match(q, taken), index |-> state.consumed + 1] >>]

\* With the pool used up the state in progress with the earliest capture is given up.
MakeRoom(q, open) ==
    IF capture_list_pool_is_empty(q.pool) /\ open # 0
    THEN EraseState(Release(q, q.states[open]), open) ELSE q

\* Captures are returned in the order of the text: the earliest one of a finished
\* match, or of a match that is sure to finish.
RECURSIVE ts_query_cursor_next_capture(_)
LookAgain(q) ==
    IF ~q.did_match /\ q.finished = << >> THEN [cursor |-> q, answer |-> << >>]
    ELSE ts_query_cursor_next_capture(q)
CaptureOrAdvance(q, open, done) ==
    IF done # 0 THEN GiveCapture(q, "finished", done, q.finished[done])
    ELSE IF open # 0 /\ StepAt(q, q.states[open]).root_pattern_guaranteed
    THEN GiveCapture(q, "states", open, q.states[open])
    ELSE LookAgain(ts_query_cursor__advance(MakeRoom(q, open), TRUE))
EarliestCapture(q, first) == CaptureOrAdvance(q, first.index, FirstFinished(q, first))
SweepAndFind(found) == EarliestCapture(SweepFinished(found.cursor), found.first)
ts_query_cursor_next_capture(q) ==
    SweepAndFind(ts_query_cursor__first_in_progress_capture(q, TRUE))
=============================================================================
