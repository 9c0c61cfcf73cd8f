-------------------------------- MODULE Stack --------------------------------
(* The graph-structured parse stack (stack.c, stack.h).                       *)
(*                                                                            *)
(* A stack is a record: `nodes`, the nodes that are allocated, by address;    *)
(* `heads`, the versions; `base`, the node every version starts from; `refs`, *)
(* the reference count of every tree, kept when CountTrees.  Each function of *)
(* stack.c is an operator from stack to stack, which is how module Parser     *)
(* calls it; module StackClient makes each one an action.  Versions count     *)
(* from 1 and 0 is STACK_VERSION_NONE; the free list of nodes decides only    *)
(* which address is used next and is left out.                                *)
EXTENDS Subtree

CONSTANTS MAX_LINK_COUNT, MAX_ITERATOR_COUNT,
          CountTrees        \* whether `refs` is kept

\* A node joins at least two histories, an iteration follows at least one.
ASSUME LimitsAssumption ==
    /\ MAX_LINK_COUNT \in Nat \ {0, 1}
    /\ MAX_ITERATOR_COUNT \in Nat \ {0}
    /\ CountTrees \in BOOLEAN

NewHead(node) ==
    [node |-> node, summary |-> NULL_SUBTREE, node_count_at_last_error |-> 0,
     last_external_token |-> NULL_SUBTREE, lookahead_when_paused |-> NULL_SUBTREE,
     status |-> "Active"]

HeadNode(stk, v) == stk.nodes[stk.heads[v].node]

-----------------------------------------------------------------------------
(* Reference counts.                                                          *)

CountBy(stk, t, n) ==
    IF ~CountTrees \/ IsNull(t) THEN stk
    ELSE LET now == IF t \in DOMAIN stk.refs THEN stk.refs[t] ELSE 0
             others == DOMAIN stk.refs \ {t}
         IN  [stk EXCEPT !.refs = [u \in others \cup (IF now + n = 0 THEN {} ELSE {t}) |->
                                     IF u = t THEN now + n ELSE stk.refs[u]]]
RetainTree(stk, t) == CountBy(stk, t, 1)
ReleaseTree(stk, t) == CountBy(stk, t, -1)
RetainAll(stk, trees) == FoldLeft(RetainTree, stk, trees)
ReleaseAll(stk, trees) == FoldLeft(ReleaseTree, stk, trees)

stack_node_retain(stk, n) == [stk EXCEPT !.nodes[n].ref_count = @ + 1]

\* The last reference to a node frees it, with what its links hold.
RECURSIVE stack_node_release(_, _)
stack_node_release(stk, n) ==
    LET node == stk.nodes[n]
        freed == [stk EXCEPT !.nodes = [m \in DOMAIN stk.nodes \ {n} |-> stk.nodes[m]]]
        ReleaseLink(s, link) == stack_node_release(ReleaseTree(s, link.subtree), link.node)
    IN  IF node.ref_count > 1 THEN [stk EXCEPT !.nodes[n].ref_count = @ - 1]
        ELSE FoldRight(LAMBDA link, s : ReleaseLink(s, link), node.links, freed)

-----------------------------------------------------------------------------
(* Nodes and links.                                                           *)

\* How much progress a tree stands for.
stack__subtree_node_count(t) ==
    t.visible_descendant_count + (IF t.visible THEN 1 ELSE 0)
        + (IF t.symbol = ts_builtin_sym_error_repeat THEN 1 ELSE 0)

\* What a link adds to the sums that its node accumulates.
LinkNodeCount(t) == IF IsNull(t) THEN 0 ELSE stack__subtree_node_count(t)
LinkPrecedence(t) == IF IsNull(t) THEN 0 ELSE t.dynamic_precedence
LinkErrorCost(t) == IF IsNull(t) THEN 0 ELSE ts_subtree_error_cost(t)
LinkSize(t) == IF IsNull(t) THEN length_zero ELSE ts_subtree_total_size(t)

FreeAddress(stk) == CHOOSE n \in 1 .. Cardinality(DOMAIN stk.nodes) + 1 :
                        n \notin DOMAIN stk.nodes

BaseNode == [state |-> START_STATE, position |-> length_zero, links |-> << >>,
             ref_count |-> 1, error_cost |-> 0, node_count |-> 0,
             dynamic_precedence |-> 0]

\* The node above `previous`, whose reference to it the link takes over.
stack_node_new(stk, previous, t, pending, state) ==
    LET below == stk.nodes[previous] IN
    [state |-> state,
     position |-> length_add(below.position, LinkSize(t)),
     links |-> << [node |-> previous, subtree |-> t, is_pending |-> pending] >>,
     ref_count |-> 1,
     error_cost |-> below.error_cost + LinkErrorCost(t),
     node_count |-> below.node_count + LinkNodeCount(t),
     dynamic_precedence |-> below.dynamic_precedence + LinkPrecedence(t)]

stack__subtree_is_equivalent(l, r) ==
    \/ l = r
    \/ /\ ~IsNull(l) /\ ~IsNull(r)
       /\ l.symbol = r.symbol
       /\ \/ ts_subtree_error_cost(l) > 0 /\ ts_subtree_error_cost(r) > 0
          \/ /\ l.padding.bytes = r.padding.bytes
             /\ l.size.bytes = r.size.bytes
             /\ Len(l.children) = Len(r.children)
             /\ l.extra = r.extra
             /\ ts_subtree_external_scanner_state_eq(l, r)

\* Mutant of SameParse: the error costs are not compared.
SameParseAnyCost(m, n) == m.state = n.state /\ m.position.bytes = n.position.bytes

SameParse(m, n) ==
    m.state = n.state /\ m.position.bytes = n.position.bytes /\ m.error_cost = n.error_cost

RaisePrecedence(stk, n, p) ==
    IF p > stk.nodes[n].dynamic_precedence
    THEN [stk EXCEPT !.nodes[n].dynamic_precedence = p] ELSE stk

RECURSIVE stack_node_add_link(_, _, _), AddLinksOf(_, _, _, _)

\* A second link between the same two nodes keeps the tree of the higher
\* precedence; a link to a node that parses alike is merged into that node; any
\* other link is added while there is room.
stack_node_add_link(stk, n, link) ==
    LET self == stk.nodes[n]
        below == stk.nodes[link.node]
        Taken(i) == /\ stack__subtree_is_equivalent(self.links[i].subtree, link.subtree)
                    /\ \/ self.links[i].node = link.node
                       \/ SameParse(stk.nodes[self.links[i].node], below)
        taken == {i \in DOMAIN self.links : Taken(i)}
        first == CHOOSE i \in taken : \A j \in taken : i <= j
        existing == self.links[first]
        precedence == below.dynamic_precedence + LinkPrecedence(link.subtree)
        count == below.node_count + LinkNodeCount(link.subtree)
        added == RetainTree(stack_node_retain(stk, link.node), link.subtree)
        linked == [added EXCEPT !.nodes[n].links = Append(@, link),
                                !.nodes[n].node_count = IF count > @ THEN count ELSE @]
    IN  IF link.node = n THEN stk
        ELSE IF taken = {} THEN IF Len(self.links) = MAX_LINK_COUNT THEN stk
                                ELSE RaisePrecedence(linked, n, precedence)
        ELSE IF existing.node = link.node
        THEN IF link.subtree.dynamic_precedence > existing.subtree.dynamic_precedence
             THEN [ReleaseTree(RetainTree(stk, link.subtree), existing.subtree)
                     EXCEPT !.nodes[n].links[first].subtree = link.subtree,
                            !.nodes[n].dynamic_precedence = precedence]
             ELSE stk
        ELSE RaisePrecedence(AddLinksOf(stk, existing.node, link.node, 1), n, precedence)

\* Adds links i, i + 1, ... of node m to node n.
AddLinksOf(stk, n, m, i) ==
    IF i > Len(stk.nodes[m].links) THEN stk
    ELSE AddLinksOf(stack_node_add_link(stk, n, stk.nodes[m].links[i]), n, m, i + 1)

-----------------------------------------------------------------------------
(* Versions.                                                                  *)

ts_stack_version_count(stk) == Len(stk.heads)
ts_stack_state(stk, v) == HeadNode(stk, v).state
ts_stack_position(stk, v) == HeadNode(stk, v).position
ts_stack_last_external_token(stk, v) == stk.heads[v].last_external_token
ts_stack_dynamic_precedence(stk, v) == HeadNode(stk, v).dynamic_precedence
ts_stack_get_summary(stk, v) == stk.heads[v].summary
ts_stack_is_active(stk, v) == stk.heads[v].status = "Active"
ts_stack_is_paused(stk, v) == stk.heads[v].status = "Paused"
ts_stack_is_halted(stk, v) == stk.heads[v].status = "Halted"

ts_stack_error_cost(stk, v) ==
    LET node == HeadNode(stk, v)
        broken == node.state = ERROR_STATE /\ IsNull(node.links[1].subtree)
    IN  node.error_cost
            + (IF ts_stack_is_paused(stk, v) \/ broken THEN ERROR_COST_PER_RECOVERY ELSE 0)

\* Reading the count also lowers the mark it is measured from.
LowerErrorMark(stk, v) ==
    [stk EXCEPT !.heads[v].node_count_at_last_error =
        IF HeadNode(stk, v).node_count < @ THEN HeadNode(stk, v).node_count ELSE @]
ts_stack_node_count_since_error(stk, v) ==
    HeadNode(stk, v).node_count
        - LowerErrorMark(stk, v).heads[v].node_count_at_last_error

stack_head_delete(stk, head) ==
    stack_node_release(
        ReleaseTree(ReleaseTree(stk, head.last_external_token), head.lookahead_when_paused),
        head.node)

\* Mutant of ts_stack__add_version: the new version does not retain its node.
AddVersionUnretained(stk, original, n) ==
    LET from == stk.heads[original]
        head == [NewHead(n) EXCEPT
                    !.node_count_at_last_error = from.node_count_at_last_error,
                    !.last_external_token = from.last_external_token]
    IN  RetainTree([stk EXCEPT !.heads = Append(@, head)], head.last_external_token)

ts_stack__add_version(stk, original, n) ==
    LET from == stk.heads[original]
        head == [NewHead(n) EXCEPT
                    !.node_count_at_last_error = from.node_count_at_last_error,
                    !.last_external_token = from.last_external_token]
        pushed == [stk EXCEPT !.heads = Append(@, head)]
    IN  RetainTree(stack_node_retain(pushed, n), head.last_external_token)

ts_stack_set_last_external_token(stk, v, token) ==
    [ReleaseTree(RetainTree(stk, token), stk.heads[v].last_external_token)
        EXCEPT !.heads[v].last_external_token = token]

PushNode(stk, v, n, node) ==
    [stk EXCEPT !.nodes = [m \in DOMAIN stk.nodes \cup {n} |->
                             IF m = n THEN node ELSE stk.nodes[m]],
                !.heads[v].node = n,
                !.heads[v].node_count_at_last_error =
                    IF IsNull(node.links[1].subtree) THEN node.node_count ELSE @]
ts_stack_push(stk, v, t, pending, state) ==
    PushNode(stk, v, FreeAddress(stk),
             stack_node_new(stk, stk.heads[v].node, t, pending, state))

ts_stack_remove_version(stk, v) ==
    [stack_head_delete(stk, stk.heads[v]) EXCEPT !.heads = RemoveAt(@, v)]

\* Version v1 takes the place of v2; a summary of v2 is not lost.
ts_stack_renumber_version(stk, v1, v2) ==
    LET source == stk.heads[v1]
        target == stk.heads[v2]
        summary == IF ~IsNull(target.summary) /\ IsNull(source.summary)
                   THEN target.summary ELSE source.summary
    IN  IF v1 = v2 THEN stk
        ELSE [stack_head_delete(stk, target)
                EXCEPT !.heads = RemoveAt([@ EXCEPT ![v2] = [source EXCEPT !.summary = summary]],
                                          v1)]

ts_stack_swap_versions(stk, v1, v2) ==
    [stk EXCEPT !.heads[v1] = stk.heads[v2], !.heads[v2] = stk.heads[v1]]

\* The copy shares the paused lookahead without a reference of its own.
ts_stack_copy_version(stk, v) ==
    LET copy == [stk.heads[v] EXCEPT !.summary = NULL_SUBTREE]
        pushed == [stk EXCEPT !.heads = Append(@, copy)]
    IN  RetainTree(stack_node_retain(pushed, copy.node), copy.last_external_token)

ts_stack_can_merge(stk, v1, v2) ==
    /\ ts_stack_is_active(stk, v1) /\ ts_stack_is_active(stk, v2)
    /\ SameParse(HeadNode(stk, v1), HeadNode(stk, v2))
    /\ ts_subtree_external_scanner_state_eq(stk.heads[v1].last_external_token,
                                            stk.heads[v2].last_external_token)

MarkMerged(linked, v) ==
    IF ts_stack_state(linked, v) = ERROR_STATE
    THEN [linked EXCEPT !.heads[v].node_count_at_last_error = HeadNode(linked, v).node_count]
    ELSE linked

\* Mutant of ts_stack_merge: the first link of the version merged in is skipped.
MergeSkipsFirst(stk, v1, v2) ==
    ts_stack_remove_version(AddLinksOf(stk, stk.heads[v1].node, stk.heads[v2].node, 2), v2)

ts_stack_merge(stk, v1, v2) ==
    IF ts_stack_can_merge(stk, v1, v2)
    THEN ts_stack_remove_version(
            MarkMerged(AddLinksOf(stk, stk.heads[v1].node, stk.heads[v2].node, 1), v1), v2)
    ELSE stk

ts_stack_halt(stk, v) == [stk EXCEPT !.heads[v].status = "Halted"]

ts_stack_pause(stk, v, lookahead) ==
    [stk EXCEPT !.heads[v].status = "Paused",
                !.heads[v].lookahead_when_paused = lookahead,
                !.heads[v].node_count_at_last_error = HeadNode(stk, v).node_count]

\* The caller receives the lookahead that was kept: stk.heads[v].lookahead_when_paused.
ts_stack_resume(stk, v) ==
    [stk EXCEPT !.heads[v].status = "Active",
                !.heads[v].lookahead_when_paused = NULL_SUBTREE]

ts_stack_clear(stk) ==
    [FoldLeft(stack_head_delete, stack_node_retain(stk, stk.base), stk.heads)
        EXCEPT !.heads = << NewHead(stk.base) >>]

ts_stack_new ==
    ts_stack_clear([nodes |-> (1 :> BaseNode), heads |-> << >>, base |-> 1, refs |-> << >>])

\* Whether a version has passed over text, or found a node, since its error.
RECURSIVE AdvancedAbove(_, _, _)
AdvancedAbove(stk, n, mark) ==
    LET node == stk.nodes[n]
        t == node.links[1].subtree
    IN  /\ node.links # << >> /\ ~IsNull(t)
        /\ \/ ts_subtree_total_bytes(t) > 0
           \/ /\ node.node_count > mark
              /\ ts_subtree_error_cost(t) = 0
              /\ AdvancedAbove(stk, node.links[1].node, mark)
ts_stack_has_advanced_since_error(stk, v) ==
    \/ HeadNode(stk, v).error_cost = 0
    \/ AdvancedAbove(stk, stk.heads[v].node, stk.heads[v].node_count_at_last_error)

-----------------------------------------------------------------------------
(* Walking down from a version along every path (stack__iter).  A walk is a   *)
(* record: its kind and goal, the iterators, the index of the next one and    *)
(* how many this round has, the slices found, and the callback's own data.    *)

pop_count_callback(walk, it) ==
    IF it.subtree_count = walk.goal THEN {"Pop", "Stop"} ELSE {}
pop_pending_callback(it) ==
    CASE it.subtree_count < 1 -> {}
      [] it.is_pending -> {"Pop", "Stop"}
      [] OTHER -> {"Stop"}
pop_error_callback(walk, it) ==
    CASE it.subtrees = << >> -> {}
      [] ~walk.found /\ ts_subtree_is_error(it.subtrees[1]) -> {"Pop", "Stop"}
      [] OTHER -> {"Stop"}
pop_all_callback(node) == IF node.links = << >> THEN {"Pop"} ELSE {}
summarize_stack_callback(walk, it) ==
    IF it.subtree_count > walk.goal THEN {"Stop"} ELSE {}

Callback(walk, it, node) ==
    CASE walk.kind = "count" -> pop_count_callback(walk, it)
      [] walk.kind = "pending" -> pop_pending_callback(it)
      [] walk.kind = "error" -> pop_error_callback(walk, it)
      [] walk.kind = "all" -> pop_all_callback(node)
      [] walk.kind = "summary" -> summarize_stack_callback(walk, it)

\* The summary gains a (depth, state) it lacks; entries of a depth are together.
SummaryEntry(walk, it, node) ==
    IF /\ walk.kind = "summary"
       /\ it.subtree_count <= walk.goal
       /\ ~\E i \in DOMAIN walk.summary :
              /\ walk.summary[i].state = node.state
              /\ \A j \in i .. Len(walk.summary) : walk.summary[j].depth >= it.subtree_count
              /\ walk.summary[i].depth = it.subtree_count
    THEN << [position |-> node.position, depth |-> it.subtree_count, state |-> node.state] >>
    ELSE << >>

\* Mutant of ts_stack__add_slice: every slice gets a version of its own.
AddSliceUnshared(stk, slices, original, n, trees) ==
    [stk |-> ts_stack__add_version(stk, original, n),
     slices |-> Append(slices, [subtrees |-> trees, version |-> Len(stk.heads) + 1])]

\* A slice joins the version that already ends at its node, or makes one.
ts_stack__add_slice(stk, slices, original, n, trees) ==
    LET same == {i \in DOMAIN slices : stk.heads[slices[i].version].node = n}
        last == CHOOSE i \in same : \A j \in same : j <= i
        v == IF same = {} THEN Len(stk.heads) + 1 ELSE slices[last].version
        slice == [subtrees |-> trees, version |-> v]
    IN  IF same = {}
        THEN [stk |-> ts_stack__add_version(stk, original, n), slices |-> Append(slices, slice)]
        ELSE [stk |-> stk, slices |-> InsertAt(slices, last + 1, slice)]

\* An iterator after it has followed a link.
Follow(walk, it, link) ==
    LET t == link.subtree
        counted == IsNull(t) \/ ~t.extra
    IN  [node |-> link.node,
         subtrees |-> IF ~IsNull(t) /\ walk.kind # "summary"
                      THEN Append(it.subtrees, t) ELSE it.subtrees,
         subtree_count |-> it.subtree_count + (IF counted THEN 1 ELSE 0),
         is_pending |-> it.is_pending /\ ~(counted /\ ~link.is_pending)]

\* An iterator whose callback pops: its trees become a slice, as copies when the
\* iterator goes on.
PopSlice(stk, walk, it, stopped) ==
    ts_stack__add_slice(IF stopped THEN stk ELSE RetainAll(stk, it.subtrees),
                        walk.slices, walk.version, it.node, Reverse(it.subtrees))
VisitedBy(added, walk, it, node, popped) ==
    [stk |-> added.stk,
     walk |-> [walk EXCEPT !.slices = added.slices,
                           !.found = @ \/ (walk.kind = "error" /\ popped),
                           !.summary = @ \o SummaryEntry(walk, it, node)]]
Visit(stk, walk, it, node, popped, stopped) ==
    VisitedBy(IF popped THEN PopSlice(stk, walk, it, stopped)
              ELSE [stk |-> IF stopped THEN ReleaseAll(stk, it.subtrees) ELSE stk,
                    slices |-> walk.slices],
              walk, it, node, popped)

\* The iterator that stopped is removed.
Leave(visited) ==
    [visited EXCEPT !.walk.iterators = RemoveAt(@, visited.walk.next), !.walk.size = @ - 1]

\* Links 2, 3, ... get new iterators while there is room, link 1 this one.
FollowAll(visited, it, here, forks) ==
    LET grown == SubSeq(here.subtrees, Len(it.subtrees) + 1, Len(here.subtrees)) IN
    [visited EXCEPT
        !.stk = RetainAll(FoldLeft(LAMBDA s, f : RetainAll(s, f.subtrees), @, forks), grown),
        !.walk.iterators = [@ EXCEPT ![visited.walk.next] = here] \o forks,
        !.walk.next = @ + 1]
FollowLinks(visited, walk, it, links) ==
    LET room == MAX_ITERATOR_COUNT - Len(walk.iterators)
        others == SubSeq(links, 2, 1 + Min({room, Len(links) - 1}))
    IN  FollowAll(visited, it, Follow(walk, it, links[1]),
                  [k \in DOMAIN others |-> Follow(walk, it, others[k])])

\* One iterator is asked what to do, and does it.
Step(stk, walk, it, node, action) ==
    LET stopped == "Stop" \in action \/ node.links = << >>
        visited == Visit(stk, walk, it, node, "Pop" \in action, stopped)
    IN  IF stopped THEN Leave(visited) ELSE FollowLinks(visited, walk, it, node.links)
StepAt(stk, walk, it) ==
    Step(stk, walk, it, stk.nodes[it.node], Callback(walk, it, stk.nodes[it.node]))

RECURSIVE stack__iter(_)
stack__iter(at) ==
    IF at.walk.iterators = << >> THEN at
    ELSE IF at.walk.next > at.walk.size
    THEN stack__iter([at EXCEPT !.walk.next = 1, !.walk.size = Len(at.walk.iterators)])
    ELSE stack__iter(StepAt(at.stk, at.walk, at.walk.iterators[at.walk.next]))

WalkResult(end) == [stk |-> end.stk, slices |-> end.walk.slices, summary |-> end.walk.summary]
Walk(stk, v, kind, goal) ==
    LET start == [node |-> stk.heads[v].node, subtrees |-> << >>, subtree_count |-> 0,
                  is_pending |-> TRUE]
    IN  WalkResult(stack__iter(
            [stk |-> stk,
             walk |-> [kind |-> kind, goal |-> goal, version |-> v,
                       iterators |-> << start >>, next |-> 1, size |-> 1,
                       slices |-> << >>, found |-> FALSE, summary |-> << >>]]))

ts_stack_pop_count(stk, v, count) == Walk(stk, v, "count", count)
ts_stack_pop_all(stk, v) == Walk(stk, v, "all", 0)

\* The first slice takes the place of the version; the versions of further
\* slices are left as they were found.
InPlace(pop, v) ==
    IF pop.slices = << >> THEN pop
    ELSE [pop EXCEPT !.stk = ts_stack_renumber_version(@, pop.slices[1].version, v),
                     !.slices[1].version = v]
ts_stack_pop_pending(stk, v) == InPlace(Walk(stk, v, "pending", 0), v)

FirstSubtrees(pop) ==
    [stk |-> pop.stk,
     subtrees |-> IF pop.slices = << >> THEN << >> ELSE pop.slices[1].subtrees]
ts_stack_pop_error(stk, v) ==
    IF \E link \in Range(HeadNode(stk, v).links) :
           ~IsNull(link.subtree) /\ ts_subtree_is_error(link.subtree)
    THEN FirstSubtrees(InPlace(Walk(stk, v, "error", 1), v))
    ELSE [stk |-> stk, subtrees |-> << >>]

SummaryOf(walk, v) == [walk.stk EXCEPT !.heads[v].summary = [entries |-> walk.summary]]
ts_stack_record_summary(stk, v, max_depth) ==
    SummaryOf(Walk(stk, v, "summary", max_depth), v)
=============================================================================
