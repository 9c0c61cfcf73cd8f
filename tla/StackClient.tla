----------------------------- MODULE StackClient -----------------------------
(* The parse stack under any sequence of calls that respects what parser.c    *)
(* respects: one action for each function of stack.c that changes the stack.  *)
(* `held` counts the tree references a call left with the caller, who drops   *)
(* them before the next call; `popped` is the result of the last pop.         *)
(* `calls` counts the calls made, up to MaxCalls.                             *)
EXTENDS Stack

CONSTANTS Trees,            \* the trees of the instance
          Pushed,           \* those among them that are pushed
          Token,            \* the one of them that is an external token
          FirstState,       \* the parse state it pushes
          MaxNodes, MaxVersions, MaxStatus, MaxCalls  \* bounds of the instance

VARIABLES stk, held, popped, calls
vars == <<stk, held, popped, calls>>

Versions == DOMAIN stk.heads
NothingPopped == [slices |-> << >>, count |-> 0]
Hold(h, trees) == FoldLeft(LAMBDA g, t : [g EXCEPT ![t] = @ + 1], h, trees)
HoldSlices(h, slices) == FoldLeft(LAMBDA g, s : Hold(g, s.subtrees), h, slices)

NoneHeld == [t \in Trees |-> 0]

\* At most MaxStatus versions are other than plainly active.
InBounds(s) ==
    /\ Cardinality(DOMAIN s.nodes) <= MaxNodes
    /\ Len(s.heads) <= MaxVersions
    /\ Cardinality({v \in DOMAIN s.heads :
                      \/ ~ts_stack_is_active(s, v)
                      \/ ~IsNull(s.heads[v].summary)
                      \/ ~IsNull(s.heads[v].last_external_token)}) <= MaxStatus

\* A stack after one push, a copy and a push to each of the two versions.
Fresh(s, v, t) == ts_stack_push(RetainTree(s, t), v, t, FALSE, FirstState)
Forked(t1, t2, t3) ==
    LET forked == ts_stack_copy_version(Fresh(ts_stack_new, 1, t1), 1)
    IN  Fresh(Fresh(forked, 1, t2), 2, t3)

\* After one push, two copies and a push to each of the three versions.
ForkedTwice(t1, t2, t3, t4) ==
    LET first == Fresh(ts_stack_new, 1, t1)
        forked == ts_stack_copy_version(ts_stack_copy_version(first, 1), 1)
    IN  Fresh(Fresh(Fresh(forked, 1, t2), 2, t3), 3, t4)

Init == /\ \/ stk = ts_stack_new
           \/ \E t1 \in Pushed \ {Token}, t2 \in Pushed, t3 \in Trees : stk = Forked(t1, t2, t3)
           \/ \E t1, t2 \in Pushed \ {Token}, t4 \in Trees \ Pushed :
                 stk = ForkedTwice(t1, t2, Token, t4)
        /\ held = NoneHeld /\ popped = NothingPopped /\ calls = 0

Becomes(s, h) == /\ held = NoneHeld
                 /\ InBounds(s)
                 /\ calls < MaxCalls /\ calls' = calls + 1
                 /\ stk' = s
                 /\ held' = h
                 /\ popped' = NothingPopped

-----------------------------------------------------------------------------
\* The caller lets go of what the last call handed to it.
Drop == /\ held # NoneHeld
        /\ stk' = FoldSet(LAMBDA t, s : CountBy(s, t, -held[t]), stk, Trees)
        /\ held' = NoneHeld
        /\ popped' = NothingPopped
        /\ UNCHANGED calls

\* A new tree is pushed; the version takes the caller's reference.  Only a node
\* with children that was reused from an older tree is pending.
Push(v, t, pending) ==
    /\ pending => t.children # << >> /\ ~ts_subtree_is_error(t)
    /\ Becomes(ts_stack_push(RetainTree(stk, t), v, t, pending, FirstState), NoneHeld)

\* The start of error recovery, from a state that is not the error state; no two
\* versions that end at one node enter it, they have been merged before.
PushError(v) ==
    /\ ts_stack_state(stk, v) # ERROR_STATE
    /\ \A n \in DOMAIN stk.nodes : \A i \in DOMAIN stk.nodes[n].links :
           ~(IsNull(stk.nodes[n].links[i].subtree)
             /\ stk.nodes[n].links[i].node = stk.heads[v].node)
    /\ Becomes(ts_stack_push(stk, v, NULL_SUBTREE, FALSE, ERROR_STATE), NoneHeld)

PopCount(v, count) ==
    /\ held = NoneHeld
    /\ calls < MaxCalls /\ calls' = calls + 1
    /\ \E pop \in {ts_stack_pop_count(stk, v, count)} :
          /\ InBounds(pop.stk)
          /\ stk' = pop.stk
          /\ held' = HoldSlices(NoneHeld, pop.slices)
          /\ popped' = [slices |-> pop.slices, count |-> count]

BecomesSlices(pop) == Becomes(pop.stk, HoldSlices(NoneHeld, pop.slices))
PopAll(v) == BecomesSlices(ts_stack_pop_all(stk, v))
PopPending(v) == BecomesSlices(ts_stack_pop_pending(stk, v))
PopError(v) == \E pop \in {ts_stack_pop_error(stk, v)} :
                   Becomes(pop.stk, Hold(NoneHeld, pop.subtrees))

\* The head takes a reference of its own, the caller keeps that of a new token.
SetLastExternalToken(v) ==
    Becomes(ts_stack_set_last_external_token(RetainTree(stk, Token), v, Token),
            Hold(NoneHeld, <<Token>>))

RemoveVersion(v) == Len(stk.heads) > 1 /\ Becomes(ts_stack_remove_version(stk, v), NoneHeld)
RenumberVersion(v1, v2) == v2 < v1 /\ Becomes(ts_stack_renumber_version(stk, v1, v2), NoneHeld)
SwapVersions(v1, v2) == v1 < v2 /\ Becomes(ts_stack_swap_versions(stk, v1, v2), NoneHeld)

\* Only an active version is copied, so the lookahead of a paused one never is.
CopyVersion(v) ==
    ts_stack_is_active(stk, v) /\ Becomes(ts_stack_copy_version(stk, v), NoneHeld)

\* Two versions at one node that entered the error state are never merged: the
\* precedences of their links' absent trees would be read.
Merge(v1, v2) ==
    /\ v1 # v2 /\ ts_stack_can_merge(stk, v1, v2)
    /\ ~(stk.heads[v1].node = stk.heads[v2].node /\ ts_stack_state(stk, v1) = ERROR_STATE)
    /\ Becomes(ts_stack_merge(stk, v1, v2), NoneHeld)

\* The version keeps the caller's reference to the lookahead until it resumes.
Pause(v) ==
    /\ ts_stack_is_active(stk, v)
    /\ Becomes(ts_stack_pause(RetainTree(stk, Token), v, Token), NoneHeld)
Resume(v) ==
    /\ ts_stack_is_paused(stk, v)
    /\ Becomes(ts_stack_resume(stk, v), Hold(NoneHeld, << stk.heads[v].lookahead_when_paused >>))
Halt(v) == Becomes(ts_stack_halt(stk, v), NoneHeld)
RecordSummary(v, depth) == Becomes(ts_stack_record_summary(stk, v, depth), NoneHeld)
Clear == Becomes(ts_stack_clear(stk), NoneHeld)

Next ==
    \/ Drop
    \/ \E v \in Versions, t \in Pushed, pending \in BOOLEAN :
        Push(v, t, pending)
    \/ \E v \in Versions :
        \/ SetLastExternalToken(v) \/ Pause(v)
        \/ PushError(v) \/ PopAll(v) \/ PopPending(v) \/ PopError(v)
        \/ RemoveVersion(v) \/ CopyVersion(v) \/ Resume(v) \/ Halt(v)
        \/ \E n \in 0 .. 2 : PopCount(v, n)
        \/ \E n \in 0 .. 1 : RecordSummary(v, n)
    \/ \E v1, v2 \in Versions :
        RenumberVersion(v1, v2) \/ SwapVersions(v1, v2) \/ Merge(v1, v2)
    \/ Clear

Spec == Init /\ [][Next]_vars

-----------------------------------------------------------------------------
(* Properties.                                                                *)

Links(s) == {<<n, i>> : n \in DOMAIN s.nodes, i \in 1 .. MAX_LINK_COUNT}
LiveLinks(s) == {p \in Links(s) : p[2] \in DOMAIN s.nodes[p[1]].links}
LinkAt(s, p) == s.nodes[p[1]].links[p[2]]

\* The reference count of a stack node is the number of versions that end at it
\* and of links that lead to it, one more for the base node.
NodeRefsExact ==
    \A n \in DOMAIN stk.nodes :
        stk.nodes[n].ref_count =
            Cardinality({v \in Versions : stk.heads[v].node = n})
            + Cardinality({p \in LiveLinks(stk) : LinkAt(stk, p).node = n})
            + (IF n = stk.base THEN 1 ELSE 0)

\* The reference count of a tree is the number of links, external token and
\* paused lookahead fields and caller's variables that hold it.
TreeRefsExact ==
    \A t \in Trees :
        (IF t \in DOMAIN stk.refs THEN stk.refs[t] ELSE 0) =
            held[t] + Cardinality({p \in LiveLinks(stk) : LinkAt(stk, p).subtree = t})
            + Cardinality({v \in Versions : stk.heads[v].last_external_token = t})
            + Cardinality({v \in Versions : stk.heads[v].lookahead_when_paused = t})

\* No call of stack.c frees a node or a tree that is in use, forgets one, or releases
\* one twice, however versions are copied, popped, merged, swapped and removed
\* (stack_node_release, ts_subtree_release).
RefsExact == NodeRefsExact /\ TreeRefsExact

\* Whichever link is followed down from a node, the text passed over and the
\* error cost are the same: a merge joins only histories that agree on both
\* (stack_node_add_link, ts_stack_can_merge).
PathsAgree ==
    \A p \in LiveLinks(stk) :
        LET node == stk.nodes[p[1]]
            link == LinkAt(stk, p)
            below == stk.nodes[link.node]
        IN  /\ node.position.bytes = below.position.bytes + LinkSize(link.subtree).bytes
            /\ node.error_cost = below.error_cost + LinkErrorCost(link.subtree)

\* The ways down from node n that pass `count` trees that are not extra.
RECURSIVE Descents(_, _, _)
Descents(s, n, count) ==
    IF count = 0 THEN {<<n, << >>>>}
    ELSE UNION {
            LET link == s.nodes[n].links[i]
                t == link.subtree
                rest == IF ~IsNull(t) /\ t.extra THEN count ELSE count - 1
            IN  {<<d[1], IF IsNull(t) THEN d[2] ELSE Append(d[2], t)>> :
                    d \in Descents(s, link.node, rest)}
          : i \in DOMAIN s.nodes[n].links}

\* Popping a number of trees finds every way down that has so many, once, leaves
\* each slice with a version that ends where the slice was cut off, and two
\* slices share a version exactly when they end at the same node (stack__iter,
\* ts_stack__add_slice).
PopsComplete ==
    [][\A v \in Versions : \A n \in 0 .. 2 : PopCount(v, n) =>
        LET found == popped'.slices
            Cut(i) == <<stk'.heads[found[i].version].node, found[i].subtrees>>
        IN  /\ Cardinality(Descents(stk, stk.heads[v].node, n)) <= MAX_ITERATOR_COUNT
                   => {Cut(i) : i \in DOMAIN found} = Descents(stk, stk.heads[v].node, n)
            /\ \A i, j \in DOMAIN found :
                    (Cut(i)[1] = Cut(j)[1]) = (found[i].version = found[j].version)]_vars

\* The states and symbols from a node down to the base, along every path.
RECURSIVE Histories(_, _)
Histories(s, n) ==
    UNION {{Append(h, <<s.nodes[n].links[i].subtree.symbol, s.nodes[n].state>>) :
                h \in Histories(s, s.nodes[n].links[i].node)} : i \in DOMAIN s.nodes[n].links}
    \cup (IF s.nodes[n].links = << >> THEN {<< >>} ELSE {})

\* The nodes from n down to the base.
RECURSIVE Below(_, _)
Below(s, n) ==
    {n} \cup UNION {Below(s, s.nodes[n].links[i].node) : i \in DOMAIN s.nodes[n].links}

\* Each node of version v1 has room for all links that only version v2 has.
Fits(s, v1, v2) ==
    LET down1 == Below(s, s.heads[v1].node)
        own == {p \in LiveLinks(s) : p[1] \in Below(s, s.heads[v2].node) \ down1}
    IN  \A n \in down1 : Len(s.nodes[n].links) + Cardinality(own) <= MAX_LINK_COUNT

\* Versions share nodes, and a merge writes into them: no version that is left,
\* merged or not, loses a history, also when a node is full.  The merged version
\* gets the histories of the one merged into it; one of them may be dropped only
\* where its links do not fit and a node has come to MAX_LINK_COUNT links
\* (ts_stack_merge, stack_node_add_link).
MergeKeepsHistories ==
    [][\A v1, v2 \in Versions : Merge(v1, v2) =>
        LET Now(v) == IF v < v2 THEN v ELSE v - 1
            Before(v) == Histories(stk, stk.heads[v].node)
            After(v) == Histories(stk', stk'.heads[Now(v)].node)
            full == {n \in DOMAIN stk'.nodes : Len(stk'.nodes[n].links) = MAX_LINK_COUNT}
        IN  /\ \A v \in Versions \ {v2} : Before(v) \subseteq After(v)
            /\ full = {} \/ Fits(stk, v1, v2) => Before(v2) \subseteq After(v1)]_vars
=============================================================================
