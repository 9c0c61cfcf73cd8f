----------------------------- MODULE QueryClient -----------------------------
(* A caller that runs queries with one cursor: it starts a query on a tree,   *)
(* asks for matches or for captures until there are no more, may remove a     *)
(* match whose captures it no longer wants, and may start another query at    *)
(* any time.  `task` is what it asked for, `q` the cursor, `answers` what it  *)
(* was given and `ended` whether the last call said that there is no more.    *)
EXTENDS QueryCursor, Places

CONSTANTS Tasks,        \* the tasks: a tree, patterns, their query, and the settings
          MaxChecks     \* bound on the checks of the clock before the deadline

VARIABLES task, q, mode, answers, ended
vars == <<task, q, mode, answers, ended>>

Started(t, pool, checks) ==
    ts_query_cursor_exec(t.settings, [pool EXCEPT !.max = t.limit], t.query,
                         ts_tree_root_node(t.tree), checks)

Deadlines == {NO_DEADLINE} \cup 0 .. MaxChecks

Init ==
    /\ task \in Tasks
    /\ \E checks \in Deadlines : q = Started(task, ts_query_cursor_new.pool, checks)
    /\ mode = "none" /\ answers = << >> /\ ended = FALSE

\* Another query is started with the same cursor, whatever the first one left.
Exec(t) ==
    /\ mode # "none" /\ task.again /\ t.again
    /\ task' = t
    /\ \E checks \in Deadlines : q' = Started(t, q.pool, checks)
    /\ mode' = "none" /\ answers' = << >> /\ ended' = FALSE

\* A call that is out of time answers as one that has come to the end.
Ask(kind, result) ==
    /\ mode \in {"none", kind} /\ ~(ended /\ q.halted)
    /\ q' = result.cursor
    /\ answers' = answers \o result.answer
    /\ ended' = (result.answer = << >>)
    /\ mode' = kind
    /\ UNCHANGED task

NextMatch == mode \in {"none", "matches"} /\ Ask("matches", ts_query_cursor_next_match(q))
NextCapture == mode \in {"none", "captures"} /\ Ask("captures", ts_query_cursor_next_capture(q))

\* The caller is done with the match of the capture it was given last.
RemoveMatch ==
    /\ mode = "captures" /\ answers # << >> /\ task.removes
    /\ LET id == Last(answers).match.id IN
       /\ \E i \in DOMAIN q.states \cup DOMAIN q.finished :
             \/ i \in DOMAIN q.states /\ q.states[i].id = id
             \/ i \in DOMAIN q.finished /\ q.finished[i].id = id
       /\ q' = ts_query_cursor_remove_match(q, id)
    /\ UNCHANGED <<task, mode, answers, ended>>

Next == NextMatch \/ NextCapture \/ RemoveMatch \/ \E t \in Tasks : Exec(t)

Spec == Init /\ [][Next]_vars

-----------------------------------------------------------------------------
(* What the patterns mean.  A pattern stands for words: sequences of nodes    *)
(* among siblings, each with the gap it allows before it ("any", "named": no  *)
(* named node in it, "none"), its field and its captures.                     *)

OnFirst(word, f(_)) == IF word = << >> THEN word ELSE [word EXCEPT ![1] = f(@)]
WithGap(word, gap) == OnFirst(word, LAMBDA a : [a EXCEPT !.gap = gap])
Products(left, right) == {w \o v : w \in left, v \in right}

RECURSIVE Repeated(_, _)
Repeated(words, n) ==
    IF n = 1 THEN words
    ELSE words \cup Products(words, {WithGap(w, "none") : w \in Repeated(words, n - 1)})

RECURSIVE Words(_, _)
WordsOfParts(p, n) ==
    FoldLeft(LAMBDA acc, i : Products(acc, IF i \in p.anchors
                                           THEN {WithGap(w, "named") : w \in Words(p.parts[i], n)}
                                           ELSE Words(p.parts[i], n)),
             {<< >>}, [i \in DOMAIN p.parts |-> i])
Words(p, n) ==
    LET core == CASE p.kind = "alternation" -> UNION {Words(p.parts[i], n) : i \in DOMAIN p.parts}
                  [] p.kind = "group" -> WordsOfParts(p, n)
                  [] p.kind = "field" ->
                        {OnFirst(w, LAMBDA a : [a EXCEPT !.field = p.field]) :
                            w \in Words(p.parts[1], n)}
                  [] OTHER -> {<< [pattern |-> p, gap |-> "any", field |-> 0, captures |-> {}] >>}
        named == {s.capture : s \in {r \in Range(p.suffixes) : r.op = "@"}}
        captured == {OnFirst(w, LAMBDA a : [a EXCEPT !.captures = @ \cup named]) : w \in core}
        Suffixed(words, s) ==
            CASE s.op = "+" -> Repeated(words, n)
              [] s.op = "*" -> Repeated(words, n) \cup {<< >>}
              [] s.op = "?" -> words \cup {<< >>}
              [] OTHER -> words
    IN  FoldLeft(Suffixed, captured, p.suffixes)

SymbolAt(t, x) == ts_node_symbol(NodeAt(t, x))
FieldAt(t, x) ==
    IF x = << >> THEN 0
    ELSE ts_node_field_name_for_child(NodeAt(t, ParentOf(t, x)), IndexIn(SiblingsOf(t, x), x) - 1)
SupertypesAt(t, x) ==
    IF x = << >> THEN {}
    ELSE {s \in {SymbolAt(t, SubSeq(x, 1, n)) : n \in Len(ParentOf(t, x)) + 1 .. Len(x)} :
            ts_language_symbol_metadata(s).supertype}

\* Whether the node at x is of the kind that a pattern names.
IsKind(t, x, p) ==
    LET symbol == SymbolAt(t, x)
        super == p.symbol # WILDCARD_SYMBOL /\ ts_language_symbol_metadata(p.symbol).supertype
        plain == IF super THEN p.subtype ELSE p.symbol
    IN  /\ IF plain # WILDCARD_SYMBOL THEN symbol = plain
           ELSE symbol # ts_builtin_sym_error
                /\ (super \/ p.kind = "token" \/ Named(t, x))
        /\ super => p.symbol \in SupertypesAt(t, x)
        /\ \A f \in p.negated : \A y \in Range(ChildrenOf(t, x)) : FieldAt(t, y) # f

GapAllowed(t, sibs, gap, from, to) ==
    CASE gap = "any" -> TRUE
      [] gap = "named" -> \A i \in from + 1 .. to - 1 : ~Named(t, sibs[i])
      [] gap = "none" -> to = from + 1

\* The ways in which a word lies among siblings after the one at index `from`: the
\* captures and the index of the last node.
RECURSIVE Ways(_, _, _, _), NodeWays(_, _, _)
Ways(t, sibs, word, from) ==
    IF word = << >> THEN {[captures |-> {}, last |-> from]}
    ELSE UNION {{[captures |-> c \cup r.captures, last |-> r.last] :
                    c \in NodeWays(t, sibs[i], Head(word)), r \in Ways(t, sibs, Tail(word), i)} :
                i \in {j \in from + 1 .. Len(sibs) :
                        /\ GapAllowed(t, sibs, Head(word).gap, from, j)
                        /\ IsKind(t, sibs[j], Head(word).pattern)
                        /\ Head(word).field # 0 => FieldAt(t, sibs[j]) = Head(word).field}}
NodeWays(t, x, atom) ==
    LET p == atom.pattern
        kids == ChildrenOf(t, x)
        inside == UNION {Ways(t, kids, w, 0) : w \in WordsOfParts(p, Len(kids))}
        fitting == {r \in inside : Len(p.parts) + 1 \in p.anchors =>
                                     \A i \in r.last + 1 .. Len(kids) : ~Named(t, kids[i])}
    IN  {{<<x, c>> : c \in atom.captures} \cup r.captures : r \in fitting}

\* Every way in which a pattern matches somewhere in a tree, by its captures.
AllMatches(t, p) ==
    LET families == {<< << >> >>} \cup {ChildrenOf(t, x) : x \in {y \in Range(Places(t)) : Shows(t, y)}}
    IN  UNION {UNION {{r.captures : r \in Ways(t, sibs, WithGap(w, "any"), 0)} :
                        w \in Words(p, Len(sibs)) \ {<< >>}} : sibs \in families \ {<< >>}}

-----------------------------------------------------------------------------
(* Properties.                                                                *)

CaptureSet(match) == {<<c.node.id, c.index>> : c \in Range(match.captures)}
Meaning(i) == AllMatches(task.tree, task.patterns[i])
Finished == ended /\ q.halted

\* Every match that ts_query_cursor_next_match returns is a way in which its pattern
\* lies in the tree, whatever the limit, the range, the deadline and the earlier uses
\* of the cursor; the captures next_capture shows are part of one.
MatchesSound ==
    \A i \in DOMAIN answers :
        IF mode = "matches"
        THEN CaptureSet(answers[i]) \in Meaning(answers[i].pattern)
        ELSE \E m \in Meaning(answers[i].match.pattern) : CaptureSet(answers[i].match) \subseteq m

\* Unless the limit was met, a query that came to its end left nothing out: each way
\* in which a pattern lies in the tree is a match that was returned or part of one,
\* and each of its captures was returned by next_capture.  States are removed, merged
\* and split on the way (ts_query_cursor__advance), and calls interrupted by the
\* deadline go on where they stopped.
MatchesComplete ==
    Finished /\ ~q.did_exceed_match_limit /\ task.whole =>
        \A k \in DOMAIN task.patterns : \A m \in Meaning(k) :
            IF mode = "matches"
            THEN \E i \in DOMAIN answers :
                    answers[i].pattern = k /\ m \subseteq CaptureSet(answers[i])
            ELSE \A c \in m : \E i \in DOMAIN answers :
                    LET given == answers[i].match.captures[answers[i].index] IN
                    answers[i].match.pattern = k /\ <<given.node.id, given.index>> = c

\* A capture list in use belongs to one state, every other one is free and counted,
\* through splits, removals, stolen lists and new queries (capture_list_pool_*).
ListsOwned ==
    LET holders == q.states \o q.finished IN
    /\ \A l \in DOMAIN q.pool.lists :
          Cardinality({h \in DOMAIN holders : holders[h].list = l - 1})
              = IF q.pool.lists[l].used THEN 1 ELSE 0
    /\ q.pool.free = Cardinality({l \in DOMAIN q.pool.lists : ~q.pool.lists[l].used})

CaptureOf(a) == a.match.captures[a.index].node

\* ts_query_cursor_next_capture "return[s] captures in order, even though they may not
\* be discovered in order, because patterns can overlap".
CapturesSorted ==
    mode = "captures" =>
        \A i \in 2 .. Len(answers) :
            ts_node_start_byte(CaptureOf(answers[i - 1])) <= ts_node_start_byte(CaptureOf(answers[i]))

\* The captures come in order as long as no pattern captures a wildcard root that the
\* search starts below.
CapturesInOrder == ~task.late => CapturesSorted

\* A match holds each capture as often as ts_query_capture_quantifier_for_id, which is
\* computed from the text of the pattern alone, says it may.
QuantifiersTrue ==
    mode = "matches" =>
        \A i \in DOMAIN answers : \A id \in CaptureIds :
            LET n == Cardinality({j \in DOMAIN answers[i].captures :
                                    answers[i].captures[j].index = id})
                quantifier == ts_query_capture_quantifier_for_id(task.query, answers[i].pattern, id)
            IN  n >= quantifier.least /\ (quantifier.most = 2 \/ n <= quantifier.most)
=============================================================================
