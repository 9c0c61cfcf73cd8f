-------------------------------- MODULE Query --------------------------------
(* How a query is compiled (query.c): patterns become steps of a little       *)
(* machine, with alternatives between them, and a map from the symbol of a    *)
(* first step to the places where a match may start.                          *)
(*                                                                            *)
(* A pattern is what the text of the query says, already split into parts:    *)
(* a record with its kind, its parts, the places of its anchors and its       *)
(* suffixes.  Texts that are not patterns, and predicates, are left out.      *)
(* Steps are numbered from 1 and 0 stands for NONE; captures are numbers.     *)
EXTENDS Language, SequencesExt

CONSTANT CaptureIds      \* the captures a query may name

WILDCARD_SYMBOL == 0
PATTERN_DONE_MARKER == 65535
MAX_STEP_CAPTURE_COUNT == 3
NO_STEP == 0

query_step__new(symbol, depth, immediate) ==
    [symbol |-> symbol, supertype |-> 0, field |-> 0, captures |-> << >>, depth |-> depth,
     alternative |-> NO_STEP, negated |-> {}, is_named |-> FALSE, is_immediate |-> immediate,
     is_last_child |-> FALSE, is_pass_through |-> FALSE, is_dead_end |-> FALSE,
     alternative_is_immediate |-> FALSE, contains_captures |-> FALSE,
     root_pattern_guaranteed |-> FALSE, parent_pattern_guaranteed |-> FALSE]

query_step__add_capture(step, id) ==
    IF Len(step.captures) = MAX_STEP_CAPTURE_COUNT THEN step
    ELSE [step EXCEPT !.captures = Append(@, id)]

\* The sequence of f(1), f(2), ... for the indices of a sequence.
MapIndices(s, f(_)) == FoldLeft(LAMBDA acc, x : Append(acc, f(Len(acc) + 1)), << >>, s)

-----------------------------------------------------------------------------
(* How often a capture occurs in a match: at least `least` times, at most     *)
(* `most` times, where 2 stands for any number.  The five quantifiers are the *)
(* five pairs that can arise.                                                 *)

Quantifier(least, most) == [least |-> least, most |-> most]
Zero == Quantifier(0, 0)
One == Quantifier(1, 1)
ZeroOrOne == Quantifier(0, 1)
ZeroOrMore == Quantifier(0, 2)
OneOrMore == Quantifier(1, 2)
AtMost(n, bound) == IF n > bound THEN bound ELSE n

quantifier_mul(l, r) == Quantifier(l.least * r.least, AtMost(l.most * r.most, 2))
\* Mutant of quantifier_join: the quantifier of the later branch is lost.
JoinKeepsFirst(l, r) == l
quantifier_join(l, r) == Quantifier(Min({l.least, r.least}), Max({l.most, r.most}))
quantifier_add(l, r) == Quantifier(AtMost(l.least + r.least, 1), AtMost(l.most + r.most, 2))

capture_quantifiers_new == [id \in CaptureIds |-> Zero]
capture_quantifiers_add_for_id(self, id, q) == [self EXCEPT ![id] = quantifier_add(@, q)]
capture_quantifiers_add_all(self, other) ==
    [id \in CaptureIds |-> quantifier_add(self[id], other[id])]
capture_quantifiers_mul(self, q) == [id \in CaptureIds |-> quantifier_mul(self[id], q)]
capture_quantifiers_join_all(self, other) ==
    [id \in CaptureIds |-> quantifier_join(self[id], other[id])]

-----------------------------------------------------------------------------
(* The steps of a pattern.  Each part of a pattern adds its steps at the end  *)
(* of those there are; the result has the steps and the part's quantifiers.   *)

Compiled(steps, quantifiers) == [steps |-> steps, quantifiers |-> quantifiers]

\* From step i forward through the alternatives that lie before step `bound`.
RECURSIVE Chain(_, _, _)
Chain(steps, i, bound) ==
    LET next == steps[i].alternative IN
    IF next = NO_STEP \/ next <= i \/ next >= bound THEN << i >>
    ELSE << i >> \o Chain(steps, next, bound)

OnSteps(steps, some, f(_)) == MapIndices(steps, LAMBDA i : IF i \in some THEN f(steps[i]) ELSE steps[i])

RepeatStep(start, depth) ==
    [query_step__new(WILDCARD_SYMBOL, depth, FALSE)
        EXCEPT !.alternative = start, !.is_pass_through = TRUE, !.alternative_is_immediate = TRUE]

\* The quantifier that a suffix adds to those before it.
SuffixQuantifier(suffix, before) ==
    CASE suffix.op = "+" -> quantifier_join(OneOrMore, before)
      [] suffix.op = "*" -> quantifier_join(ZeroOrMore, before)
      [] suffix.op = "?" -> quantifier_join(ZeroOrOne, before)
      [] OTHER -> before

\* The suffixes of a pattern whose first step is `start`.
AddSuffix(acc, suffix, start, depth) ==
    LET steps == acc.steps
        repeated == Append(steps, RepeatStep(start, depth))
        Skipping(s, bound) ==
            [s EXCEPT ![Last(Chain(s, start, bound))].alternative = Len(s) + 1]
        Capturing(step) == query_step__add_capture(step, suffix.capture)
    IN  [acc EXCEPT
            !.steps = CASE suffix.op = "+" -> repeated
                        [] suffix.op = "*" -> Skipping(repeated, Len(repeated))
                        [] suffix.op = "?" -> Skipping(steps, Len(steps) + 1)
                        [] OTHER -> OnSteps(steps, Range(Chain(steps, start, Len(steps) + 1)),
                                            Capturing),
            !.quantifier = SuffixQuantifier(suffix, @),
            !.quantifiers = IF suffix.op = "@"
                            THEN capture_quantifiers_add_for_id(@, suffix.capture, One) ELSE @]

RECURSIVE ts_query__parse_pattern(_, _, _, _)

\* Each branch is followed by a step that leads to the end, save the last one,
\* and starts with a step that has the next branch for its alternative.
ParseAlternation(steps, p, depth, immediate) ==
    LET Branch(acc, i) ==
            LET branch == ts_query__parse_pattern(acc.steps, p.parts[i], depth, immediate)
            IN  [steps |-> Append(branch.steps, query_step__new(0, depth, FALSE)),
                 starts |-> Append(acc.starts, Len(acc.steps) + 1),
                 quantifiers |-> IF i = 1 THEN branch.quantifiers
                                 ELSE capture_quantifiers_join_all(acc.quantifiers,
                                                                   branch.quantifiers)]
        all == FoldLeft(Branch, [steps |-> steps, starts |-> << >>,
                                 quantifiers |-> capture_quantifiers_new],
                        [i \in DOMAIN p.parts |-> i])
        popped == Front(all.steps)
        Link(s, i) ==
            [s EXCEPT ![all.starts[i]].alternative = all.starts[i + 1],
                      ![all.starts[i + 1] - 1] =
                            [@ EXCEPT !.alternative = Len(s) + 1, !.is_dead_end = TRUE]]
    IN  Compiled(FoldLeft(Link, popped, [i \in 1 .. Len(all.starts) - 1 |-> i]),
                 all.quantifiers)

\* The parts of a group or the children of a node, one after the other; an anchor
\* before a part makes it immediate.
ParseParts(steps, p, depth, immediate) ==
    LET Part(acc, i) ==
            LET part == ts_query__parse_pattern(acc.steps, p.parts[i], depth,
                                                i \in p.anchors \/ (immediate /\ i = 1))
            IN  [steps |-> part.steps, last |-> Len(acc.steps) + 1,
                 quantifiers |-> capture_quantifiers_add_all(acc.quantifiers, part.quantifiers)]
    IN  FoldLeft(Part, [steps |-> steps, last |-> NO_STEP,
                        quantifiers |-> capture_quantifiers_new],
                 [i \in DOMAIN p.parts |-> i])

ParseNode(steps, p, depth, immediate) ==
    LET step == query_step__new(p.symbol, depth, immediate)
        super == p.symbol # WILDCARD_SYMBOL /\ ts_language_symbol_metadata(p.symbol).supertype
        typed == IF super THEN [step EXCEPT !.supertype = p.symbol, !.symbol = p.subtype]
                 ELSE [step EXCEPT !.is_named = p.symbol = WILDCARD_SYMBOL]
        inside == ParseParts(Append(steps, [typed EXCEPT !.negated = p.negated]),
                             p, depth + 1, FALSE)
    IN  Compiled(IF Len(p.parts) + 1 \in p.anchors
                 THEN [inside.steps EXCEPT ![inside.last].is_last_child = TRUE]
                 ELSE inside.steps, inside.quantifiers)

\* The field is given to the first step and to its alternatives.
ParseField(steps, p, depth, immediate) ==
    LET inner == ts_query__parse_pattern(steps, p.parts[1], depth, immediate)
        SetField(step) == [step EXCEPT !.field = p.field]
    IN  [inner EXCEPT !.steps =
            OnSteps(@, Range(Chain(@, Len(steps) + 1, Len(@) + 1)), SetField)]

ts_query__parse_pattern(steps, p, depth, immediate) ==
    LET start == Len(steps) + 1
        body == CASE p.kind = "alternation" -> ParseAlternation(steps, p, depth, immediate)
                  [] p.kind = "group" -> ParseParts(steps, p, depth, immediate)
                  [] p.kind = "node" -> ParseNode(steps, p, depth, immediate)
                  [] p.kind = "field" -> ParseField(steps, p, depth, immediate)
                  [] p.kind = "token" ->
                        Compiled(Append(steps, query_step__new(p.symbol, depth, immediate)),
                                 capture_quantifiers_new)
        whole == FoldLeft(LAMBDA acc, suffix : AddSuffix(acc, suffix, start, depth),
                          [steps |-> body.steps, quantifiers |-> body.quantifiers,
                           quantifier |-> One], p.suffixes)
    IN  Compiled(whole.steps, capture_quantifiers_mul(whole.quantifiers, whole.quantifier))

-----------------------------------------------------------------------------
(* Where matches start.                                                       *)

\* Entries are ordered by symbol, the wildcards first, then by pattern.
ts_query__pattern_map_insert(map, steps, entry) ==
    LET symbol == steps[entry.step].symbol
        Before(e) == LET other == steps[e.step].symbol IN
                     \/ other = WILDCARD_SYMBOL
                     \/ other < symbol
                     \/ other = symbol /\ e.pattern < entry.pattern
        i == Cardinality({j \in DOMAIN map : Before(map[j])})
    IN  InsertAt(map, i + 1, entry)

\* The pattern is rooted when no other step is as shallow as its first one.
IsRooted(steps, start) ==
    LET dead == {i \in start + 1 .. Len(steps) : steps[i].is_dead_end}
        seen == IF dead = {} THEN start + 1 .. Len(steps) ELSE start + 1 .. Min(dead) - 1
    IN  /\ steps[start].depth = 0
        /\ \A i \in seen : steps[i].depth # 0

\* A first step that is a wildcard gives way to the one below it, which the cursor
\* then asks for its parent.
SkipsRoot(steps, i) ==
    /\ steps[i].symbol = WILDCARD_SYMBOL /\ steps[i].depth = 0 /\ steps[i].field = 0
    /\ steps[i + 1].symbol # WILDCARD_SYMBOL
    /\ steps[i + 1].depth = 1 /\ ~steps[i + 1].is_immediate

\* The entries of a pattern: its first step and the alternatives to it.
RECURSIVE AddEntries(_, _, _, _, _)
AddEntries(map, steps, pattern, at, wildcard_alternative) ==
    LET skips == SkipsRoot(steps, at)
        start == IF skips THEN at + 1 ELSE at
        left == IF skips THEN steps[at].alternative ELSE wildcard_alternative
        added == ts_query__pattern_map_insert(map, steps,
                    [step |-> start, pattern |-> pattern, is_rooted |-> IsRooted(steps, start)])
    IN  IF steps[start].alternative # NO_STEP
        THEN AddEntries(added, steps, pattern, steps[start].alternative, left)
        ELSE IF left # NO_STEP THEN AddEntries(added, steps, pattern, left, NO_STEP)
        ELSE added

-----------------------------------------------------------------------------
(* What is known of the steps beforehand.  The walk through the parse table   *)
(* that finds at which steps a match may fail is not modelled: `fallible` is  *)
(* the set of those steps.                                                    *)

\* The steps below step i.
Below(steps, i) ==
    {j \in i + 1 .. Len(steps) :
        \A k \in i + 1 .. j : /\ steps[k].depth # PATTERN_DONE_MARKER
                              /\ steps[k].depth > steps[i].depth}

MarkSteps(steps, fallible) ==
    LET Done(i) == steps[i].depth = PATTERN_DONE_MARKER
        Inside(i) == \E j \in DOMAIN steps : i \in Below(steps, j)
                                             /\ steps[j].symbol # WILDCARD_SYMBOL
        Sure(i) == Done(i) \/ (Inside(i) /\ ~(i \in fallible /\ ~steps[i].is_dead_end))
    IN  MapIndices(steps, LAMBDA i :
            [steps[i] EXCEPT
                !.contains_captures = ~Done(i) /\ \E j \in {i} \cup Below(steps, i) :
                                                     steps[j].captures # << >>,
                !.root_pattern_guaranteed = Sure(i),
                !.parent_pattern_guaranteed = Sure(i)])

\* Whether step i, or an alternative to it, is sure to lead to a match: `sure` are
\* the steps whose root_pattern_guaranteed is still set.
RECURSIVE LeadsOn(_, _, _, _)
LeadsOn(steps, sure, i, from) ==
    \/ i \in sure
    \/ /\ steps[i].alternative # NO_STEP /\ steps[i].alternative >= from
       /\ LeadsOn(steps, sure, steps[i].alternative, from)

\* Unless a step is sure to lead to a match, the step before it is not either.
RECURSIVE PropagateFallibility(_, _)
PropagateFallibility(steps, sure) ==
    LET Back(s, i) ==
            IF \/ steps[i].depth = PATTERN_DONE_MARKER \/ LeadsOn(steps, s, i, i)
               \/ steps[i - 1].is_dead_end \/ steps[i - 1].depth = PATTERN_DONE_MARKER
            THEN s ELSE s \ {i - 1}
        once == FoldLeft(Back, sure, [i \in 1 .. Len(steps) - 1 |-> Len(steps) + 1 - i])
    IN  IF once = sure THEN sure ELSE PropagateFallibility(steps, once)

ts_query__analyze_patterns(steps, fallible) ==
    LET marked == MarkSteps(steps, fallible)
        sure == {i \in DOMAIN marked : marked[i].root_pattern_guaranteed}
        left == PropagateFallibility(marked, sure)
    IN  MapIndices(marked, LAMBDA i : [marked[i] EXCEPT !.root_pattern_guaranteed = i \in left])

-----------------------------------------------------------------------------
ts_query_new(patterns, fallible, rootless) ==
    LET AddPattern(q, i) ==
            LET parsed == ts_query__parse_pattern(q.steps, patterns[i], 0, FALSE)
                done == Append(parsed.steps, query_step__new(0, PATTERN_DONE_MARKER, FALSE))
            IN  [q EXCEPT !.steps = done,
                          !.quantifiers = Append(@, parsed.quantifiers),
                          !.map = AddEntries(@, done, i, Len(q.steps) + 1, NO_STEP)]
        parsed == FoldLeft(AddPattern, [steps |-> << >>, quantifiers |-> << >>, map |-> << >>],
                           [i \in DOMAIN patterns |-> i])
    IN  [steps |-> ts_query__analyze_patterns(parsed.steps, fallible),
         quantifiers |-> parsed.quantifiers, map |-> parsed.map,
         repeat_symbols_with_rootless_patterns |-> rootless]

ts_query_capture_quantifier_for_id(self, pattern, id) == self.quantifiers[pattern][id]

\* A match may fail below this step.
ts_query__step_is_fallible(self, i) ==
    LET next == self.steps[i + 1] IN
    /\ next.depth # PATTERN_DONE_MARKER
    /\ next.depth > self.steps[i].depth
    /\ ~next.parent_pattern_guaranteed
=============================================================================
