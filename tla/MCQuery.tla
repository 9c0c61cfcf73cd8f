------------------------------- MODULE MCQuery -------------------------------
(* Lists of names, numbers, notes and pairs, and patterns over them.          *)
(*                                                                            *)
(*   1 name  2 comma (anonymous)  3 number  4 note                            *)
(*   5 list -> item rest  6 rest of a list, a repetition  7 pair, production  *)
(*   1: field 1 is its first child, field 2 its third  8 item, a supertype    *)
EXTENDS QueryClient

Visible == [visible |-> TRUE, named |-> TRUE, supertype |-> FALSE]
Anonymous == [Visible EXCEPT !.named = FALSE]
Hidden == [Anonymous EXCEPT !.visible = FALSE]
Supertype == [visible |-> FALSE, named |-> TRUE, supertype |-> TRUE]

MCLang ==
    LET FieldOf(field, child) == [field |-> field, child |-> child, inherited |-> FALSE] IN
    [symbol_metadata |-> <<Hidden, Visible, Anonymous, Visible, Visible, Visible, Hidden,
                           Visible, Supertype>>,
     public_symbol_map |-> [i \in 1 .. 9 |-> i - 1],
     alias_sequences |-> << <<0, 0, 0>> >>,
     field_count |-> 2,
     field_map |-> << <<FieldOf(1, 0), FieldOf(2, 2)>> >>]

Token(sym) == [Bare(sym) EXCEPT !.size = Len3(1, Point(0, 1))]
Name == Token(1)
Comma == Token(2)
Number == Token(3)
Note == [Token(4) EXCEPT !.padding = Len3(1, Point(1, 0))]
Item(kid) == ts_subtree_new_node(8, <<kid>>, 0)
Rest(kids) == ts_subtree_new_node(6, kids, 0)
List(kids) == ts_subtree_new_node(5, kids, 0)
Pair(l, r) == ts_subtree_new_node(7, <<l, Comma, r>>, 1)
Then(kid) == Rest(<<Comma, Item(kid)>>)

Names == List(<<Item(Name), Rest(<<Then(Name), Rest(<<Then(Number), Then(Name)>>)>>)>>)
Notes == List(<<Note, Note, Item(Name), Rest(<<Note, Comma, Item(Number)>>)>>)
Pairs == List(<<Item(Pair(Name, Item(Number))),
                Then(Pair(Name, Item(List(<<Item(Number), Then(Name)>>))))>>)
Broken == List(<<Item(Name), ts_subtree_new_error_node(<<Name, Comma>>, TRUE), Then(Number)>>)

\* Patterns.
Plain(kind) == [kind |-> kind, symbol |-> 0, subtype |-> 0, parts |-> << >>, anchors |-> {},
                negated |-> {}, field |-> 0, suffixes |-> << >>]
Pat(sym, parts) == [Plain("node") EXCEPT !.symbol = sym, !.parts = parts]
Leaf(sym) == Pat(sym, << >>)
Text(sym) == [Plain("token") EXCEPT !.symbol = sym]
Group(parts) == [Plain("group") EXCEPT !.parts = parts]
OneOf(parts) == [Plain("alternation") EXCEPT !.parts = parts]
Field(f, part) == [Plain("field") EXCEPT !.field = f, !.parts = <<part>>]
Anchored(p, anchors) == [p EXCEPT !.anchors = anchors]
WithSuffix(p, op, id) == [p EXCEPT !.suffixes = Append(@, [op |-> op, capture |-> id])]
As(p, id) == WithSuffix(p, "@", id)
Opt(p) == WithSuffix(p, "?", 0)
Star(p) == WithSuffix(p, "*", 0)
Plus(p) == WithSuffix(p, "+", 0)

\* (list (name) @1 (number) @2), (list [(name) @1 (number) @2])
PatsChildren == << Pat(5, <<As(Leaf(1), 1), As(Leaf(3), 2)>>),
                   Pat(5, <<OneOf(<<As(Leaf(1), 1), As(Leaf(3), 2)>>)>>) >>
\* (list (name) @1 . (name) @2), (list . (note)* @1 (name)? @2 (number) @1 .)
PatsAnchors == << Anchored(Pat(5, <<As(Leaf(1), 1), As(Leaf(1), 2)>>), {2}),
                  Anchored(Pat(5, <<As(Star(Leaf(4)), 1), As(Opt(Leaf(1)), 2),
                                      As(Leaf(3), 1)>>), {1, 4}) >>
\* (note)+ @1, ((note) @1 . (name) @2), ((name) @1 "," (item) @2)
PatsRootless == << As(Plus(Leaf(4)), 1), Anchored(Group(<<As(Leaf(4), 1), As(Leaf(1), 2)>>), {2}),
                   Group(<<As(Leaf(1), 1), Text(2), As(Leaf(8), 2)>>) >>
\* (pair 1: (_) @1 2: (item) @2), (pair !2) @1, (_ (number) @2) @1, [(name) (number)] @1
PatsPairs == << Pat(7, <<Field(1, As(Leaf(0), 1)), Field(2, As(Leaf(8), 2))>>),
                [As(Leaf(7), 1) EXCEPT !.negated = {2}],
                As(Pat(0, <<As(Leaf(3), 2)>>), 1),
                As(OneOf(<<Leaf(1), Leaf(3)>>), 1) >>

\* Where the walk through the parse table says that a match may end: the children
\* of a list may be of any kind, those of a pair are always there.
QueryChildren == ts_query_new(PatsChildren, {2, 3, 5, 6, 7}, {})
QueryAnchors == ts_query_new(PatsAnchors, {2, 3, 6, 7, 8, 9}, {})
QueryRootless == ts_query_new(PatsRootless, {}, {6})
QueryPairs == ts_query_new(PatsPairs, {}, {})

Everywhere == [start |-> length_zero, end |-> LENGTH_MAX, max_start_depth |-> UINT32_MAX]
Between(l, r) == [Everywhere EXCEPT !.start = Len3(l, Point(0, l)), !.end = Len3(r, Point(0, r))]
DownTo(n) == [Everywhere EXCEPT !.max_start_depth = n]

Task(t, patterns, query) ==
    [tree |-> t, patterns |-> patterns, query |-> query, settings |-> Everywhere,
     limit |-> UINT32_MAX, whole |-> TRUE, late |-> FALSE, removes |-> FALSE, again |-> FALSE]
Children(t) == Task(t, PatsChildren, QueryChildren)
Anchors(t) == Task(t, PatsAnchors, QueryAnchors)
Rootless(t) == Task(t, PatsRootless, QueryRootless)
Fields(t) == [Task(t, PatsPairs, QueryPairs) EXCEPT !.late = TRUE]
Asked(t) == {Children(t), Anchors(t), Rootless(t), Fields(t)}

MCTasks ==
    LET Limited(t, n) == [t EXCEPT !.limit = n, !.whole = FALSE]
        Ranged(t, settings) == [t EXCEPT !.settings = settings, !.whole = FALSE]
        Removing(t) == [t EXCEPT !.removes = TRUE, !.whole = FALSE]
    IN  UNION {Asked(t) : t \in {Names, Notes, Pairs, Broken}}
        \cup {Limited(t, n) : t \in {Children(Names), Anchors(Notes), Fields(Pairs)}, n \in {1, 2}}
        \cup {Ranged(t, s) : t \in {Children(Names), Rootless(Names), Fields(Pairs)},
                             s \in {Between(2, 4), Between(3, 3), DownTo(0)}}
        \cup {Removing(t) : t \in {Children(Names), Limited(Fields(Pairs), 2)}}
        \cup {[Limited(t, 2) EXCEPT !.again = TRUE] : t \in {Anchors(Names), Children(Pairs)}}
MCCaptures == {1, 2}
=============================================================================
