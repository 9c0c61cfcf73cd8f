-------------------------------- MODULE MCTree --------------------------------
(* Trees with hidden nodes, aliases, fields, extras, empty and missing tokens *)
(* on several rows.                                                           *)
(*                                                                            *)
(*   1 name  2 comma (anonymous)  3 newline (hidden, empty)  4 comment        *)
(*   5 list  6 rest of a list (hidden)  7 pair, production 1                  *)
(*   8 its right side (hidden), production 2  9 key, an alias of a hidden 10  *)
EXTENDS TreeClient

Visible == [visible |-> TRUE, named |-> TRUE, supertype |-> FALSE]
Anonymous == [Visible EXCEPT !.named = FALSE]
Hidden == [Visible EXCEPT !.visible = FALSE]

Carries(field, child) == [field |-> field, child |-> child, inherited |-> FALSE]
Inherits(field, child) == [field |-> field, child |-> child, inherited |-> TRUE]

MCLang ==
    [symbol_metadata |-> <<Hidden, Visible, Anonymous, Hidden, Visible, Visible, Hidden,
                           Visible, Hidden, Visible, Hidden>>,
     public_symbol_map |-> [i \in 1 .. 11 |-> i - 1],
     alias_sequences |-> << <<9, 0, 0>>, <<0, 0>> >>,
     field_count |-> 2,
     field_map |-> << <<Carries(1, 0), Inherits(2, 2)>>, <<Carries(2, 1)>> >>]

Gap == Len3(1, Point(0, 1))
NewRow == Len3(2, Point(1, 1))
Token(sym, padding, width) == [Bare(sym) EXCEPT !.padding = padding,
                                                !.size = Len3(width, Point(0, width))]
Name(padding) == Token(1, padding, 1)
Comma == Token(2, length_zero, 1)
Comment(padding) == [Token(4, padding, 1) EXCEPT !.extra = TRUE]
Newline == Token(3, length_zero, 0)
Missing == ts_subtree_new_missing_leaf(1, length_zero, 0)
Rest(kids) == ts_subtree_new_node(6, kids, 0)
List(kids) == ts_subtree_new_node(5, kids, 0)
Pair(kids) == ts_subtree_new_node(7, kids, 1)
Right(kids) == ts_subtree_new_node(8, kids, 2)
Key == Token(10, length_zero, 1)

MCTrees ==
    { List(<<Name(length_zero), Rest(<<Comma, Rest(<<Missing, Missing>>)>>)>>),
      List(<<Name(length_zero), Rest(<<Rest(<<Name(NewRow), Comma>>), Comma>>), Name(Gap)>>),
      List(<<Name(Gap), Rest(<<Rest(<<Comma, Name(NewRow)>>), Rest(<<Comma, Name(Gap)>>)>>)>>),
      List(<<Name(NewRow), Comment(Gap), Rest(<<Comma, Comment(NewRow), Name(length_zero)>>),
             Newline>>),
      Pair(<<Key, Comment(NewRow), Comma, Right(<<Comma, Name(Gap)>>), Comment(length_zero)>>),
      List(<<Pair(<<Key, Comma, Right(<<Comma, Missing>>)>>), Newline, Missing,
             Rest(<<Comma, Pair(<<Key, Comma, Right(<<Comma, Name(NewRow)>>)>>)>>)>>),
      List(<<Missing, Rest(<<Missing, Rest(<<Name(length_zero), Newline, Missing>>)>>)>>) }

\* At the boundaries of the leaves: a row or a character inserted, text removed.
MCEdits(t) ==
    LET starts == {StartAt(t, p) : p \in Range(Places(t))}
        ends == {EndAt(t, p) : p \in Range(Places(t))}
        Replace(from, to, by) == [start |-> from, old_end |-> to, new_end |-> length_add(from, by)]
    IN  {Replace(p[1], p[2], by) : p \in {q \in (starts \cup ends) \X (starts \cup ends) :
                                            /\ q[1].bytes <= q[2].bytes
                                            /\ q[2].bytes <= q[1].bytes + 2},
                                   by \in {length_zero, Gap, NewRow}}
=============================================================================
