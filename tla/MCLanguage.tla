------------------------------ MODULE MCLanguage ------------------------------
(* The tables of a small language, in the form the parser generator gives     *)
(* them: statements in sequence (a hidden, left-recursive repetition), sums   *)
(* and calls that make it ambiguous, a keyword, a comment that may stand      *)
(* anywhere, and one external token.                                          *)
(*                                                                            *)
(*   0 end  1 !  2 identifier  3 k  4 (  5 )  6 +  7 #                        *)
(*   8 program -> | rep          9 stmt -> _e | k _e | !                      *)
(*  10 sum -> _e + _e           11 paren -> ( _e )                            *)
(*  12 call -> identifier paren, the identifier aliased to 15                 *)
(*  13 rep -> rep rep | stmt    14 _e -> identifier | sum | paren | call      *)
EXTENDS Integers, Sequences

Shift(s) == [type |-> "Shift", state |-> s, extra |-> FALSE, repetition |-> FALSE]
ShiftRepetition(s) == [Shift(s) EXCEPT !.repetition = TRUE]
ShiftExtra == [Shift(0) EXCEPT !.extra = TRUE]
Reduce(sym, n) == [type |-> "Reduce", symbol |-> sym, child_count |-> n,
                   dynamic_precedence |-> 0, production_id |-> 0]
ReduceCall == [Reduce(12, 2) EXCEPT !.dynamic_precedence = 1, !.production_id = 1]
Recover == [type |-> "Recover"]
Accept == [type |-> "Accept"]
Entry(actions) == [actions |-> actions, reusable |-> TRUE]

Actions == <<
    [actions |-> << >>, reusable |-> FALSE],
    [actions |-> <<Recover>>, reusable |-> FALSE], Entry(<<ShiftExtra>>),
    Entry(<<Reduce(8, 0)>>), Entry(<<Shift(2)>>), Entry(<<Shift(3)>>),
    Entry(<<Shift(4)>>), Entry(<<Shift(5)>>), Entry(<<Reduce(9, 1)>>),
    Entry(<<Reduce(14, 1)>>), Entry(<<Reduce(14, 1), Shift(5)>>),
    Entry(<<Accept>>), Entry(<<Reduce(13, 1)>>), Entry(<<Reduce(8, 1)>>),
    Entry(<<Shift(17)>>), Entry(<<ReduceCall>>), Entry(<<Reduce(9, 2)>>),
    Entry(<<Shift(18)>>), Entry(<<Reduce(13, 2)>>),
    Entry(<<Reduce(13, 2), ShiftRepetition(2)>>),
    Entry(<<Reduce(13, 2), ShiftRepetition(3)>>),
    Entry(<<Reduce(13, 2), ShiftRepetition(4)>>),
    Entry(<<Reduce(13, 2), ShiftRepetition(5)>>), Entry(<<Reduce(11, 3)>>),
    Entry(<<Reduce(10, 3)>>), Entry(<<Reduce(10, 3), Shift(17)>>)>>

\* A row for each state up to the first small one: symbols 0 to 14.
Rows == <<
    <<1, 1, 1, 1, 1, 1, 1, 2, 0, 0, 0, 0, 0, 0, 0>>,
    <<3, 4, 5, 6, 7, 0, 0, 2, 6, 7, 8, 9, 10, 11, 12>>,
    <<8, 8, 8, 8, 8, 0, 0, 2, 0, 0, 0, 0, 0, 0, 0>>,
    <<9, 9, 9, 9, 10, 9, 9, 2, 0, 0, 0, 13, 0, 0, 0>>,
    <<0, 0, 5, 0, 7, 0, 0, 2, 0, 0, 8, 9, 10, 0, 14>>,
    <<0, 0, 5, 0, 7, 0, 0, 2, 0, 0, 8, 9, 10, 0, 15>>,
    <<11, 0, 0, 0, 0, 0, 0, 2, 0, 0, 0, 0, 0, 0, 0>>,
    <<12, 12, 12, 12, 12, 0, 0, 2, 0, 0, 0, 0, 0, 0, 0>>,
    <<9, 9, 9, 9, 9, 9, 9, 2, 0, 0, 0, 0, 0, 0, 0>>,
    <<9, 9, 9, 9, 9, 9, 9, 2, 0, 0, 0, 0, 0, 0, 0>>>>

Groups == <<
    <<[value |-> 9, symbols |-> {0, 1, 2, 3, 4, 5, 6}],
      [value |-> 2, symbols |-> {7}]>>,
    <<[value |-> 13, symbols |-> {0}], [value |-> 4, symbols |-> {1}],
      [value |-> 5, symbols |-> {2}], [value |-> 6, symbols |-> {3}],
      [value |-> 7, symbols |-> {4}], [value |-> 2, symbols |-> {7}],
      [value |-> 7, symbols |-> {9}], [value |-> 8, symbols |-> {10}],
      [value |-> 9, symbols |-> {11}], [value |-> 10, symbols |-> {12}],
      [value |-> 16, symbols |-> {13}], [value |-> 12, symbols |-> {14}]>>,
    <<[value |-> 8, symbols |-> {0, 1, 2, 3, 4}], [value |-> 14, symbols |-> {6}],
      [value |-> 2, symbols |-> {7}]>>,
    <<[value |-> 15, symbols |-> {0, 1, 2, 3, 4, 5, 6}],
      [value |-> 2, symbols |-> {7}]>>,
    <<[value |-> 16, symbols |-> {0, 1, 2, 3, 4}], [value |-> 14, symbols |-> {6}],
      [value |-> 2, symbols |-> {7}]>>,
    <<[value |-> 17, symbols |-> {5}], [value |-> 14, symbols |-> {6}],
      [value |-> 2, symbols |-> {7}]>>,
    <<[value |-> 18, symbols |-> {0}], [value |-> 19, symbols |-> {1}],
      [value |-> 20, symbols |-> {2}], [value |-> 21, symbols |-> {3}],
      [value |-> 22, symbols |-> {4}], [value |-> 2, symbols |-> {7}],
      [value |-> 7, symbols |-> {9}], [value |-> 8, symbols |-> {10}],
      [value |-> 9, symbols |-> {11}], [value |-> 10, symbols |-> {12}],
      [value |-> 16, symbols |-> {13}], [value |-> 12, symbols |-> {14}]>>,
    <<[value |-> 5, symbols |-> {2}], [value |-> 7, symbols |-> {4}],
      [value |-> 2, symbols |-> {7}], [value |-> 8, symbols |-> {10}],
      [value |-> 9, symbols |-> {11}], [value |-> 10, symbols |-> {12}],
      [value |-> 19, symbols |-> {14}]>>,
    <<[value |-> 23, symbols |-> {0, 1, 2, 3, 4, 5, 6}],
      [value |-> 2, symbols |-> {7}]>>,
    <<[value |-> 24, symbols |-> {0, 1, 2, 3, 4, 5}],
      [value |-> 25, symbols |-> {6}], [value |-> 2, symbols |-> {7}]>>>>

Visible == [visible |-> TRUE, named |-> TRUE, supertype |-> FALSE]
Anonymous == [Visible EXCEPT !.named = FALSE]
Hidden == [Visible EXCEPT !.visible = FALSE]
Repeat == [Hidden EXCEPT !.named = FALSE]

\* Which tokens the main lexing function looks for in each lexing state.
LexStates == <<{0, 2, 4, 5, 6, 7}, {0, 2, 4, 7}, {2, 4, 7}, {0, 7}, {0, 2, 4, 6, 7}, {5, 6, 7}>>

MCLang ==
    LET Mode(lex, external) == [lex_state |-> lex, external_lex_state |-> external] IN
    [token_count |-> 8, symbol_count |-> 15, external_token_count |-> 1,
     state_count |-> 20, large_state_count |-> 10, keyword_capture_token |-> 2,
     parse_actions |-> Actions, parse_table |-> Rows, small_parse_table |-> Groups,
     symbol_metadata |->
        <<Hidden, Visible, Visible, Anonymous, Anonymous, Anonymous, Anonymous, Visible,
          Visible, Visible, Visible, Visible, Visible, Repeat, Hidden, Visible>>,
     public_symbol_map |-> [i \in 1 .. 16 |-> i - 1],
     alias_sequences |-> << <<15, 0>> >>,
     field_count |-> 2,
     field_map |-> << <<[field |-> 1, child |-> 0, inherited |-> FALSE],
                       [field |-> 2, child |-> 1, inherited |-> FALSE]>> >>,
     lex_states |-> LexStates,
     lex_modes |-> <<
        Mode(1, 1), Mode(2, 1), Mode(2, 1), Mode(1, 1), Mode(3, 0), Mode(3, 0),
        Mode(4, 0), Mode(2, 1), Mode(1, 1), Mode(1, 1), Mode(1, 1), Mode(2, 1),
        Mode(5, 1), Mode(1, 1), Mode(5, 1), Mode(6, 0), Mode(2, 1), Mode(3, 0),
        Mode(1, 1), Mode(1, 1)>>]
=============================================================================
