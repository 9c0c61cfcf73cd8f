----------------------------- MODULE ParserTokens -----------------------------
(* The parser's state and where its next token comes from: the lexer, the     *)
(* token cache or the old tree (parser.c, reusable_node.h).  The state is a   *)
(* record with the fields of TSParser that a parse reads; the functions are   *)
(* operators on it.  Module Parser has what is done with the token, module    *)
(* ParserClient makes the steps of ts_parser_parse actions.                   *)
(*                                                                            *)
(* The text is a sequence of characters of one byte each, all of it included  *)
(* (module Lexer has the chunks and the included ranges).  Trees are values,  *)
(* so retaining and releasing them leaves no trace here; asserts_hold becomes *)
(* FALSE when an assertion of the code fails.                                 *)
EXTENDS Stack

CONSTANTS MAX_VERSION_COUNT, MAX_VERSION_COUNT_OVERFLOW, MAX_SUMMARY_DEPTH,
          MAX_COST_DIFFERENCE,
          ScannerHasPayload  \* whether the scanner's create returns a payload

ReusableNothing == [entries |-> << >>, last_external_token |-> NULL_SUBTREE]
CacheNothing == [token |-> NULL_SUBTREE, byte_index |-> 0,
                 last_external_token |-> NULL_SUBTREE]

ts_parser_new ==
    [stack |-> ts_stack_new, text |-> << >>, reusable_node |-> ReusableNothing,
     token_cache |-> CacheNothing, finished_tree |-> NULL_SUBTREE, accept_count |-> 0,
     old_tree |-> NULL_SUBTREE, external_scanner_payload |-> FALSE,
     asserts_hold |-> TRUE]

ts_parser_reset(self) ==
    [self EXCEPT !.external_scanner_payload = FALSE, !.old_tree = NULL_SUBTREE,
                 !.reusable_node = ReusableNothing, !.stack = ts_stack_clear(@),
                 !.token_cache = CacheNothing, !.finished_tree = NULL_SUBTREE,
                 !.accept_count = 0]

ts_assert(self, condition) == [self EXCEPT !.asserts_hold = @ /\ condition]

-----------------------------------------------------------------------------
(* The walk over the old tree: a path of entries from its root, the last one  *)
(* the node that may be reused next.                                          *)

reusable_node_tree(r) ==
    IF r.entries = << >> THEN NULL_SUBTREE ELSE Last(r.entries).tree
reusable_node_byte_offset(r) ==
    IF r.entries = << >> THEN UINT32_MAX ELSE Last(r.entries).byte_offset

\* The entries left when those without a next sibling are popped, and the
\* next sibling.
reusable_node_advance(r) ==
    LET here == Last(r.entries)
        offset == here.byte_offset + ts_subtree_total_bytes(here.tree)
        token == IF here.tree.has_external_tokens
                 THEN ts_subtree_last_external_token(here.tree) ELSE r.last_external_token
        HasNext(d) == d > 1 /\ Len(r.entries[d - 1].tree.children) > r.entries[d].child_index
        depths == {d \in DOMAIN r.entries : HasNext(d)}
        d == Max(depths)
        index == r.entries[d].child_index + 1
        next == [tree |-> r.entries[d - 1].tree.children[index], child_index |-> index,
                 byte_offset |-> offset]
    IN  [entries |-> IF depths = {} THEN << >>
                     ELSE Append(SubSeq(r.entries, 1, d - 1), next),
         last_external_token |-> token]

CanDescend(r) == Last(r.entries).tree.children # << >>
reusable_node_descend(r) ==
    LET here == Last(r.entries)
    IN  [r EXCEPT !.entries = Append(@, [tree |-> here.tree.children[1], child_index |-> 1,
                                         byte_offset |-> here.byte_offset])]

RECURSIVE reusable_node_advance_past_leaf(_)
reusable_node_advance_past_leaf(r) ==
    IF CanDescend(r) THEN reusable_node_advance_past_leaf(reusable_node_descend(r))
    ELSE reusable_node_advance(r)

\* The root itself is never reused.
reusable_node_reset(tree) ==
    LET root == [ReusableNothing EXCEPT !.entries =
                    << [tree |-> tree, child_index |-> 1, byte_offset |-> 0] >>]
    IN  IF CanDescend(root) THEN reusable_node_descend(root) ELSE ReusableNothing

-----------------------------------------------------------------------------
(* Lexing.                                                                    *)

\* The position of byte i of the text, counted from 0.
PositionAt(text, i) ==
    LET breaks == {j \in 1 .. i : text[j] = "\n"}
    IN  Len3(i, Point(Cardinality(breaks),
                      IF breaks = {} THEN i ELSE i - Max(breaks)))

\* The generated lexing functions: white space is skipped, a word is as long as
\* can be, any other token is one character.  `at` is where the token starts,
\* `end` where it ends and reading stops.
KeywordToken == 3
CharToken == ("!" :> 1) @@ ("(" :> 4) @@ (")" :> 5) @@ ("+" :> 6) @@ ("#" :> 7)
WordChars == {"a", "k"}
Blanks == {" ", "\n"}
SkipWhile(text, from, chars) ==
    CHOOSE i \in from .. Len(text) :
        /\ i = Len(text) \/ text[i + 1] \notin chars
        /\ \A j \in from + 1 .. i : text[j] \in chars

Scan(text, from, tokens) ==
    LET at == SkipWhile(text, from, Blanks)
        word == SkipWhile(text, at, WordChars)
        sym == CASE at = Len(text) -> ts_builtin_sym_end
                 [] word > at -> Lang.keyword_capture_token
                 [] text[at + 1] \in DOMAIN CharToken -> CharToken[text[at + 1]]
                 [] OTHER -> -1
        end == CASE word > at -> word
                 [] sym > 0 -> at + 1
                 [] OTHER -> at
    IN  IF sym \in tokens THEN [found |-> TRUE, symbol |-> sym, at |-> at, end |-> end]
        ELSE [found |-> FALSE, symbol |-> 0, at |-> at, end |-> at]

ts_parser__call_main_lex_fn(text, from, mode) ==
    Scan(text, from, Lang.lex_states[mode.lex_state])

\* The keyword is k; a word that goes on after it is found to begin with it.
ts_parser__call_keyword_lex_fn(text, at) == [found |-> text[at + 1] = "k", end |-> at + 1]

\* The external scanner recognizes ! and remembers how many it has seen, modulo 2.
ts_parser__external_scanner_scan(text, from, state) ==
    [result |-> Scan(text, from, {1}),
     state |-> IF state = << >> THEN << "odd" >> ELSE << >>]

\* A parse state of the mode "no lookahead" ends a non-terminal extra.
NO_LEX_STATE == 65535
LexMode(state) == Lang.lex_modes[state + 1]

\* The main loop of the lexer.  `l` holds its variables; skipping starts once
\* neither the state's tokens nor, from the start again, any token matches.
RECURSIVE LexLoop(_, _, _)

\* The next character is skipped, as part of an error.
LexSkip(self, v, l, main) ==
    LET next == IF main.end = l.error_end THEN main.end + 1 ELSE main.end IN
    IF main.end = l.error_end /\ main.end = Len(self.text) THEN l
    ELSE LexLoop(self, v, [l EXCEPT !.pos = next, !.error_end = next])

\* One round: the scanner `ext` found something, or the generated lexer `main`
\* did, or neither.
LexRound(self, v, l, before, ext, main) ==
    LET tries_ext == l.mode.external_lex_state # 0
        empty == /\ ext.result.end <= l.pos
                 /\ l.error_mode \/ ~ts_stack_has_advanced_since_error(self.stack, v)
                 /\ ext.state = before
        external == tries_ext /\ ext.result.found /\ ~empty
        look == Max({l.look} \cup (IF external THEN {} ELSE {main.end + 1})
                             \cup (IF tries_ext THEN {ext.result.end + 1} ELSE {}))
    IN  IF external
        THEN [l EXCEPT !.external = TRUE, !.token = ext.result, !.scanner_state = ext.state,
                       !.look = look]
        ELSE IF main.found THEN [l EXCEPT !.token = main, !.look = look]
        ELSE IF ~l.error_mode
        THEN LexLoop(self, v, [l EXCEPT !.error_mode = TRUE, !.mode = LexMode(ERROR_STATE),
                                        !.pos = l.start, !.look = look])
        ELSE LexSkip(self, v,
                     IF l.skipped THEN [l EXCEPT !.look = look]
                     ELSE [l EXCEPT !.skipped = TRUE, !.error_start = main.at,
                                    !.error_end = main.at, !.look = look], main)
ScannerStateBefore(self, v) ==
    ts_subtree_external_scanner_state(ts_stack_last_external_token(self.stack, v))
LexLoop(self, v, l) ==
    LexRound(self, v, l, ScannerStateBefore(self, v),
             ts_parser__external_scanner_scan(self.text, l.pos, ScannerStateBefore(self, v)),
             ts_parser__call_main_lex_fn(self.text, l.pos, l.mode))

\* The leaf for what the loop found.  A word may be a keyword: it counts as one if it
\* begins with one, and takes its symbol if it also ends there and the state allows it.
LexedLeaf(self, v, parse_state, l) ==
    LET token == l.token
        start == ts_stack_position(self.stack, v)
        Padding(i) == length_sub(PositionAt(self.text, i), start)
        Size(i, j) == length_sub(PositionAt(self.text, j), PositionAt(self.text, i))
        scan == ts_parser__call_keyword_lex_fn(self.text, token.at)
        is_keyword == /\ ~l.external /\ token.symbol = Lang.keyword_capture_token
                      /\ scan.found
    IN  IF l.skipped
        THEN ts_subtree_new_error(Padding(l.error_start), Size(l.error_start, l.error_end),
                                  l.look - l.error_end, parse_state)
        ELSE [ts_subtree_new_leaf(
                 IF /\ is_keyword /\ scan.end = token.end
                    /\ ts_language_has_actions(parse_state, KeywordToken)
                 THEN KeywordToken ELSE token.symbol,
                 Padding(token.at), Size(token.at, token.end), l.look - token.end,
                 parse_state, l.external, FALSE, is_keyword)
              EXCEPT !.scanner_state = IF l.external THEN l.scanner_state ELSE @,
                     !.has_external_scanner_state_change =
                        l.external /\ l.scanner_state # ScannerStateBefore(self, v)]

ts_parser__lex(self, v, parse_state) ==
    LET start == ts_stack_position(self.stack, v).bytes IN
    IF LexMode(parse_state).lex_state = NO_LEX_STATE THEN NULL_SUBTREE
    ELSE LexedLeaf(self, v, parse_state,
            LexLoop(self, v, [start |-> start, pos |-> start, mode |-> LexMode(parse_state),
                              error_mode |-> parse_state = ERROR_STATE,
                              skipped |-> FALSE, error_start |-> 0, error_end |-> 0, look |-> 0,
                              external |-> FALSE, token |-> 0, scanner_state |-> << >>]))

\* Whether the first leaf of a tree is the token the lexer would find here.
ts_parser__can_reuse_first_leaf(state, tree, entry) ==
    LET leaf == ts_subtree_leaf_symbol(tree)
        word == leaf = Lang.keyword_capture_token
    IN  /\ LexMode(state).lex_state # NO_LEX_STATE
        /\ \/ /\ entry.actions # << >>
              /\ LexMode(ts_subtree_leaf_parse_state(tree)) = LexMode(state)
              /\ word => ~tree.is_keyword /\ tree.parse_state = state
           \/ /\ tree.size.bytes # 0 \/ leaf = ts_builtin_sym_end
              /\ LexMode(state).external_lex_state = 0 /\ entry.reusable

ts_parser__get_cached_token(self, state, position, token) ==
    LET cache == self.token_cache
    IN  IF /\ ~IsNull(cache.token) /\ cache.byte_index = position
           /\ ts_subtree_external_scanner_state_eq(cache.last_external_token, token)
           /\ ts_parser__can_reuse_first_leaf(
                  state, cache.token, ts_language_table_entry(state, cache.token.symbol))
        THEN cache.token ELSE NULL_SUBTREE

ts_parser__set_cached_token(self, position, token, leaf) ==
    [self EXCEPT !.token_cache = [token |-> leaf, byte_index |-> position,
                                  last_external_token |-> token]]
=============================================================================
