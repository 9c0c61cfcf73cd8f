----------------------------- MODULE ParserClient -----------------------------
(* Parsing a document, editing it, parsing it again with the old tree to      *)
(* reuse, and parsing it once more from nothing: ts_parser_parse as a machine *)
(* whose steps are the rounds of its loops, each of which may be cancelled.   *)
(*                                                                            *)
(* `self` is the parser, `call` the variables of the running call (its `pc`   *)
(* names the loop), `doc` the client's: the text, the tree that matches it,   *)
(* the trees parsed so far.                                                   *)
EXTENDS Parser, TreeEdit, SyntaxTree, ChangedRanges

CONSTANTS Documents,        \* the texts the client starts from
          EditsOf(_),       \* the edits [start, old_end, text] of a text
          MaxCancels, OP_COUNT_PER_PARSER_TIMEOUT_CHECK

VARIABLES self, call, doc
vars == << self, call, doc >>

\* `rounds` counts what operation_count counts, without starting over.
Idle == [pc |-> "idle", version |-> 1, version_count |-> 0, allow_node_reuse |-> FALSE,
         last_position |-> 0, rounds |-> 0, c |-> << >>]

Init ==
    /\ self = ts_parser_new
    /\ call = Idle
    /\ \E text \in Documents :
          doc = [text |-> text, tree |-> NULL_SUBTREE, parsed |-> << >>,
                 edit |-> NULL_SUBTREE, edited |-> NULL_SUBTREE, cancels |-> 0]

-----------------------------------------------------------------------------
(* The client.                                                                *)

\* The first parse and the last have no old tree.
OldTree == IF Len(doc.parsed) = 1 THEN doc.edited ELSE NULL_SUBTREE

\* The start of ts_parser_parse: an unfinished parse goes on.
ts_parser_parse ==
    /\ call.pc = "idle"
    /\ Len(doc.parsed) < 3 /\ (Len(doc.parsed) = 1 => ~IsNull(doc.edit))
    /\ LET given == [self EXCEPT !.text = doc.text, !.stack = LowerErrorMark(@, 1)]
       IN  self' = IF ts_parser_has_outstanding_parse(self) THEN given
                   ELSE [given EXCEPT
                            !.external_scanner_payload = ScannerHasPayload,
                            !.old_tree = OldTree,
                            !.reusable_node = IF IsNull(OldTree) THEN ReusableNothing
                                              ELSE reusable_node_reset(OldTree)]
    /\ call' = [Idle EXCEPT !.pc = "versions"]
    /\ UNCHANGED doc

\* After a cancelled call the client may give up the parse.
Reset ==
    /\ call.pc = "idle" /\ ts_parser_has_outstanding_parse(self)
    /\ self' = ts_parser_reset(self)
    /\ UNCHANGED << call, doc >>

\* ts_tree_edit, and the change of the text that it tells of.
ts_tree_edit ==
    /\ call.pc = "idle" /\ Len(doc.parsed) = 1 /\ IsNull(doc.edit)
    /\ \E e \in EditsOf(doc.text) :
          LET new == SubSeq(doc.text, 1, e.start) \o e.text
                        \o SubSeq(doc.text, e.old_end + 1, Len(doc.text))
              edit == [start |-> PositionAt(doc.text, e.start),
                       old_end |-> PositionAt(doc.text, e.old_end),
                       new_end |-> PositionAt(new, e.start + Len(e.text))]
              tree == ts_subtree_edit(doc.tree, edit)
          IN  doc' = [doc EXCEPT !.text = new, !.edit = edit, !.edited = tree, !.tree = tree]
    /\ UNCHANGED << self, call >>

-----------------------------------------------------------------------------
(* The loops of ts_parser_parse.                                              *)

\* The head of the loop over the versions.
NextVersion ==
    /\ call.pc = "versions"
    /\ LET count == ts_stack_version_count(self.stack)
       IN  call' = [call EXCEPT !.pc = IF call.version > count THEN "condense" ELSE "advance",
                                !.version_count = count, !.allow_node_reuse = count = 1]
    /\ UNCHANGED << self, doc >>

\* A version that is active gets its next token, another one its turn's end.
StartAdvance ==
    /\ call.pc = "advance"
    /\ IF ts_stack_is_active(self.stack, call.version)
       THEN \E first \in {FirstLookahead(self, call.version, call.allow_node_reuse)} :
                /\ self' = first.self
                /\ call' = [call EXCEPT !.pc = "round", !.c = first.c]
       ELSE /\ call' = [call EXCEPT !.pc = "versions", !.version = @ + 1]
            /\ UNCHANGED self
    /\ UNCHANGED doc

\* One round of ts_parser__advance, and the test that ends a version's turn.
RoundAfterLexing(lexed) == ts_parser__advance(lexed.self, call.version, lexed.c)
TurnEnds(position) ==
    \/ position > call.last_position
    \/ call.version > 1 /\ position = call.last_position
AfterRound(round, position) ==
    LET counted == [call EXCEPT !.rounds = @ + 1]
        ended == [counted EXCEPT !.c = << >>]
    IN  IF round.outcome = "more" THEN [counted EXCEPT !.c = round.c]
        ELSE IF TurnEnds(position)
        THEN [ended EXCEPT !.pc = "versions", !.version = @ + 1, !.last_position = position]
        ELSE [ended EXCEPT !.pc = "advance"]
AdvanceRound ==
    /\ call.pc = "round"
    /\ \E round \in {RoundAfterLexing(LexIfNeeded(self, call.version, call.c))} :
          /\ self' = round.self
          /\ call' = AfterRound(round, ts_stack_position(round.self.stack, call.version).bytes)
    /\ UNCHANGED doc

\* The cancellation flag or the timeout, which some rounds look at, is seen
\* after the token was lexed: the call returns nothing, the parser keeps what
\* it has.
Cancel ==
    /\ call.pc = "round" /\ doc.cancels < MaxCancels
    /\ (call.rounds + 1) % OP_COUNT_PER_PARSER_TIMEOUT_CHECK = 0
    /\ self' = LexIfNeeded(self, call.version, call.c).self
    /\ call' = Idle
    /\ doc' = [doc EXCEPT !.cancels = @ + 1]

\* The end of a round over all versions: a finished tree that no version can
\* beat ends the parse, and so does having no version left.
Beaten(condensed) ==
    /\ ~IsNull(condensed.self.finished_tree)
    /\ ts_subtree_error_cost(condensed.self.finished_tree) < condensed.min_cost
CondenseStack ==
    /\ call.pc = "condense"
    /\ \E condensed \in {ts_parser__condense_stack(self)} :
          /\ self' = IF Beaten(condensed) THEN [condensed.self EXCEPT !.stack = ts_stack_clear(@)]
                     ELSE condensed.self
          /\ call' = IF Beaten(condensed) \/ call.version_count = 0
                     THEN [call EXCEPT !.pc = "finish"]
                     ELSE [call EXCEPT !.pc = "versions", !.version = 1]
    /\ UNCHANGED doc

\* Nodes the old tree shares are not rebalanced.
SharedWith(old_tree) == IF IsNull(old_tree) THEN {} ELSE SubtreesOf(old_tree)
FinishParse ==
    /\ call.pc = "finish"
    /\ self' = ts_parser_reset(ts_assert(self, ~IsNull(self.finished_tree)))
    /\ \E tree \in {ts_subtree_balance(self.finished_tree, SharedWith(self.old_tree))} :
          doc' = [doc EXCEPT !.tree = tree, !.parsed = Append(@, tree)]
    /\ call' = Idle

Finished == call.pc = "idle" /\ Len(doc.parsed) = 3 /\ UNCHANGED vars

ParserStep == NextVersion \/ StartAdvance \/ AdvanceRound \/ CondenseStack \/ FinishParse
Next == ts_parser_parse \/ Reset \/ ts_tree_edit \/ ParserStep \/ Cancel \/ Finished

Spec == Init /\ [][Next]_vars

-----------------------------------------------------------------------------
(* Properties.                                                                *)

\* No assertion of parser.c fails: the versions put in the error state by
\* ts_parser__handle_error merge, ts_stack_pop_error gives at most one tree,
\* ts_parser__accept finds a root and is given the end of the text, and a parse
\* that ends has a tree.
AssertionsHold == self.asserts_hold

\* A leaf stands on blanks and, after them, on a token of its own kind.
StandsOnItsToken(l, text) ==
    LET at == l.from.bytes + l.leaf.padding.bytes
        end == at + l.leaf.size.bytes
        scan == Scan(text, l.from.bytes, 0 .. Lang.token_count - 1)
        word == l.leaf.symbol = KeywordToken
    IN  /\ scan.at = at /\ scan.end = end
        /\ scan.symbol = IF word THEN Lang.keyword_capture_token ELSE l.leaf.symbol
        /\ word => ts_parser__call_keyword_lex_fn(text, at) = [found |-> TRUE, end |-> end]

\* The leaves that were lexed from this text.
Lexed(t) == SelectSeq(Leaves(t), LAMBDA l : ~l.leaf.is_missing /\ ~ts_subtree_is_error(l.leaf))

\* A parsed tree covers its text: sizes add up, all of the text is in it and
\* every token of it is where the tree says.  Reusing a node of the old tree
\* for text that has changed would break this.
TreesMatchText ==
    LET t == doc.tree IN
    (call.pc = "idle" /\ doc.parsed # << >> /\ Last(doc.parsed) = t) =>
        /\ SizesAddUp(t)
        /\ ts_subtree_total_size(t) = PositionAt(doc.text, Len(doc.text))
        /\ \A i \in DOMAIN Lexed(t) : StandsOnItsToken(Lexed(t)[i], doc.text)

\* What ts_subtree_edit leaves unmarked may be reused without lexing: it must
\* still stand on its token, in the new text and at its new place.
UnmarkedLeavesUnchanged ==
    (call.pc = "idle" /\ Len(doc.parsed) = 1 /\ ~IsNull(doc.edit)) =>
        /\ SizesAddUp(doc.tree)
        /\ ts_subtree_total_size(doc.tree) = PositionAt(doc.text, Len(doc.text))
        /\ \A i \in DOMAIN Lexed(doc.tree) :
              Lexed(doc.tree)[i].leaf.has_changes
                \/ StandsOnItsToken(Lexed(doc.tree)[i], doc.text)

\* Parsing with an old tree to reuse, cancelled or not, gives what parsing from
\* nothing gives, for a text without errors.
IncrementalEqualsFresh ==
    (Len(doc.parsed) = 3 /\ doc.parsed[3].error_cost = 0) =>
        VisibleTree(doc.parsed[2]) = VisibleTree(doc.parsed[3])

\* A byte whose scopes (the visible nodes around it) differ between the edited
\* tree and the new one lies in a range ts_tree_get_changed_ranges reports.
ChangesReported ==
    (call.pc = "idle" /\ Len(doc.parsed) = 2) =>
        \A ranges \in {ts_subtree_get_changed_ranges(doc.edited, doc.parsed[2], << >>)} :
            \A b \in 0 .. Len(doc.text) - 1 :
                \/ Scopes(doc.edited, b) = Scopes(doc.parsed[2], b)
                \/ \E i \in DOMAIN ranges : ranges[i].start.bytes <= b /\ b < ranges[i].end.bytes

\* Every call returns, whatever the text: the rounds it takes are bounded by
\* the length of the text.
RoundsBounded == call.rounds <= 12 * (Len(doc.text) + 1)
=============================================================================
