----------------------------- MODULE LexerClient -----------------------------
(* The lexer as the parser and the scanners of a language drive it: a text    *)
(* and ranges are set, the lexer is moved to a position, a token is begun,    *)
(* the scanner advances, marks ends and asks for the column in any order, and *)
(* the token is finished.  Between two parses the text and the ranges may     *)
(* change: the ranges of the old tree follow the edit (ts_tree_edit), and the *)
(* next parse compares them with its own.                                     *)
EXTENDS Lexer

CONSTANTS Texts,            \* the texts of the instance
          MaxRanges,        \* how many ranges a caller includes
          MaxEdited,        \* how long a text that is edited may be
          MaxCalls          \* how many calls a scanner makes for one token

VARIABLES lexer,
          phase,            \* "idle", "ready", "scanning", "finished" or "stranded"
          calls,            \* what the scanner called since the token was begun
          begun,            \* the lexer when the token was begun
          lookahead_end,    \* lookahead_end_byte
          tree              \* what is kept of the old tree, and the last differences
vars == <<lexer, phase, calls, begun, lookahead_end, tree>>

\* Rows and columns are counted from the newlines of the text.
ASSUME TextAssumption ==
    /\ \A text \in Texts : text \in Seq(Bytes) /\ Len(text) < UINT32_MAX
    /\ MaxRanges \in Nat /\ MaxCalls \in Nat
    /\ MaxEdited \in Nat /\ MaxEdited + 2 < UINT32_MAX

\* The position of byte b of a text, with its row and column in bytes.
RowStart(text, b) ==
    CHOOSE s \in 0 .. b : /\ s = 0 \/ text[s] = "n"
                          /\ \A i \in s + 1 .. b : text[i] # "n"
PositionOf(text, b) ==
    Len3(b, Point(Cardinality({i \in 1 .. b : text[i] = "n"}), b - RowStart(text, b)))

\* Where the characters of a text begin, its end included.
Boundaries(text) ==
    {b \in 0 .. Len(text) :
        b \in 1 .. Len(text) - 1 /\ text[b] \in LeadBytes => text[b + 1] # "C"}

\* The lists of ranges a caller may include: any that begin and end with a
\* character, those that are refused among them.
RangeLists(text) ==
    SeqOf({IncludedRange(PositionOf(text, from), PositionOf(text, to)) :
             from, to \in Boundaries(text)}, MaxRanges)

NoTree == [ranges |-> << >>, edited |-> FALSE, before |-> << >>, edit |-> << >>,
           differences |-> << >>]

Init ==
    /\ \E text \in Texts : \E ranges \in RangeLists(text) :
         lexer = ts_lexer_set_included_ranges(ts_lexer_set_input(ts_lexer_init, text), ranges)
    /\ phase = "idle" /\ calls = << >> /\ begun = << >> /\ lookahead_end = 0 /\ tree = NoTree

-----------------------------------------------------------------------------
(* Between parses.                                                            *)

\* The parse is over: its ranges are stored with the tree.
EndParse ==
    /\ phase = "idle" /\ tree = NoTree /\ Len(lexer.text) <= MaxEdited
    /\ tree' = [tree EXCEPT !.ranges = lexer.ranges]
    /\ lexer' = ts_lexer_reset(lexer, length_zero)
    /\ UNCHANGED <<phase, calls, begun, lookahead_end>>

\* One span of characters is replaced: the new text, and the edit it amounts to.
Edit(start, old_end, inserted) ==
    LET text == lexer.text
        edited == SubSeq(text, 1, start) \o inserted \o SubSeq(text, old_end + 1, Len(text))
    IN  [text |-> edited,
         start |-> PositionOf(text, start), old_end |-> PositionOf(text, old_end),
         new_end |-> PositionOf(edited, start + Len(inserted))]

\* The text is edited and parsed again with other ranges (ts_tree_edit,
\* ts_parser_set_included_ranges, ts_parser_parse).
Reparse ==
    /\ phase = "idle" /\ tree.ranges # << >> /\ ~tree.edited
    /\ \E start, old_end \in Boundaries(lexer.text), inserted \in {<< >>, <<"n", "a">>} :
         /\ start <= old_end
         /\ LET edit == Edit(start, old_end, inserted)
                moved == EditIncludedRanges(tree.ranges, edit)
            IN  \E ranges \in RangeLists(edit.text) :
                  LET next == ts_lexer_set_input(ts_lexer_set_included_ranges(lexer, ranges),
                                                 edit.text)
                  IN  /\ lexer' = next
                      /\ tree' = [ranges |-> moved, edited |-> TRUE, before |-> tree.ranges,
                                  edit |-> edit,
                                  differences |-> ts_range_array_get_changed_ranges(
                                                    moved, next.ranges)]
    /\ UNCHANGED <<phase, calls, begun, lookahead_end>>

-----------------------------------------------------------------------------
(* A token.                                                                   *)

Reset(position) ==
    /\ phase = "idle" /\ tree = NoTree
    /\ lexer' = ts_lexer_reset(lexer, position)
    /\ phase' = "ready"
    /\ UNCHANGED <<calls, begun, lookahead_end, tree>>

Start ==
    /\ phase = "ready"
    /\ begun' = lexer
    /\ lexer' = ts_lexer_start(lexer)
    /\ phase' = "scanning"
    /\ UNCHANGED <<calls, lookahead_end, tree>>

Scan(call, after) ==
    /\ phase = "scanning" /\ Len(calls) < MaxCalls
    /\ calls' = Append(calls, call)
    /\ lexer' = after
    /\ UNCHANGED <<begun, lookahead_end, tree>>

Advance(skip) ==
    /\ Scan(IF skip THEN "skip" ELSE "advance", ts_lexer__advance(lexer, skip))
    /\ UNCHANGED phase
MarkEnd == Scan("mark_end", ts_lexer__mark_end(lexer)) /\ UNCHANGED phase
\* A chunk at the end of the input: the next advance would read the range behind the
\* last one.  What it finds there is undefined, and the model does not go on.
Stranded(self) == HasChunk(self) /\ ts_lexer__eof(self)
GetColumn ==
    LET after == ts_lexer__get_column(lexer).lexer IN
    /\ Scan("get_column", after)
    /\ phase' = IF Stranded(after) THEN "stranded" ELSE phase

Finish ==
    /\ phase = "scanning"
    /\ lexer' = ts_lexer_finish(lexer)
    /\ lookahead_end' = LookaheadEnd(lexer)
    /\ phase' = "finished"
    /\ UNCHANGED <<calls, begun, tree>>

Next ==
    \/ EndParse
    \/ Reparse
    \/ \E b \in Boundaries(lexer.text) : Reset(PositionOf(lexer.text, b))
    \/ Start
    \/ \E skip \in BOOLEAN : Advance(skip)
    \/ MarkEnd \/ GetColumn
    \/ Finish

Spec == Init /\ [][Next]_vars

-----------------------------------------------------------------------------
(* Properties.                                                                *)

\* Unless it is at its end, the lexer stands inside the included range that it
\* believes to be in, whatever empty or adjoining ranges it passed, whichever
\* position it was sent to and whichever ranges replaced the ones it was in
\* (ts_lexer_goto, ts_lexer__do_advance).
InsideRanges ==
    ~ts_lexer__eof(lexer) =>
        LET range == lexer.ranges[lexer.range_index]
        IN  range.start.bytes <= lexer.pos.bytes /\ lexer.pos.bytes < range.end.bytes

\* The row and column the lexer keeps are those of its byte, and so are those of
\* the token it reports, across newlines, characters of two bytes, jumps between
\* ranges and the way back to the start of a row (ts_lexer__get_column).
PositionsTrue ==
    phase # "idle" => \A p \in {lexer.pos} \cup (IF phase = "finished" THEN {lexer.token_start, lexer.token_end}
                                                     ELSE {}) :
        p.bytes <= Len(lexer.text) /\ p = PositionOf(lexer.text, p.bytes)

\* The lookahead is the character of the text at the position, however the text
\* was cut into chunks, and it is NUL at the end and only there.
LookaheadTrue ==
    phase = "scanning" =>
        IF ts_lexer__eof(lexer) THEN lexer.lookahead = NUL
        ELSE lexer.lookahead = Decode(lexer.text, lexer.pos.bytes,
                                      Len(lexer.text) - lexer.pos.bytes).lookahead

\* Wherever it was sent and whatever it passed, the lexer stands in an included range,
\* knows its row and column, and looks at the character that is there.
StandsOnText == InsideRanges /\ PositionsTrue /\ LookaheadTrue

-----------------------------------------------------------------------------
(* Why StandsOnText holds: an invariant that every function of the lexer      *)
(* keeps.                                                                     *)

LexerRecord ==
    [text : Seq(Bytes), pos : Place, token_start : Place, token_end : Place,
     ranges : Seq(Span), range_index : Nat, chunk_start : Nat, chunk_size : Nat,
     lookahead : Characters, lookahead_size : Nat, did_get_column : BOOLEAN]

\* At any time the lexer is in the range it believes to be in, or at its end, and a
\* chunk it keeps is of this text and holds its position.
LexerTyped(self) ==
    /\ self \in LexerRecord
    /\ Len(self.text) < UINT32_MAX
    /\ self.ranges # << >> /\ ProperRanges(self.ranges)
Positioned(self) ==
    /\ LexerTyped(self)
    /\ self.range_index \in 1 .. Len(self.ranges) + 1
    /\ ~ts_lexer__eof(self) =>
          /\ self.ranges[self.range_index].start.bytes <= self.pos.bytes
          /\ self.pos.bytes < self.ranges[self.range_index].end.bytes
ChunkInText(self) == self.chunk_start + self.chunk_size <= Len(self.text)
LexerSound(self) ==
    /\ Positioned(self)
    /\ HasChunk(self) => ~ts_lexer__eof(self) /\ InChunk(self) /\ ChunkInText(self)

\* A place of the text is known by its byte, where a character begins; ranges on the
\* text have such places.
OnText(text, place) ==
    place.bytes \in Boundaries(text) /\ place = PositionOf(text, place.bytes)
RangesOnText(text, ranges) ==
    \/ ranges = << DEFAULT_RANGE >>
    \/ \A i \in DOMAIN ranges : OnText(text, ranges[i].start) /\ OnText(text, ranges[i].end)

\* Where the included text ends, and with it the walk over it.
InputEnd(self) ==
    LET end == Last(self.ranges).end.bytes IN IF end < Len(self.text) THEN end ELSE Len(self.text)
LexerOnText(self) ==
    /\ RangesOnText(self.text, self.ranges) /\ OnText(self.text, self.pos)
    /\ ts_lexer__eof(self) => self.pos.bytes = InputEnd(self)

\* Between tokens no character is decoded; in a token it is that of the position.
NotDecoded(self) ==
    IF ts_lexer__eof(self) THEN self.lookahead = NUL /\ self.chunk_size = 0
                           ELSE self.lookahead_size = 0
Decoded(self) ==
    IF ts_lexer__eof(self) THEN self.lookahead = NUL /\ self.chunk_size = 0
    ELSE LET seen == Decode(self.text, self.pos.bytes, Len(self.text) - self.pos.bytes)
         IN  /\ HasChunk(self)
             /\ self.lookahead = seen.lookahead /\ self.lookahead_size = seen.size
TokenOnText(self) ==
    /\ OnText(self.text, self.token_start)
    /\ self.token_end = LENGTH_UNDEFINED \/ OnText(self.text, self.token_end)

LexerInv ==
    /\ phase \in {"idle", "ready", "scanning", "finished", "stranded"}
    /\ IF phase = "stranded" THEN Positioned(lexer) ELSE LexerSound(lexer)
    /\ phase # "idle" => tree = NoTree
    /\ tree = NoTree => LexerOnText(lexer)
    /\ phase \in {"idle", "ready"} => NotDecoded(lexer)
    /\ phase = "scanning" => Decoded(lexer) /\ TokenOnText(lexer)
    /\ phase = "finished" => /\ OnText(lexer.text, lexer.token_start)
                             /\ OnText(lexer.text, lexer.token_end)
    /\ tree # NoTree /\ ~tree.edited =>
          /\ ProperRanges(tree.ranges) /\ RangesOnText(lexer.text, tree.ranges)
          /\ Len(lexer.text) <= MaxEdited

-----------------------------------------------------------------------------
\* The scanner's calls made again, by a lexer that begins the token in another text.
Apply(self, call) ==
    CASE call = "advance" -> ts_lexer__advance(self, FALSE)
      [] call = "skip" -> ts_lexer__advance(self, TRUE)
      [] call = "mark_end" -> ts_lexer__mark_end(self)
      [] call = "get_column" -> ts_lexer__get_column(self).lexer
ReplayFrom(first, made) ==
    LET at[n \in Nat] == IF n = 0 THEN first ELSE Apply(at[n - 1], made[n])
    IN  at
ReplayTo(text, n) == ReplayFrom(ts_lexer_start([begun EXCEPT !.text = text]), calls)[n]
Replay(text) == ts_lexer_finish(ReplayTo(text, Len(calls)))

\* What an edit that begins with a character, at byte `end` or later, makes of a text.
EditedBehind(end, before, after) ==
    \E k \in Boundaries(before) :
        end <= k /\ k <= Len(after) /\ \A i \in 1 .. k : after[i] = before[i]

\* What a scanner saw, and the token it found, do not change with an edit at or
\* behind lookahead_end_byte: a later parse may reuse the token.  The last character
\* may be one that only the bytes after it made invalid (ts_lexer_finish).
LookaheadCovers ==
    phase = "finished" =>
        \A text \in Texts :
            EditedBehind(lookahead_end, lexer.text, text) =>
               LET other == Replay(text) IN
               /\ other.token_start = lexer.token_start
               /\ other.token_end = lexer.token_end
               /\ other.pos = lexer.pos
               /\ other.lookahead = lexer.lookahead

\* Why LookaheadCovers holds.  Two texts have the same included characters up to byte
\* p, and end together if the first ends by then, and a lexer of the one stands where
\* that of the other stands, in the same token.
SameCharacters(text, other, ranges, p) ==
    \A b \in Boundaries(text) : b <= p /\ InRanges(b, ranges) =>
        IF b = Len(text) THEN Len(other) = b
        ELSE b < Len(other) /\ Decode(other, b, Len(other) - b) = Decode(text, b, Len(text) - b)
SameText(text, other, ranges, p) ==
    SameCharacters(text, other, ranges, p) /\ (Len(text) <= p => Len(other) = Len(text))
Twin(self, other) ==
    /\ LexerSound(other) /\ Decoded(other)
    /\ other.ranges = self.ranges /\ other.range_index = self.range_index
    /\ other.pos = self.pos
    /\ other.token_start = self.token_start /\ other.token_end = self.token_end

\* No chunk is left from before the token, and the calls replayed on a text with the
\* characters that were seen lead to the same place.
ReplayInv ==
    /\ phase \in {"idle", "ready"} => ~HasChunk(lexer) /\ calls = << >>
    /\ phase = "scanning" =>
          /\ calls \in Seq({"advance", "skip", "mark_end", "get_column"})
          /\ \A text \in Texts :
                SameText(lexer.text, text, lexer.ranges, lexer.pos.bytes) =>
                    LET other == ReplayTo(text, Len(calls))
                    IN  other.text = text /\ Twin(lexer, other)
    /\ LookaheadCovers

\* Whether an included range is left at byte b or after it.
RangeLeft(ranges, b) ==
    \E i \in DOMAIN ranges :
        ranges[i].end.bytes > b /\ ranges[i].end.bytes > ranges[i].start.bytes

\* Asking for the column, which walks the row again from its start, leaves the
\* lexer where it was with the same lookahead; the answer is the number of
\* characters of the row that are included and before the position.  The lexer is
\* also fit for the next advance, with one exception: where no included range is
\* left after the start of the row and the text goes on, ts_lexer__get_column
\* fetches a chunk although the lexer is at its end (lexer.c:259).
ColumnQueryHarmless ==
    [][GetColumn =>
        LET row == lexer.pos.bytes - lexer.pos.col IN
        /\ lexer'.pos = lexer.pos
        /\ lexer'.range_index = lexer.range_index
        /\ lexer'.lookahead = lexer.lookahead
        /\ ts_lexer__get_column(lexer).column =
             Cardinality({b \in Boundaries(lexer.text) :
                            row <= b /\ b < lexer.pos.bytes /\ InRanges(b, lexer.ranges)})
        /\ RangeLeft(lexer.ranges, row) \/ lexer.pos.bytes = Len(lexer.text) =>
             ~Stranded(lexer')]_vars

\* The differences of two lists of ranges are the bytes that exactly one of them
\* includes, also when ranges are empty, adjoin or end together
\* (ts_range_array_get_changed_ranges).
DifferencesExact ==
    tree.edited =>
        \A b \in 0 .. Len(lexer.text) :
            InRanges(b, tree.differences) = (InRanges(b, tree.ranges) # InRanges(b, lexer.ranges))

\* An edit moves the ranges of a tree with the text: they stay in order, and a
\* byte that the edit did not touch is included after it as it was before
\* (ts_tree_edit).
RangesFollowEdit ==
    tree.edited =>
        LET edit == tree.edit
            shift == edit.new_end.bytes - edit.old_end.bytes
        IN  /\ RangesValid(tree.ranges)
            /\ \A b \in 0 .. edit.start.bytes - 1 :
                    InRanges(b, tree.before) = InRanges(b, tree.ranges)
            /\ \A b \in edit.new_end.bytes .. Len(edit.text) :
                    InRanges(b - shift, tree.before) = InRanges(b, tree.ranges)
=============================================================================
