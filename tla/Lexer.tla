-------------------------------- MODULE Lexer --------------------------------
(* The lexer (lexer.c, lexer.h): it reads the text chunk by chunk through the *)
(* caller's `read`, decodes one character of lookahead, and passes over what  *)
(* is outside the included ranges.  Each function is an operator on the       *)
(* lexer's record; module LexerClient makes each an action.                   *)
(*                                                                            *)
(* A text is a sequence of bytes; byte b is text[b + 1].  "L" and "B" are     *)
(* lead bytes that need a continuation byte "C" ("B" then begins the byte     *)
(* order mark), "n" is the newline, and "a" stands for every other byte that  *)
(* is a character of its own.  Ranges count from 1; the lexer is at the end   *)
(* of its input when range_index is one more than there are ranges.           *)
EXTENDS RangeArrays

CONSTANT ChunkSize      \* how much one call of `read` returns at most

\* A chunk that begins with a character holds all of it.
ASSUME ChunkAssumption == ChunkSize \in Nat \ {0, 1}

NUL == "NUL"
TS_DECODE_ERROR == "error"
BYTE_ORDER_MARK == "B"
LeadBytes == {"L", "B"}
Bytes == LeadBytes \cup {"C", "n", "a"}
Characters == Bytes \cup {NUL, TS_DECODE_ERROR}

IncludedRange(start, end) == [start |-> start, end |-> end]
DEFAULT_RANGE == IncludedRange(length_zero, LENGTH_MAX)

\* Decodes the character at byte b of which `size` bytes are at hand.
Decode(text, b, size) ==
    LET byte == text[b + 1] IN
    IF byte \in LeadBytes /\ size >= 2 /\ text[b + 2] = "C"
    THEN [lookahead |-> byte, size |-> 2]
    ELSE [lookahead |-> IF byte \in LeadBytes \cup {"C"} THEN TS_DECODE_ERROR ELSE byte,
          size |-> 1]

ts_lexer__eof(self) == self.range_index = Len(self.ranges) + 1

\* The chunk is NULL when and only when its size is 0.
HasChunk(self) == self.chunk_size > 0

InChunk(self) == /\ self.pos.bytes >= self.chunk_start
                 /\ self.pos.bytes < self.chunk_start + self.chunk_size

ts_lexer__clear_chunk(self) == [self EXCEPT !.chunk_start = 0, !.chunk_size = 0]

SetLookahead(self, char, size) ==
    [self EXCEPT !.lookahead = char, !.lookahead_size = size]

\* Reads from the position on; no answer means the end of the input.
ts_lexer__get_chunk(self) ==
    LET rest == Len(self.text) - self.pos.bytes
        size == IF rest <= 0 THEN 0 ELSE IF rest < ChunkSize THEN rest ELSE ChunkSize
    IN  [self EXCEPT !.chunk_start = self.pos.bytes, !.chunk_size = size,
                     !.range_index = IF size = 0 THEN Len(self.ranges) + 1 ELSE @]

\* A character that the chunk cuts off is decoded again from a fresh chunk.
ts_lexer__get_lookahead(self) ==
    LET size == self.chunk_start + self.chunk_size - self.pos.bytes
        once == Decode(self.text, self.pos.bytes, size)
        again == ts_lexer__get_chunk(self)
        twice == Decode(self.text, self.pos.bytes, again.chunk_size)
    IN  IF size = 0 THEN SetLookahead(self, NUL, 1)
        ELSE IF once.lookahead = TS_DECODE_ERROR /\ size < 4
        THEN SetLookahead(again, twice.lookahead, twice.size)
        ELSE SetLookahead(self, once.lookahead, once.size)

\* Moves to the first included position at or after the given one.
ts_lexer_goto(self, position) ==
    LET after == {i \in DOMAIN self.ranges :
                    /\ self.ranges[i].end.bytes > position.bytes
                    /\ self.ranges[i].end.bytes > self.ranges[i].start.bytes}
        i == CHOOSE j \in after : \A k \in after : j <= k
        start == self.ranges[i].start
        moved == [self EXCEPT !.pos = IF start.bytes >= position.bytes THEN start ELSE position,
                              !.range_index = i]
        ended == [self EXCEPT !.pos = Last(self.ranges).end,
                              !.range_index = Len(self.ranges) + 1]
    IN  IF after = {} THEN SetLookahead(ts_lexer__clear_chunk(ended), NUL, 1)
        ELSE SetLookahead(IF InChunk(moved) THEN moved ELSE ts_lexer__clear_chunk(moved), NUL, 0)

\* Mutant of AfterLookahead: a character counts one column.
AfterLookaheadOneColumn(self) ==
    length_add(self.pos, Len3(self.lookahead_size,
                              IF self.lookahead = "n" THEN Point(1, 0) ELSE Point(0, 1)))

\* The position after the lookahead character.
AfterLookahead(self) ==
    LET n == self.lookahead_size IN
    length_add(self.pos, IF self.lookahead = "n" THEN Len3(n, Point(1, 0)) ELSE Len3(n, Point(0, n)))

\* The ranges that are left when the current one is passed: the first of them
\* whose bytes are not behind the position it is entered at.
NextRange(self, position) ==
    LET Holds(i) ==
            LET entered == IF i = self.range_index THEN position ELSE self.ranges[i].start
            IN  entered.bytes < self.ranges[i].end.bytes
                /\ self.ranges[i].end.bytes # self.ranges[i].start.bytes
        left == {i \in self.range_index .. Len(self.ranges) : Holds(i)}
    IN  IF left = {} THEN Len(self.ranges) + 1 ELSE CHOOSE i \in left : \A j \in left : i <= j

\* Passes the lookahead character, and the ranges that end there.  Past the last
\* range the position stays, or is that of the empty range at the end of the list.
ts_lexer__do_advance(self, skip) ==
    LET position == AfterLookahead(self)
        i == NextRange(self, position)
        passed == IF i > Len(self.ranges)
                  THEN IF self.range_index < Len(self.ranges) THEN Last(self.ranges).start
                       ELSE position
                  ELSE IF i = self.range_index THEN position ELSE self.ranges[i].start
        moved == [self EXCEPT !.pos = passed, !.range_index = i,
                              !.token_start = IF skip THEN passed ELSE @]
    IN  IF i > Len(self.ranges) THEN SetLookahead(ts_lexer__clear_chunk(moved), NUL, 1)
        ELSE ts_lexer__get_lookahead(IF InChunk(moved) THEN moved ELSE ts_lexer__get_chunk(moved))

ts_lexer__advance(self, skip) ==
    IF HasChunk(self) THEN ts_lexer__do_advance(self, skip) ELSE self

\* At the start of a range, the token ends at the end of the range before.
ts_lexer__mark_end(self) ==
    LET at_start == /\ ~ts_lexer__eof(self) /\ self.range_index > 1
                    /\ self.pos.bytes = self.ranges[self.range_index].start.bytes
    IN  [self EXCEPT !.token_end = IF at_start THEN self.ranges[self.range_index - 1].end
                                   ELSE self.pos]

\* Walks from the start of the row up to the byte `goal`; a round passes a byte at
\* least, so that `goal` rounds are enough.
ColumnRound(w, goal) ==
    IF w.lexer.pos.bytes >= goal \/ ~HasChunk(w.lexer) \/ ts_lexer__eof(w.lexer) THEN w
    ELSE [lexer |-> ts_lexer__do_advance(w.lexer, FALSE), column |-> w.column + 1]
ColumnRounds(self, goal) ==
    LET at[n \in Nat] == IF n = 0 THEN [lexer |-> self, column |-> 0]
                         ELSE ColumnRound(at[n - 1], goal)
    IN  at
CountColumns(self, goal) == ColumnRounds(self, goal)[goal]

\* Mutant of ts_lexer__get_column: the walk stops one byte early.
GetColumnStopsEarly(self) ==
    LET row_start == Len3(self.pos.bytes - self.pos.col, Point(self.pos.row, 0))
        there == ts_lexer__get_chunk(ts_lexer_goto(self, row_start))
        goal == IF self.pos.bytes = 0 THEN 0 ELSE self.pos.bytes - 1
    IN  IF ts_lexer__eof(there) THEN [lexer |-> there, column |-> 0]
        ELSE CountColumns(ts_lexer__get_lookahead(there), goal)

ts_lexer__get_column(self) ==
    LET row_start == Len3(self.pos.bytes - self.pos.col, Point(self.pos.row, 0))
        there == ts_lexer__get_chunk(ts_lexer_goto([self EXCEPT !.did_get_column = TRUE],
                                                   row_start))
    IN  IF ts_lexer__eof(there) THEN [lexer |-> there, column |-> 0]
        ELSE CountColumns(ts_lexer__get_lookahead(there), self.pos.bytes)

ts_lexer__is_at_included_range_start(self) ==
    ~ts_lexer__eof(self) /\ self.pos.bytes = self.ranges[self.range_index].start.bytes

-----------------------------------------------------------------------------
\* Ranges that overlap or run backwards are refused.
ts_lexer_set_included_ranges(self, ranges) ==
    IF ranges = << >> THEN ts_lexer_goto([self EXCEPT !.ranges = << DEFAULT_RANGE >>], self.pos)
    ELSE IF RangesValid(ranges) THEN ts_lexer_goto([self EXCEPT !.ranges = ranges], self.pos)
    ELSE self

ts_lexer_init ==
    ts_lexer_set_included_ranges(
        [text |-> << >>, pos |-> length_zero, token_start |-> length_zero,
         token_end |-> length_zero, ranges |-> << >>, range_index |-> 1, chunk_start |-> 0,
         chunk_size |-> 0, lookahead |-> NUL, lookahead_size |-> 0,
         did_get_column |-> FALSE], << >>)

ts_lexer_set_input(self, text) ==
    ts_lexer_goto(ts_lexer__clear_chunk([self EXCEPT !.text = text]), self.pos)

ts_lexer_reset(self, position) ==
    IF position.bytes # self.pos.bytes THEN ts_lexer_goto(self, position) ELSE self

\* Begins a token; a byte order mark at the start of the text is skipped.
ts_lexer_start(self) ==
    LET begun == [self EXCEPT !.token_start = self.pos, !.token_end = LENGTH_UNDEFINED,
                              !.did_get_column = FALSE]
        chunked == IF HasChunk(begun) THEN begun ELSE ts_lexer__get_chunk(begun)
        ready == IF chunked.lookahead_size > 0 THEN chunked ELSE ts_lexer__get_lookahead(chunked)
    IN  IF ts_lexer__eof(self) THEN begun
        ELSE IF self.pos.bytes = 0 /\ ready.lookahead = BYTE_ORDER_MARK
        THEN ts_lexer__advance(ready, TRUE) ELSE ready

\* Mutant of LookaheadEnd: an invalid character counts as one byte.
LookaheadEndShort(self) == self.pos.bytes + 1

\* The first byte that had no part in the token: four more may have been read to
\* find out that a character is invalid.
LookaheadEnd(self) ==
    self.pos.bytes + 1 + (IF self.lookahead = TS_DECODE_ERROR THEN 4 ELSE 0)

ts_lexer_finish(self) ==
    LET marked == IF length_is_undefined(self.token_end) THEN ts_lexer__mark_end(self) ELSE self
    IN  [marked EXCEPT !.token_start = IF marked.token_end.bytes < @.bytes
                                       THEN marked.token_end ELSE @]
=============================================================================
