------------------------- MODULE LexerReplayProofs -------------------------
(* An edit at or behind lookahead_end_byte cannot change a token           *)
(* (LookaheadCovers): the calls of the scanner, made again on the edited   *)
(* text, lead the lexer to the same places.  The edited text has the       *)
(* characters that were seen; what lies behind them, the included ranges   *)
(* there and the chunks it is read in may differ.                          *)
EXTENDS LexerProofs

(* Texts that agree up to a byte agree up to any byte before it.           *)
LEMMA SameBefore ==
  ASSUME NEW text \in Seq(Bytes), NEW other, NEW ranges, NEW p \in Nat, NEW q \in Nat, p <= q,
         SameCharacters(text, other, ranges, q)
  PROVE  SameCharacters(text, other, ranges, p)
<1>1. \A b \in Boundaries(text) : b \in Nat
  BY BoundaryInText
<1>2. \A b \in Boundaries(text) : b <= p => b <= q
  BY <1>1
<1>. QED BY <1>2 DEF SameCharacters

(* So do texts that end alike.                                             *)
LEMMA SameTextBefore ==
  ASSUME NEW text \in Seq(Bytes), NEW other \in Seq(Bytes), NEW ranges,
         NEW p \in Nat, NEW q \in Nat, p <= q, SameText(text, other, ranges, q)
  PROVE  SameText(text, other, ranges, p)
<1>1. SameCharacters(text, other, ranges, p)
  BY SameBefore DEF SameText
<1>2. Len(text) <= p => Len(other) = Len(text)
  BY DEF SameText
<1>. QED BY <1>1, <1>2 DEF SameText

(* Both texts end at an included place, or neither does.                   *)
LEMMA SameEnd ==
  ASSUME NEW text \in Seq(Bytes), NEW other \in Seq(Bytes), NEW p \in Boundaries(text),
         NEW ranges, InRanges(p, ranges), SameCharacters(text, other, ranges, p)
  PROVE  /\ p \in Nat /\ (Len(text) <= p <=> Len(other) <= p)
         /\ p < Len(text) => /\ p < Len(other)
                             /\ Decode(other, p, Len(other) - p) = Decode(text, p, Len(text) - p)
<1>1. p \in 0..Len(text) /\ p \in Nat /\ Len(text) \in Nat /\ Len(other) \in Nat
  BY BoundaryInText
<1>2. p <= p
  BY <1>1
<1>3. IF p = Len(text) THEN Len(other) = p
      ELSE p < Len(other) /\ Decode(other, p, Len(other) - p) = Decode(text, p, Len(text) - p)
  BY <1>2 DEF SameCharacters
<1>. QED BY <1>1, <1>3

(* Twins look at the same character.                                       *)
LEMMA TwinsSee ==
  ASSUME NEW self, NEW other, LexerSound(self), Decoded(self), LexerOnText(self),
         Twin(self, other), SameCharacters(self.text, other.text, self.ranges, self.pos.bytes)
  PROVE  /\ ts_lexer__eof(other) <=> ts_lexer__eof(self)
         /\ HasChunk(other) <=> HasChunk(self)
         /\ HasChunk(self) <=> ~ts_lexer__eof(self)
         /\ other.lookahead = self.lookahead
         /\ HasChunk(self) => other.lookahead_size = self.lookahead_size
<1>1. ts_lexer__eof(other) <=> ts_lexer__eof(self)
  BY DEF Twin, ts_lexer__eof
<1>2. LexerSound(other) /\ Decoded(other) /\ other.pos = self.pos
  BY DEF Twin
<1>3. /\ self.text \in Seq(Bytes) /\ other.text \in Seq(Bytes)
      /\ self.chunk_start \in Nat /\ self.chunk_size \in Nat /\ self.pos.bytes \in Nat
      /\ Len(self.text) \in Nat
  BY <1>2, LexerFields DEF LexerSound, Positioned
<1>4. self.pos.bytes \in Boundaries(self.text)
  BY DEF LexerOnText, OnText
<1>5. CASE ts_lexer__eof(self)
  BY <1>1, <1>2, <1>5 DEF Decoded, HasChunk
<1>6. CASE ~ts_lexer__eof(self)
  <2>1. HasChunk(self) /\ HasChunk(other)
    BY <1>1, <1>2, <1>6 DEF Decoded
  <2>2. self.pos.bytes < Len(self.text)
    BY <2>1, <1>3 DEF LexerSound, InChunk, ChunkInText
  <2>3. Decode(other.text, self.pos.bytes, Len(other.text) - self.pos.bytes)
          = Decode(self.text, self.pos.bytes, Len(self.text) - self.pos.bytes)
    <3>1. InRanges(self.pos.bytes, self.ranges)
      BY <1>6, StandsThere
    <3>. QED BY <2>2, <3>1, <1>3, <1>4, SameEnd
  <2>4. other.lookahead = self.lookahead /\ other.lookahead_size = self.lookahead_size
    BY <1>1, <1>2, <1>6, <2>3 DEF Decoded
  <2>. QED BY <1>1, <1>6, <2>1, <2>4
<1>. QED BY <1>5, <1>6

(* ts_lexer__do_advance takes twins to twins, when the texts agree where   *)
(* it comes to.                                                            *)
LEMMA DoAdvanceTwin ==
  ASSUME NEW self, NEW other, LexerSound(self), Decoded(self), LexerOnText(self),
         Twin(self, other), HasChunk(self), NEW skip \in BOOLEAN,
         SameCharacters(self.text, other.text, self.ranges,
                        ts_lexer__do_advance(self, skip).pos.bytes)
  PROVE  /\ Twin(ts_lexer__do_advance(self, skip), ts_lexer__do_advance(other, skip))
         /\ ts_lexer__do_advance(other, skip).text = other.text
<1> DEFINE there == ts_lexer__do_advance(self, skip)
           that == ts_lexer__do_advance(other, skip)
           n == Len(self.ranges)
           i == NextRange(self, AfterLookahead(self))
<1>1. /\ LexerSound(there) /\ Decoded(there) /\ LexerOnText(there)
      /\ there.text = self.text /\ there.ranges = self.ranges
      /\ there.pos = AdvancedTo(self)
  BY DoAdvanceSound
<1>t. /\ self.text \in Seq(Bytes) /\ self.pos.bytes \in Nat
      /\ there.pos.bytes \in Nat /\ other.text \in Seq(Bytes)
  <2>1. LexerTyped(self) /\ LexerTyped(there) /\ LexerTyped(other)
    BY <1>1 DEF LexerSound, Positioned, Twin
  <2>. QED BY <2>1, LexerFields
<1>2. self.pos.bytes <= there.pos.bytes
  <2>1. self.pos.bytes < there.pos.bytes
    BY <1>1, AdvancedPast
  <2>. QED BY <2>1, <1>t
<1>3. SameCharacters(self.text, other.text, self.ranges, self.pos.bytes)
  BY <1>2, <1>t, SameBefore
<1>4. /\ HasChunk(other) /\ LexerSound(other)
      /\ other.lookahead = self.lookahead /\ other.lookahead_size = self.lookahead_size
      /\ other.ranges = self.ranges /\ other.range_index = self.range_index
      /\ other.pos = self.pos
      /\ other.token_start = self.token_start /\ other.token_end = self.token_end
  BY <1>3, TwinsSee DEF Twin
<1>5. AfterLookahead(other) = AfterLookahead(self)
  BY <1>4 DEF AfterLookahead
<1>6. /\ NextRange(other, AfterLookahead(other)) = NextRange(self, AfterLookahead(self))
      /\ AdvancedTo(other) = AdvancedTo(self)
  <2>1. NextRange(other, AfterLookahead(other)) = NextRange(self, AfterLookahead(self))
    BY <1>4, <1>5 DEF NextRange
  <2>. QED BY <2>1, <1>4, <1>5 DEF AdvancedTo
<1>7. AfterLookahead(self) \in Place /\ self.pos.bytes <= AfterLookahead(self).bytes
  <2>1. AfterLookahead(self) \in Place /\ self.pos.bytes < AfterLookahead(self).bytes
    BY AfterLookaheadTrue DEF LexerOnText
  <2>. QED BY <2>1, <1>t, PlaceBytes
<1>8. /\ \/ i = n + 1
         \/ i \in 1..n /\ there.pos.bytes < self.ranges[i].end.bytes
      /\ there.token_end = self.token_end
      /\ there.token_start = IF skip THEN there.pos ELSE self.token_start
      /\ there.range_index = IF Len(self.text) <= there.pos.bytes THEN n + 1
                             ELSE NextRange(self, AfterLookahead(self))
  BY <1>7, DoAdvanceStands
<1>9. /\ LexerSound(that) /\ Decoded(that)
      /\ that.text = other.text /\ that.ranges = other.ranges
      /\ that.token_end = other.token_end
      /\ that.token_start = IF skip THEN that.pos ELSE other.token_start
      /\ that.pos = AdvancedTo(other)
      /\ that.range_index = IF Len(other.text) <= that.pos.bytes THEN Len(other.ranges) + 1
                            ELSE NextRange(other, AfterLookahead(other))
  BY <1>4, <1>5, <1>7, DoAdvanceStands
<1>10. i \in 1..n => (Len(self.text) <= there.pos.bytes <=> Len(other.text) <= there.pos.bytes)
  <2> SUFFICES ASSUME i \in 1..n
               PROVE  Len(self.text) <= there.pos.bytes <=> Len(other.text) <= there.pos.bytes
    OBVIOUS
  <2>1. there.pos.bytes \in Boundaries(self.text)
    BY <1>1 DEF LexerOnText, OnText
  <2>2. /\ LexerTyped(self) /\ ~ts_lexer__eof(self)
        /\ self.range_index \in 1..n + 1 /\ self.ranges[self.range_index].start.bytes <= self.pos.bytes
    BY DEF LexerSound, Positioned
  <2>3. /\ n \in Nat /\ DOMAIN self.ranges = 1..n
        /\ \A k \in 1..n : self.ranges[k].start.bytes \in Nat /\ self.ranges[k].end.bytes \in Nat
    BY <2>2, LexerFields
  <2>4. there.pos = IF i = self.range_index THEN AfterLookahead(self) ELSE self.ranges[i].start
    <3>1. ~(i > n)
      BY <2>3
    <3>. QED BY <3>1, <1>1 DEF AdvancedTo
  <2> HIDE DEF i, there
  <2>5. self.ranges[i].start.bytes <= there.pos.bytes
    <3>1. CASE i = self.range_index
      <4>1. self.ranges[i].start.bytes <= self.pos.bytes /\ self.ranges[i].start.bytes \in Nat
        BY <3>1, <2>2, <2>3
      <4>. QED BY <4>1, <1>2, <1>t
    <3>2. CASE i # self.range_index
      BY <3>2, <2>3, <2>4
    <3>. QED BY <3>1, <3>2
  <2>6. there.pos.bytes < self.ranges[i].end.bytes
    BY <1>8, <2>3
  <2>7. InRanges(there.pos.bytes, self.ranges)
    BY <2>3, <2>5, <2>6 DEF InRanges
  <2>8. SameCharacters(self.text, other.text, self.ranges, there.pos.bytes)
    BY DEF there
  <2>. QED BY <2>1, <2>7, <2>8, <1>t, SameEnd
<1>12. that.range_index = there.range_index
  BY <1>1, <1>4, <1>6, <1>8, <1>9, <1>10
<1> HIDE DEF there, that
<1>11. Twin(there, that)
  BY <1>1, <1>4, <1>6, <1>8, <1>9, <1>12 DEF Twin
<1>. QED BY <1>9, <1>11 DEF there, that

(* ts_lexer__advance, as a scanner calls it.                               *)
LEMMA AdvanceTwin ==
  ASSUME NEW self, NEW other, LexerSound(self), Decoded(self), LexerOnText(self),
         Twin(self, other), NEW skip \in BOOLEAN,
         SameCharacters(self.text, other.text, self.ranges,
                        ts_lexer__advance(self, skip).pos.bytes)
  PROVE  /\ Twin(ts_lexer__advance(self, skip), ts_lexer__advance(other, skip))
         /\ ts_lexer__advance(other, skip).text = other.text
<1>1. CASE HasChunk(self)
  <2>0. ts_lexer__advance(self, skip) = ts_lexer__do_advance(self, skip)
    BY <1>1 DEF ts_lexer__advance
  <2>1. ~ts_lexer__eof(self)
    BY <1>1 DEF LexerSound
  <2>2. HasChunk(other)
    BY <2>1 DEF Twin, Decoded, ts_lexer__eof
  <2>3. ts_lexer__advance(other, skip) = ts_lexer__do_advance(other, skip)
    BY <2>2 DEF ts_lexer__advance
  <2>. QED BY <1>1, <2>0, <2>3, DoAdvanceTwin
<1>2. CASE ~HasChunk(self)
  <2>1. ts_lexer__eof(self)
    BY <1>2 DEF Decoded
  <2>2. ts_lexer__eof(other) /\ LexerSound(other)
    BY <2>1 DEF Twin, ts_lexer__eof
  <2>3. ~HasChunk(other)
    BY <2>2 DEF LexerSound
  <2>. QED BY <1>2, <2>3 DEF ts_lexer__advance
<1>. QED BY <1>1, <1>2

(* An advance keeps the text and the ranges, and does not go back.         *)
LEMMA AdvanceStays ==
  ASSUME NEW self, LexerSound(self), Decoded(self), LexerOnText(self), NEW skip \in BOOLEAN
  PROVE  LET there == ts_lexer__advance(self, skip) IN
         /\ there.text = self.text /\ there.ranges = self.ranges
         /\ self.pos.bytes \in Nat /\ there.pos.bytes \in Nat
         /\ self.pos.bytes <= there.pos.bytes
<1> DEFINE there == ts_lexer__advance(self, skip)
<1>1. self.pos.bytes \in Nat
  BY LexerFields DEF LexerSound, Positioned
<1>2. CASE ~HasChunk(self)
  <2>1. there = self
    BY <1>2 DEF ts_lexer__advance
  <2> HIDE DEF there
  <2>2. there.pos.bytes \in Nat /\ self.pos.bytes <= there.pos.bytes
    BY <2>1, <1>1
  <2>. QED BY <1>1, <2>1, <2>2 DEF there
<1>3. CASE HasChunk(self)
  <2>1. there = ts_lexer__do_advance(self, skip)
    BY <1>3 DEF ts_lexer__advance
  <2> HIDE DEF there
  <2>2. /\ there.pos = AdvancedTo(self) /\ LexerSound(there)
        /\ there.text = self.text /\ there.ranges = self.ranges
    BY <1>3, <2>1, DoAdvanceSound
  <2>3. self.pos.bytes < there.pos.bytes
    BY <1>3, <2>2, AdvancedPast
  <2>4. there.pos.bytes \in Nat
    BY <2>2, LexerFields DEF LexerSound, Positioned
  <2>. QED BY <1>1, <2>2, <2>3, <2>4 DEF there
<1>. QED BY <1>2, <1>3

(* Where a token is marked to end depends on where the lexer stands only.  *)
MarkedEnd(ranges, i, pos) ==
  IF i # Len(ranges) + 1 /\ i > 1 /\ pos.bytes = ranges[i].start.bytes
  THEN ranges[i - 1].end ELSE pos

(* ts_lexer__mark_end sets the end of the token and moves nowhere.         *)
LEMMA MarkEndStands ==
  ASSUME NEW self, LexerSound(self)
  PROVE  LET there == ts_lexer__mark_end(self) IN
         /\ LexerSound(there) /\ (Decoded(self) => Decoded(there))
         /\ there.text = self.text /\ there.ranges = self.ranges
         /\ there.pos = self.pos /\ there.range_index = self.range_index
         /\ there.lookahead = self.lookahead /\ there.token_start = self.token_start
         /\ there.token_end = MarkedEnd(self.ranges, self.range_index, self.pos)
<1> DEFINE there == ts_lexer__mark_end(self)
           i == self.range_index
           end == MarkedEnd(self.ranges, i, self.pos)
           got == self.did_get_column
<1>t. /\ LexerTyped(self) /\ self \in LexerRecord /\ got \in BOOLEAN
      /\ self.token_start \in Place /\ self.pos \in Place
      /\ i \in 1..Len(self.ranges) + 1
  BY DEF LexerSound, Positioned, LexerTyped, LexerRecord
<1>r. Len(self.ranges) \in Nat /\ \A k \in 1..Len(self.ranges) : self.ranges[k].end \in Place
  BY <1>t, LexerFields
<1>1. end \in Place
  <2>1. i > 1 => i - 1 \in 1..Len(self.ranges)
    BY <1>t, <1>r
  <2>. QED BY <2>1, <1>t, <1>r DEF MarkedEnd
<1>2. there = Tokened(self, self.token_start, end, got)
  <2>1. there = [self EXCEPT !.token_end = end]
    BY DEF ts_lexer__mark_end, MarkedEnd, ts_lexer__eof
  <2> HIDE DEF end, there
  <2>. QED BY <2>1, <1>t DEF Tokened, LexerRecord
<1> HIDE DEF end, there, got
<1>3. /\ there.text = self.text /\ there.ranges = self.ranges
      /\ there.pos = self.pos /\ there.range_index = self.range_index
      /\ there.lookahead = self.lookahead
      /\ there.token_start = self.token_start /\ there.token_end = end
  BY <1>t, <1>1, <1>2, SetToken
<1>4. LexerSound(there) /\ (Decoded(self) => Decoded(there))
  BY <1>t, <1>1, <1>2, TokenedSound
<1>. QED BY <1>3, <1>4 DEF there, end

(* ts_lexer__mark_end marks the same place.                                *)
LEMMA MarkEndTwin ==
  ASSUME NEW self, NEW other, LexerSound(self), Twin(self, other)
  PROVE  /\ Twin(ts_lexer__mark_end(self), ts_lexer__mark_end(other))
         /\ ts_lexer__mark_end(other).text = other.text
<1> DEFINE there == ts_lexer__mark_end(self)
           that == ts_lexer__mark_end(other)
<1>1. /\ LexerSound(other) /\ Decoded(other)
      /\ other.ranges = self.ranges /\ other.range_index = self.range_index
      /\ other.pos = self.pos /\ other.token_start = self.token_start
  BY DEF Twin
<1>2. /\ there.ranges = self.ranges
      /\ there.pos = self.pos /\ there.range_index = self.range_index
      /\ there.token_start = self.token_start
      /\ there.token_end = MarkedEnd(self.ranges, self.range_index, self.pos)
  BY MarkEndStands
<1>3. /\ LexerSound(that) /\ Decoded(that)
      /\ that.text = other.text /\ that.ranges = other.ranges
      /\ that.pos = other.pos /\ that.range_index = other.range_index
      /\ that.token_start = other.token_start
      /\ that.token_end = MarkedEnd(other.ranges, other.range_index, other.pos)
  BY <1>1, MarkEndStands
<1> HIDE DEF there, that
<1>4. Twin(there, that)
  BY <1>1, <1>2, <1>3 DEF Twin
<1>. QED BY <1>3, <1>4 DEF there, that

(* ts_lexer_finish sets the ends of the token and moves nowhere.           *)
LEMMA FinishStands ==
  ASSUME NEW self, LexerSound(self)
  PROVE  LET there == ts_lexer_finish(self)
             end == IF length_is_undefined(self.token_end)
                    THEN MarkedEnd(self.ranges, self.range_index, self.pos) ELSE self.token_end
         IN
         /\ there.text = self.text
         /\ there.pos = self.pos /\ there.lookahead = self.lookahead
         /\ there.token_end = end
         /\ there.token_start = IF end.bytes < self.token_start.bytes THEN end
                                ELSE self.token_start
<1> DEFINE there == ts_lexer_finish(self)
           marked == IF length_is_undefined(self.token_end) THEN ts_lexer__mark_end(self) ELSE self
           end == IF length_is_undefined(self.token_end)
                  THEN MarkedEnd(self.ranges, self.range_index, self.pos) ELSE self.token_end
           start == IF marked.token_end.bytes < marked.token_start.bytes
                    THEN marked.token_end ELSE marked.token_start
           got == marked.did_get_column
<1>1. /\ LexerSound(marked) /\ marked.text = self.text
      /\ marked.pos = self.pos /\ marked.lookahead = self.lookahead
      /\ marked.token_start = self.token_start /\ marked.token_end = end
  <2>1. CASE length_is_undefined(self.token_end)
    <3>1. marked = ts_lexer__mark_end(self) /\ end = MarkedEnd(self.ranges, self.range_index, self.pos)
      BY <2>1
    <3> HIDE DEF marked, end
    <3>. QED BY <3>1, MarkEndStands
  <2>2. CASE ~length_is_undefined(self.token_end)
    BY <2>2
  <2>. QED BY <2>1, <2>2
<1> HIDE DEF marked, end
<1>2. /\ marked \in LexerRecord /\ marked.token_start \in Place /\ marked.token_end \in Place
      /\ got \in BOOLEAN
  BY <1>1 DEF LexerSound, Positioned, LexerTyped, LexerRecord
<1>3. start \in Place
  BY <1>2
<1>4. there = Tokened(marked, start, marked.token_end, got)
  <2>1. there = [marked EXCEPT !.token_start = start]
    BY DEF ts_lexer_finish, marked
  <2> HIDE DEF start, there
  <2>. QED BY <2>1, <1>2 DEF Tokened, LexerRecord
<1>6. start = IF end.bytes < self.token_start.bytes THEN end ELSE self.token_start
  BY <1>1
<1> HIDE DEF start, there, got
<1>5. /\ there.text = marked.text /\ there.pos = marked.pos
      /\ there.lookahead = marked.lookahead
      /\ there.token_start = start /\ there.token_end = marked.token_end
  BY <1>2, <1>3, <1>4, SetToken
<1>. QED BY <1>1, <1>5, <1>6 DEF there, end

(* Twins find the same token.                                              *)
LEMMA FinishTwin ==
  ASSUME NEW self, NEW other, LexerSound(self), Decoded(self), LexerOnText(self),
         Twin(self, other), SameCharacters(self.text, other.text, self.ranges, self.pos.bytes)
  PROVE  LET there == ts_lexer_finish(self)
             that == ts_lexer_finish(other)
         IN  /\ that.token_start = there.token_start /\ that.token_end = there.token_end
             /\ that.pos = there.pos /\ that.lookahead = there.lookahead
<1>1. /\ LexerSound(other) /\ other.ranges = self.ranges
      /\ other.range_index = self.range_index /\ other.pos = self.pos
      /\ other.token_start = self.token_start /\ other.token_end = self.token_end
  BY DEF Twin
<1>2. other.lookahead = self.lookahead
  BY TwinsSee
<1>. QED BY <1>1, <1>2, FinishStands

(* A lexer that begins a token, before it passes a byte order mark.        *)
StartReady(self) ==
  LET begin == [self EXCEPT !.token_start = self.pos, !.token_end = LENGTH_UNDEFINED,
                            !.did_get_column = FALSE]
      chunked == IF HasChunk(begin) THEN begin ELSE ts_lexer__get_chunk(begin)
  IN  IF ts_lexer__eof(self) THEN begin
      ELSE IF chunked.lookahead_size > 0 THEN chunked ELSE ts_lexer__get_lookahead(chunked)

(* With no chunk from before it reads one, on whatever text.               *)
LEMMA StartStands ==
  ASSUME NEW self, LexerSound(self), NotDecoded(self), ~HasChunk(self)
  PROVE  LET ready == StartReady(self) IN
         /\ LexerSound(ready) /\ Decoded(ready)
         /\ ready.text = self.text /\ ready.ranges = self.ranges /\ ready.pos = self.pos
         /\ ready.token_start = self.pos /\ ready.token_end = LENGTH_UNDEFINED
         /\ ready.range_index = IF Len(self.text) <= self.pos.bytes THEN Len(self.ranges) + 1
                                ELSE self.range_index
         /\ LexerOnText(self) => LexerOnText(ready)
         /\ ts_lexer_start(self) = IF self.pos.bytes = 0 /\ ready.lookahead = BYTE_ORDER_MARK
                                   THEN ts_lexer__advance(ready, TRUE) ELSE ready
<1> DEFINE begin == [self EXCEPT !.token_start = self.pos, !.token_end = LENGTH_UNDEFINED,
                                 !.did_get_column = FALSE]
           chunked == ts_lexer__get_chunk(begin)
           ready == StartReady(self)
<1>t. /\ self \in LexerRecord /\ self.pos \in Place /\ LexerTyped(self)
      /\ self.pos.bytes \in Nat /\ Len(self.text) \in Nat /\ self.range_index \in Nat
  <2>1. LexerTyped(self) /\ self \in LexerRecord
    BY DEF LexerSound, Positioned, LexerTyped
  <2>. QED BY <2>1, LexerFields
<1>u. LENGTH_UNDEFINED \in Place
  BY Widths DEF LENGTH_UNDEFINED, Len3, Point, Place
<1>2. begin = Tokened(self, self.pos, LENGTH_UNDEFINED, FALSE)
  BY DEF Tokened
<1>3. /\ begin.text = self.text /\ begin.pos = self.pos /\ begin.ranges = self.ranges
      /\ begin.range_index = self.range_index
      /\ begin.token_start = self.pos /\ begin.token_end = LENGTH_UNDEFINED
      /\ begin.lookahead = self.lookahead /\ begin.lookahead_size = self.lookahead_size
      /\ begin.chunk_size = self.chunk_size
  <2> HIDE DEF begin
  <2>. QED BY <1>t, <1>u, <1>2, SetToken
<1>4. /\ LexerSound(begin) /\ (LexerOnText(self) => LexerOnText(begin))
      /\ (ts_lexer__eof(begin) <=> ts_lexer__eof(self)) /\ ~HasChunk(begin)
  <2> HIDE DEF begin
  <2>. QED BY <1>t, <1>u, <1>2, TokenedSound
<1>5. CASE ts_lexer__eof(self)
  <2>1. ready = begin /\ ts_lexer_start(self) = begin
    BY <1>5 DEF StartReady, ts_lexer_start
  <2> HIDE DEF begin, ready
  <2>2. Decoded(begin) /\ begin.lookahead # BYTE_ORDER_MARK
    BY <1>3, <1>4, <1>5 DEF NotDecoded, Decoded, NUL, BYTE_ORDER_MARK
  <2>3. self.range_index = Len(self.ranges) + 1
    BY <1>5 DEF ts_lexer__eof
  <2>. QED BY <2>1, <2>2, <2>3, <1>3, <1>4 DEF ready
<1>6. CASE ~ts_lexer__eof(self)
  <2>1. self.lookahead_size = 0 /\ ~ts_lexer__eof(begin) /\ Positioned(begin)
    BY <1>6, <1>4 DEF NotDecoded, LexerSound
  <2> HIDE DEF begin
  <2>2. /\ LexerSound(chunked) /\ chunked.text = self.text /\ chunked.pos = self.pos
        /\ chunked.ranges = self.ranges
        /\ chunked.token_start = self.pos /\ chunked.token_end = LENGTH_UNDEFINED
        /\ chunked.lookahead_size = 0
        /\ self.pos.bytes < Len(self.text) =>
              HasChunk(chunked) /\ chunked.range_index = self.range_index
        /\ Len(self.text) <= self.pos.bytes =>
              /\ ts_lexer__eof(chunked) /\ chunked.chunk_size = 0
              /\ chunked.chunk_start = chunked.pos.bytes
    BY <2>1, <1>3, GetChunkSound
  <2>3. \/ HasChunk(chunked)
        \/ /\ ts_lexer__eof(chunked) /\ chunked.chunk_size = 0
           /\ chunked.chunk_start = chunked.pos.bytes
    BY <2>2, <1>t
  <2>c. LexerOnText(self) => LexerOnText(chunked)
    BY <1>4, <2>1, GetChunkOnText
  <2> HIDE DEF chunked
  <2>4. /\ ready = ts_lexer__get_lookahead(chunked)
        /\ ts_lexer_start(self) = IF self.pos.bytes = 0 /\ ready.lookahead = BYTE_ORDER_MARK
                                  THEN ts_lexer__advance(ready, TRUE) ELSE ready
    BY <1>4, <1>6, <2>2 DEF StartReady, ts_lexer_start, begin, chunked
  <2> HIDE DEF ready
  <2>5. /\ LexerSound(ready) /\ Decoded(ready)
        /\ ready.text = chunked.text /\ ready.ranges = chunked.ranges /\ ready.pos = chunked.pos
        /\ ready.token_start = chunked.token_start /\ ready.token_end = chunked.token_end
        /\ ready.range_index = chunked.range_index
    BY <2>2, <2>3, <2>4, GetLookaheadSound
  <2>6. LexerOnText(self) => LexerOnText(ready)
    BY <2>5, <2>c, SameOnText DEF ts_lexer__eof
  <2>7. chunked.range_index = IF Len(self.text) <= self.pos.bytes THEN Len(self.ranges) + 1
                              ELSE self.range_index
    BY <2>2, <1>t DEF ts_lexer__eof
  <2>. QED BY <2>2, <2>4, <2>5, <2>6, <2>7 DEF ready
<1>. QED BY <1>5, <1>6

(* A lexer without a chunk is as good a lexer of another text.             *)
LEMMA OtherText ==
  ASSUME NEW self, LexerSound(self), NotDecoded(self), ~HasChunk(self),
         NEW text \in Seq(Bytes), Len(text) < UINT32_MAX
  PROVE  LET that == [self EXCEPT !.text = text] IN
         /\ LexerSound(that) /\ NotDecoded(that) /\ ~HasChunk(that) /\ that.text = text
         /\ that.ranges = self.ranges /\ that.range_index = self.range_index
         /\ that.pos = self.pos
<1> DEFINE that == [self EXCEPT !.text = text]
<1>1. self \in LexerRecord
  BY DEF LexerSound, Positioned, LexerTyped
<1>2. /\ that \in LexerRecord /\ that.text = text
      /\ that.ranges = self.ranges /\ that.range_index = self.range_index
      /\ that.pos = self.pos /\ that.chunk_size = self.chunk_size
      /\ that.lookahead = self.lookahead /\ that.lookahead_size = self.lookahead_size
  BY <1>1 DEF LexerRecord
<1> HIDE DEF that
<1>3. ~HasChunk(that) /\ (ts_lexer__eof(that) <=> ts_lexer__eof(self))
  BY <1>2 DEF HasChunk, ts_lexer__eof
<1>4. LexerSound(that)
  BY <1>2, <1>3 DEF LexerSound, Positioned, LexerTyped
<1>5. NotDecoded(that)
  BY <1>2, <1>3 DEF NotDecoded
<1>. QED BY <1>2, <1>3, <1>4, <1>5 DEF that

(* Beginning a token keeps the text and the ranges, and does not go back.  *)
LEMMA StartStays ==
  ASSUME NEW self, LexerSound(self), NotDecoded(self), LexerOnText(self), ~HasChunk(self)
  PROVE  LET there == ts_lexer_start(self) IN
         /\ there.text = self.text /\ there.ranges = self.ranges
         /\ self.pos.bytes \in Nat /\ there.pos.bytes \in Nat
         /\ self.pos.bytes <= there.pos.bytes
<1> DEFINE there == ts_lexer_start(self)
           ready == StartReady(self)
           passed == ts_lexer__advance(ready, TRUE)
<1>1. /\ LexerSound(ready) /\ Decoded(ready) /\ LexerOnText(ready)
      /\ ready.text = self.text /\ ready.ranges = self.ranges /\ ready.pos = self.pos
      /\ there = IF self.pos.bytes = 0 /\ ready.lookahead = BYTE_ORDER_MARK
                 THEN passed ELSE ready
  BY StartStands
<1> HIDE DEF ready, there
<1>2. /\ passed.text = ready.text /\ passed.ranges = ready.ranges
      /\ ready.pos.bytes \in Nat /\ passed.pos.bytes \in Nat
      /\ ready.pos.bytes <= passed.pos.bytes
  BY <1>1, AdvanceStays
<1> HIDE DEF passed
<1>3. there = passed \/ there = ready
  BY <1>1
<1>4. ready.pos.bytes <= ready.pos.bytes
  BY <1>2
<1>. QED BY <1>1, <1>2, <1>3, <1>4 DEF there

(* A token is begun alike in both texts.                                   *)
LEMMA StartTwin ==
  ASSUME NEW self, LexerSound(self), NotDecoded(self), LexerOnText(self), ~HasChunk(self),
         NEW text \in Seq(Bytes), Len(text) < UINT32_MAX,
         SameCharacters(self.text, text, self.ranges, ts_lexer_start(self).pos.bytes)
  PROVE  LET that == ts_lexer_start([self EXCEPT !.text = text])
         IN  Twin(ts_lexer_start(self), that) /\ that.text = text
<1> DEFINE other == [self EXCEPT !.text = text]
           there == ts_lexer_start(self)
           ready == StartReady(self)
           that == StartReady(other)
           p == self.pos.bytes
           mark == p = 0 /\ ready.lookahead = BYTE_ORDER_MARK
<1>1. /\ LexerSound(ready) /\ Decoded(ready) /\ LexerOnText(ready)
      /\ ready.text = self.text /\ ready.ranges = self.ranges /\ ready.pos = self.pos
      /\ ready.token_start = self.pos /\ ready.token_end = LENGTH_UNDEFINED
      /\ ready.range_index = IF Len(self.text) <= p THEN Len(self.ranges) + 1
                             ELSE self.range_index
      /\ there = IF mark THEN ts_lexer__advance(ready, TRUE) ELSE ready
  BY StartStands
<1>2. /\ LexerSound(other) /\ NotDecoded(other) /\ ~HasChunk(other) /\ other.text = text
      /\ other.ranges = self.ranges /\ other.range_index = self.range_index
      /\ other.pos = self.pos
  BY OtherText
<1> HIDE DEF other
<1>3. /\ LexerSound(that) /\ Decoded(that)
      /\ that.text = text /\ that.ranges = self.ranges /\ that.pos = self.pos
      /\ that.token_start = self.pos /\ that.token_end = LENGTH_UNDEFINED
      /\ that.range_index = IF Len(text) <= p THEN Len(self.ranges) + 1 ELSE self.range_index
      /\ ts_lexer_start(other) = IF p = 0 /\ that.lookahead = BYTE_ORDER_MARK
                                 THEN ts_lexer__advance(that, TRUE) ELSE that
  BY <1>2, StartStands
<1> HIDE DEF ready, that, there
<1>4. self.text \in Seq(Bytes) /\ p \in Nat /\ p \in Boundaries(self.text)
  <2>1. self.text \in Seq(Bytes) /\ p \in Nat
    BY LexerFields DEF LexerSound, Positioned
  <2>. QED BY <2>1 DEF LexerOnText, OnText
<1>5. there.pos.bytes \in Nat /\ p <= there.pos.bytes
  BY StartStays DEF there
<1>6. SameCharacters(self.text, text, self.ranges, p)
  BY <1>4, <1>5, SameBefore DEF there
<1>7. that.range_index = ready.range_index
  <2>1. CASE ts_lexer__eof(self)
    BY <2>1, <1>1, <1>3 DEF ts_lexer__eof
  <2>2. CASE ~ts_lexer__eof(self)
    <3>1. InRanges(p, self.ranges)
      BY <2>2, StandsThere
    <3>2. Len(self.text) <= p <=> Len(text) <= p
      BY <3>1, <1>4, <1>6, SameEnd
    <3>. QED BY <3>2, <1>1, <1>3
  <2>. QED BY <2>1, <2>2
<1>8. Twin(ready, that)
  BY <1>1, <1>3, <1>7 DEF Twin
<1>9. that.lookahead = ready.lookahead
  BY <1>1, <1>3, <1>6, <1>8, TwinsSee
<1>10. CASE ~mark
  BY <1>10, <1>1, <1>3, <1>8, <1>9 DEF there, other
<1>11. CASE mark
  <2>1. there = ts_lexer__advance(ready, TRUE) /\ ts_lexer_start(other) = ts_lexer__advance(that, TRUE)
    BY <1>11, <1>1, <1>3, <1>9
  <2>2. SameCharacters(ready.text, that.text, ready.ranges,
                       ts_lexer__advance(ready, TRUE).pos.bytes)
    BY <2>1, <1>1, <1>3 DEF there
  <2>3. /\ Twin(ts_lexer__advance(ready, TRUE), ts_lexer__advance(that, TRUE))
        /\ ts_lexer__advance(that, TRUE).text = that.text
    BY <2>2, <1>1, <1>8, AdvanceTwin
  <2>. QED BY <2>1, <2>3, <1>3 DEF there, other
<1>. QED BY <1>10, <1>11

-----------------------------------------------------------------------------
(* Asking for the column.                                                  *)

(* Both lexers go back to the same place and read a chunk there.           *)
LEMMA AtRowStartTwin ==
  ASSUME NEW self, NEW other, LexerSound(self), LexerOnText(self), TokenOnText(self),
         Twin(self, other),
         SameCharacters(self.text, other.text, self.ranges, AtRowStart(self).pos.bytes),
         ~ts_lexer__eof(ts_lexer_goto(self, Len3(self.pos.bytes - self.pos.col,
                                                 Point(self.pos.row, 0))))
  PROVE  LET there == AtRowStart(self)
             that == AtRowStart(other)
         IN  /\ LexerSound(that) /\ that.text = other.text
             /\ that.ranges = self.ranges /\ that.range_index = there.range_index
             /\ that.pos = there.pos
             /\ that.token_start = there.token_start /\ that.token_end = there.token_end
             /\ IF ts_lexer__eof(that) THEN Decoded(that) ELSE HasChunk(that)
<1> DEFINE row_start == Len3(self.pos.bytes - self.pos.col, Point(self.pos.row, 0))
           there == AtRowStart(self)
           that == AtRowStart(other)
           i == GotoRange(self.ranges, row_start)
           p == GotoPlace(self.ranges, row_start)
<1>1. row_start \in Place
  <2>1. self.text \in Seq(Bytes) /\ Len(self.text) < UINT32_MAX
    BY LexerFields DEF LexerSound, Positioned, LexerTyped
  <2>. QED BY <2>1, RowStartOnText DEF LexerOnText
<1>2. i # Len(self.ranges) + 1
  <2>1. LexerTyped(self) /\ (HasChunk(self) => ChunkInText(self))
    BY DEF LexerSound, Positioned
  <2> DEFINE at == ts_lexer_goto(self, row_start)
  <2> HIDE DEF row_start
  <2>2. at.range_index = i /\ at.ranges = self.ranges
    BY <1>1, <2>1, GotoSound
  <2>. QED BY <2>2 DEF ts_lexer__eof, row_start
<1> HIDE DEF row_start
<1>3. ASSUME NEW l, LexerSound(l), l.ranges = self.ranges, l.pos = self.pos
      PROVE  LET back == AtRowStart(l) IN
             /\ LexerSound(back) /\ back.text = l.text /\ back.ranges = l.ranges
             /\ back.pos = p /\ p.bytes \in Nat /\ InRanges(p.bytes, self.ranges)
             /\ back.token_start = l.token_start /\ back.token_end = l.token_end
             /\ back.range_index = IF Len(l.text) <= p.bytes THEN Len(l.ranges) + 1 ELSE i
             /\ IF ts_lexer__eof(back) THEN Decoded(back) ELSE HasChunk(back)
  <2> DEFINE asked == [l EXCEPT !.did_get_column = TRUE]
             at == ts_lexer_goto(asked, row_start)
             back == ts_lexer__get_chunk(at)
  <2>1. l \in LexerRecord /\ l.token_start \in Place /\ l.token_end \in Place
    BY <1>3 DEF LexerSound, Positioned, LexerTyped, LexerRecord
  <2>2. asked = Tokened(l, l.token_start, l.token_end, TRUE)
    BY <2>1 DEF Tokened, LexerRecord
  <2>a. back = AtRowStart(l)
    BY <1>3 DEF AtRowStart, row_start
  <2> HIDE DEF asked
  <2>3. LexerSound(asked)
    BY <1>3, <2>1, <2>2, TokenedSound
  <2>4. /\ asked.text = l.text /\ asked.ranges = l.ranges
        /\ asked.token_start = l.token_start /\ asked.token_end = l.token_end
    BY <2>1, <2>2, SetToken
  <2>5. LexerTyped(asked) /\ (HasChunk(asked) => ChunkInText(asked))
    BY <2>3 DEF LexerSound, Positioned
  <2>6. /\ LexerSound(at) /\ at.lookahead = NUL
        /\ at.text = asked.text /\ at.ranges = asked.ranges
        /\ at.token_start = asked.token_start /\ at.token_end = asked.token_end
        /\ at.range_index = GotoRange(asked.ranges, row_start)
        /\ at.pos = GotoPlace(asked.ranges, row_start)
    BY <1>1, <2>5, GotoSound
  <2>7. at.range_index = i /\ at.pos = p /\ at.ranges = self.ranges
    BY <1>3, <2>4, <2>6
  <2> HIDE DEF at, i, p
  <2>8. ~ts_lexer__eof(at) /\ Positioned(at) /\ LexerTyped(at)
    BY <1>2, <2>6, <2>7 DEF ts_lexer__eof, LexerSound, Positioned
  <2>9. at.pos.bytes \in Nat /\ Len(at.text) \in Nat
    BY <2>8, LexerFields
  <2>r. InRanges(p.bytes, self.ranges)
    <3>1. Len(at.ranges) \in Nat /\ DOMAIN at.ranges = 1..Len(at.ranges)
      BY <2>8, LexerFields
    <3>2. InRanges(at.pos.bytes, at.ranges)
      BY <3>1, <2>8 DEF Positioned, ts_lexer__eof, InRanges
    <3>. QED BY <3>2, <2>7
  <2>10. /\ LexerSound(back) /\ back.lookahead = NUL
         /\ back.text = at.text /\ back.ranges = at.ranges /\ back.pos = at.pos
         /\ back.token_start = at.token_start /\ back.token_end = at.token_end
         /\ at.pos.bytes < Len(at.text) => HasChunk(back) /\ back.range_index = at.range_index
         /\ Len(at.text) <= at.pos.bytes => ts_lexer__eof(back) /\ back.chunk_size = 0
    BY <2>6, <2>8, GetChunkSound
  <2> HIDE DEF back
  <2>11. back.range_index = IF Len(l.text) <= p.bytes THEN Len(l.ranges) + 1 ELSE i
    <3>1. CASE Len(at.text) <= at.pos.bytes
      BY <3>1, <1>3, <2>4, <2>6, <2>7, <2>10 DEF ts_lexer__eof
    <3>2. CASE at.pos.bytes < Len(at.text)
      <4>1. ~(Len(l.text) <= p.bytes)
        BY <3>2, <2>4, <2>6, <2>7, <2>9
      <4>. QED BY <3>2, <4>1, <2>7, <2>10
    <3>. QED BY <3>1, <3>2, <2>9
  <2>12. IF ts_lexer__eof(back) THEN Decoded(back) ELSE HasChunk(back)
    <3>1. CASE Len(at.text) <= at.pos.bytes
      BY <3>1, <2>10 DEF Decoded
    <3>2. CASE at.pos.bytes < Len(at.text)
      BY <3>2, <2>10 DEF LexerSound
    <3>. QED BY <3>1, <3>2, <2>9
  <2>. QED BY <2>a, <2>r, <2>4, <2>6, <2>7, <2>9, <2>10, <2>11, <2>12
<1> HIDE DEF i, p
<1>4. /\ LexerSound(other) /\ other.ranges = self.ranges /\ other.pos = self.pos
      /\ other.token_start = self.token_start /\ other.token_end = self.token_end
  BY DEF Twin
<1>5. /\ there.pos = p /\ p.bytes \in Nat /\ there.ranges = self.ranges
      /\ InRanges(p.bytes, self.ranges)
      /\ there.token_start = self.token_start /\ there.token_end = self.token_end
      /\ there.range_index = IF Len(self.text) <= p.bytes THEN Len(self.ranges) + 1 ELSE i
  BY <1>3
<1>6. /\ LexerSound(that) /\ that.text = other.text /\ that.ranges = other.ranges
      /\ that.pos = p
      /\ that.token_start = other.token_start /\ that.token_end = other.token_end
      /\ that.range_index = IF Len(other.text) <= p.bytes THEN Len(other.ranges) + 1 ELSE i
      /\ IF ts_lexer__eof(that) THEN Decoded(that) ELSE HasChunk(that)
  BY <1>3, <1>4
<1>7. there.pos.bytes \in Boundaries(self.text)
  <2>1. LexerOnText(there) /\ there.text = self.text
    BY GetColumnBegins
  <2>. QED BY <2>1 DEF LexerOnText, OnText
<1>8. self.text \in Seq(Bytes) /\ other.text \in Seq(Bytes)
  BY <1>4, LexerFields DEF LexerSound, Positioned
<1>9. Len(self.text) <= p.bytes <=> Len(other.text) <= p.bytes
  BY <1>5, <1>7, <1>8, SameEnd
<1> HIDE DEF there, that
<1>. QED BY <1>4, <1>5, <1>6, <1>9 DEF there, that

(* A round of the walk takes twins to twins, or neither has a round left.  *)
LEMMA ColumnRoundTwin ==
  ASSUME NEW self, self.text \in Seq(Bytes), self.pos.bytes \in Nat,
         NEW goal, goal \in Nat, CanStand(self, goal),
         NEW v, v.column \in Nat, RowCounted(self, goal, v),
         NEW w, Twin(v.lexer, w.lexer), SameCharacters(self.text, w.lexer.text, self.ranges, goal)
  PROVE  LET next == ColumnRound(w, goal) IN
         /\ Twin(ColumnRound(v, goal).lexer, next.lexer) /\ next.lexer.text = w.lexer.text
         /\ next = w \/ next = [lexer |-> next.lexer, column |-> w.column + 1]
<1> DEFINE l == v.lexer
           m == w.lexer
           there == ts_lexer__do_advance(l, FALSE)
           that == ts_lexer__do_advance(m, FALSE)
<1>1. /\ LexerSound(l) /\ Decoded(l) /\ LexerOnText(l) /\ l.text = self.text
      /\ l.ranges = self.ranges /\ l.pos.bytes <= goal
  BY DEF RowCounted, OnTheRow
<1>2. l.pos.bytes \in Nat
  BY <1>1, LexerFields DEF LexerSound, Positioned
<1>3. SameCharacters(l.text, m.text, l.ranges, l.pos.bytes)
  BY <1>1, <1>2, SameBefore
<1>4. RowDone(v, goal) <=> RowDone(w, goal)
  <2>1. /\ ts_lexer__eof(m) <=> ts_lexer__eof(l)
        /\ HasChunk(m) <=> HasChunk(l)
    <3> HIDE DEF l, m
    <3>. QED BY <1>1, <1>3, TwinsSee DEF l, m
  <2>2. m.pos = l.pos
    BY DEF Twin
  <2>. QED BY <2>1, <2>2 DEF RowDone
<1>5. CASE RowDone(v, goal)
  <2>1. ColumnRound(v, goal) = v /\ ColumnRound(w, goal) = w
    BY <1>4, <1>5 DEF RowDone, ColumnRound
  <2>. QED BY <2>1
<1>6. CASE ~RowDone(v, goal)
  <2>1. /\ ColumnRound(v, goal) = [lexer |-> there, column |-> v.column + 1]
        /\ ColumnRound(w, goal) = [lexer |-> that, column |-> w.column + 1]
    BY <1>4, <1>6 DEF RowDone, ColumnRound
  <2>2. RowCounted(self, goal, ColumnRound(v, goal))
    BY <1>6, ColumnRoundSound
  <2>3. there.pos.bytes <= goal /\ LexerSound(there)
    <3>1. ColumnRound(v, goal).lexer = there
      BY <2>1
    <3> HIDE DEF there
    <3>. QED BY <3>1, <2>2 DEF RowCounted, OnTheRow
  <2>4. there.pos.bytes \in Nat
    BY <2>3, LexerFields DEF LexerSound, Positioned
  <2>5. SameCharacters(l.text, m.text, l.ranges, there.pos.bytes)
    BY <1>1, <2>3, <2>4, SameBefore
  <2>6. HasChunk(l)
    BY <1>6 DEF RowDone
  <2>7. Twin(there, that) /\ that.text = m.text
    <3> HIDE DEF l, m
    <3>. QED BY <1>1, <2>5, <2>6, DoAdvanceTwin DEF l, m
  <2> HIDE DEF there, that
  <2>. QED BY <2>1, <2>7
<1>. QED BY <1>5, <1>6

(* So does the whole walk.                                                 *)
LEMMA CountColumnsTwin ==
  ASSUME NEW self, NEW other, LexerSound(self), Decoded(self), LexerOnText(self),
         NEW goal, goal \in Nat, CanStand(self, goal), self.pos.bytes <= goal,
         Twin(self, other), SameCharacters(self.text, other.text, self.ranges, goal)
  PROVE  LET that == CountColumns(other, goal).lexer
         IN  Twin(CountColumns(self, goal).lexer, that) /\ that.text = other.text
<1> DEFINE at == ColumnRounds(self, goal)
           on == ColumnRounds(other, goal)
           Both(n, w) == Twin(at[n].lexer, w.lexer) /\ w.lexer.text = other.text
           W == {w \in [lexer : LexerRecord, column : Nat] : \E n \in Nat : Both(n, w)}
           start == [lexer |-> other, column |-> 0]
<1>t. self.text \in Seq(Bytes) /\ self.pos.bytes \in Nat
  BY LexerFields DEF LexerSound, Positioned
<1>1. /\ at[0] = [lexer |-> self, column |-> 0]
      /\ \A n \in Nat : at[n + 1] = ColumnRound(at[n], goal)
      /\ \A n \in Nat : at[n].column \in Nat /\ RowCounted(self, goal, at[n])
  BY ColumnRoundsSound
<1> HIDE DEF at
<1>2. start \in W /\ Both(0, start)
  <2>1. other \in LexerRecord
    BY DEF Twin, LexerSound, Positioned, LexerTyped
  <2>2. Both(0, start)
    BY <1>1
  <2> HIDE DEF Both
  <2>. QED BY <2>1, <2>2
<1>3. ASSUME NEW n \in Nat, NEW w \in [lexer : LexerRecord, column : Nat], Both(n, w)
      PROVE  Both(n + 1, ColumnRound(w, goal)) /\ ColumnRound(w, goal) \in W
  <2> DEFINE next == ColumnRound(w, goal)
             v == at[n]
  <2>1. v.column \in Nat /\ RowCounted(self, goal, v) /\ at[n + 1] = ColumnRound(v, goal)
    BY <1>1
  <2>2. Twin(v.lexer, w.lexer) /\ w.lexer.text = other.text
    BY <1>3
  <2> HIDE DEF v, next
  <2>3. /\ Twin(ColumnRound(v, goal).lexer, next.lexer) /\ next.lexer.text = w.lexer.text
        /\ next = w \/ next = [lexer |-> next.lexer, column |-> w.column + 1]
    BY <1>t, <2>1, <2>2, ColumnRoundTwin DEF next
  <2>4. Both(n + 1, next)
    BY <2>1, <2>2, <2>3
  <2>5. next.lexer \in LexerRecord /\ n + 1 \in Nat /\ w.column + 1 \in Nat
    BY <2>3 DEF Twin, LexerSound, Positioned, LexerTyped
  <2>6. next \in [lexer : LexerRecord, column : Nat]
    BY <2>3, <2>5
  <2> HIDE DEF Both
  <2>. QED BY <2>4, <2>5, <2>6 DEF next
<1>4. \A w \in W : ColumnRound(w, goal) \in W
  <2> SUFFICES ASSUME NEW w \in W PROVE ColumnRound(w, goal) \in W
    OBVIOUS
  <2> HIDE DEF Both
  <2>1. PICK n \in Nat : Both(n, w)
    OBVIOUS
  <2>2. w \in [lexer : LexerRecord, column : Nat]
    OBVIOUS
  <2>. QED BY <2>1, <2>2, <1>3
<1>5. /\ on[0] = start /\ \A n \in Nat : on[n + 1] = ColumnRound(on[n], goal)
      /\ \A n \in Nat : on[n] \in W
  <2> HIDE DEF W
  <2>. QED BY <1>2, <1>4, ColumnRoundsLoop
<1> HIDE DEF on, start, Both
<1>6. \A n \in Nat : on[n] \in [lexer : LexerRecord, column : Nat]
  BY <1>5
<1> HIDE DEF W
<1>7. \A n \in Nat : Both(n, on[n])
  <2> DEFINE S == {n \in Nat : Both(n, on[n])}
  <2>1. 0 \in S
    BY <1>2, <1>5
  <2>2. ASSUME NEW n \in Nat, n \in S PROVE n + 1 \in S
    BY <2>2, <1>3, <1>5, <1>6
  <2>3. Nat \subseteq S
    <3> HIDE DEF S
    <3>. QED BY <2>1, <2>2, NatSetInduction
  <2>. QED BY <2>3
<1>. QED BY <1>7 DEF Both, at, on, CountColumns

(* ts_lexer__get_column takes twins to twins.                              *)
LEMMA GetColumnTwin ==
  ASSUME NEW self, NEW other, LexerSound(self), LexerOnText(self), TokenOnText(self),
         Decoded(self), Twin(self, other),
         SameCharacters(self.text, other.text, self.ranges, self.pos.bytes),
         ~ts_lexer__eof(ts_lexer_goto(self, Len3(self.pos.bytes - self.pos.col,
                                                 Point(self.pos.row, 0))))
  PROVE  LET that == ts_lexer__get_column(other).lexer
         IN  Twin(ts_lexer__get_column(self).lexer, that) /\ that.text = other.text
<1> DEFINE begin == AtRowStart(self)
           back == AtRowStart(other)
           first == ts_lexer__get_lookahead(begin)
           one == ts_lexer__get_lookahead(back)
           goal == self.pos.bytes
           from == begin.pos.bytes
           there == ts_lexer__get_column(self).lexer
           that == ts_lexer__get_column(other).lexer
<1>1. /\ LexerSound(begin) /\ LexerOnText(begin)
      /\ begin.text = self.text /\ begin.ranges = self.ranges
      /\ IF ts_lexer__eof(begin) THEN Decoded(begin) ELSE HasChunk(begin)
      /\ \A b \in Nat : goal - self.pos.col <= b /\ b < from => ~InRanges(b, self.ranges)
      /\ goal - self.pos.col <= goal
      /\ there = IF ts_lexer__eof(begin) THEN begin ELSE CountColumns(first, goal).lexer
  BY GetColumnBegins
<1>2. that = IF ts_lexer__eof(back) THEN back ELSE CountColumns(one, goal).lexer
  BY DEF ts_lexer__get_column, AtRowStart, Twin
<1> HIDE DEF there, that, begin, back
<1>3. /\ goal \in Nat /\ CanStand(self, goal) /\ from \in Nat /\ from <= InputEnd(self)
      /\ self.text \in Seq(Bytes)
  <2>1. InputEnd(begin) = InputEnd(self)
    BY <1>1 DEF InputEnd
  <2>2. goal \in Nat /\ CanStand(self, goal)
    BY StandsThere
  <2>3. from \in Nat /\ from <= InputEnd(begin)
    BY <1>1, StandsThere
  <2>4. self.text \in Seq(Bytes)
    BY LexerFields DEF LexerSound, Positioned
  <2>. QED BY <2>1, <2>2, <2>3, <2>4
<1>4. from <= goal
  <2> SUFFICES ASSUME goal < from PROVE FALSE
    BY <1>3
  <2>1. ~InRanges(goal, self.ranges)
    BY <1>1, <1>3
  <2>2. goal = InputEnd(self)
    BY <2>1, <1>3 DEF CanStand
  <2>. QED BY <2>2, <1>3
<1>5. SameCharacters(self.text, other.text, self.ranges, from)
  BY <1>3, <1>4, SameBefore
<1>6. /\ LexerSound(back) /\ back.text = other.text
      /\ back.ranges = self.ranges /\ back.range_index = begin.range_index
      /\ back.pos = begin.pos
      /\ back.token_start = begin.token_start /\ back.token_end = begin.token_end
      /\ IF ts_lexer__eof(back) THEN Decoded(back) ELSE HasChunk(back)
  BY <1>5, AtRowStartTwin DEF begin, back
<1>7. ts_lexer__eof(back) <=> ts_lexer__eof(begin)
  BY <1>1, <1>6 DEF ts_lexer__eof
<1>8. CASE ts_lexer__eof(begin)
  <2>1. there = begin /\ that = back
    BY <1>1, <1>2, <1>7, <1>8
  <2>2. Twin(begin, back)
    BY <1>1, <1>6, <1>7, <1>8 DEF Twin
  <2>. QED BY <2>1, <2>2, <1>6 DEF there, that
<1>9. CASE ~ts_lexer__eof(begin)
  <2>1. there = CountColumns(first, goal).lexer /\ that = CountColumns(one, goal).lexer
    BY <1>1, <1>2, <1>7, <1>9
  <2>2. /\ LexerSound(first) /\ Decoded(first)
        /\ first.text = begin.text /\ first.ranges = begin.ranges /\ first.pos = begin.pos
        /\ first.token_start = begin.token_start /\ first.token_end = begin.token_end
        /\ first.range_index = begin.range_index
    BY <1>1, <1>9, GetLookaheadSound
  <2>3. /\ LexerSound(one) /\ Decoded(one)
        /\ one.text = back.text /\ one.ranges = back.ranges /\ one.pos = back.pos
        /\ one.token_start = back.token_start /\ one.token_end = back.token_end
        /\ one.range_index = back.range_index
    BY <1>6, <1>7, <1>9, GetLookaheadSound
  <2> HIDE DEF first, one
  <2>4. LexerOnText(first)
    BY <1>1, <2>2, SameOnText DEF ts_lexer__eof
  <2>5. CanStand(first, goal) /\ first.pos.bytes <= goal
    BY <1>1, <1>3, <1>4, <2>2 DEF CanStand, InputEnd
  <2>6. Twin(first, one) /\ SameCharacters(first.text, one.text, first.ranges, goal)
    BY <1>1, <1>6, <2>2, <2>3 DEF Twin
  <2> HIDE DEF goal
  <2>7. Twin(there, that) /\ that.text = one.text
    BY <1>3, <2>1, <2>2, <2>4, <2>5, <2>6, CountColumnsTwin
  <2>. QED BY <2>7, <2>3, <1>6 DEF there, that
<1>. QED BY <1>8, <1>9

(* So it does where no included range is left after the start of the row,  *)
(* at the end of the text.                                                 *)
LEMMA GetColumnEndTwin ==
  ASSUME NEW self, NEW other, LexerSound(self), LexerOnText(self), TokenOnText(self),
         Decoded(self), Twin(self, other),
         SameText(self.text, other.text, self.ranges, self.pos.bytes),
         ts_lexer__eof(ts_lexer_goto(self, Len3(self.pos.bytes - self.pos.col,
                                                Point(self.pos.row, 0)))),
         ~Stranded(ts_lexer__get_column(self).lexer)
  PROVE  LET that == ts_lexer__get_column(other).lexer
         IN  Twin(ts_lexer__get_column(self).lexer, that) /\ that.text = other.text
<1> DEFINE row_start == Len3(self.pos.bytes - self.pos.col, Point(self.pos.row, 0))
           there == ts_lexer__get_column(self).lexer
           that == ts_lexer__get_column(other).lexer
           back == AtRowStart(other)
<1>1. /\ there.text = self.text /\ there.ranges = self.ranges
      /\ there.token_start = self.token_start /\ there.token_end = self.token_end
      /\ there.pos = self.pos /\ ts_lexer__eof(there)
      /\ HasChunk(there) <=> self.pos.bytes < Len(self.text)
      /\ there = AtRowStart(self)
  <2>1. ts_lexer__eof(AtRowStart(self)) => there = AtRowStart(self)
    BY DEF ts_lexer__get_column, AtRowStart
  <2>2. row_start \in Place
    <3>1. self.text \in Seq(Bytes) /\ Len(self.text) < UINT32_MAX
      BY LexerFields DEF LexerSound, Positioned, LexerTyped
    <3>. QED BY <3>1, RowStartOnText DEF LexerOnText
  <2>3. ts_lexer__eof(AtRowStart(self))
    BY <2>2, BackAtEnd DEF AtRowStart
  <2>. QED BY <2>1, <2>3, GetColumnAtEnd
<1>2. LexerSound(other) /\ other.ranges = self.ranges /\ other.pos = self.pos
      /\ other.token_start = self.token_start /\ other.token_end = self.token_end
  BY DEF Twin
<1>3. row_start \in Place
  <2>1. self.text \in Seq(Bytes) /\ Len(self.text) < UINT32_MAX
    BY LexerFields DEF LexerSound, Positioned, LexerTyped
  <2>. QED BY <2>1, RowStartOnText DEF LexerOnText
<1>4. /\ back = ts_lexer__get_chunk(ts_lexer_goto([other EXCEPT !.did_get_column = TRUE],
                                                 row_start))
      /\ that = IF ts_lexer__eof(back) THEN back
                ELSE CountColumns(ts_lexer__get_lookahead(back), other.pos.bytes).lexer
  BY <1>2 DEF AtRowStart, ts_lexer__get_column
<1>5. ts_lexer__eof(ts_lexer_goto(self, row_start))
      /\ there = ts_lexer__get_chunk(ts_lexer_goto([self EXCEPT !.did_get_column = TRUE],
                                                  row_start))
  BY <1>1 DEF AtRowStart
<1> HIDE DEF row_start, there, that, back
<1>6. ts_lexer__eof(ts_lexer_goto(other, row_start))
  <2>1. LexerTyped(self) /\ (HasChunk(self) => ChunkInText(self))
    BY DEF LexerSound, Positioned
  <2>2. LexerTyped(other) /\ (HasChunk(other) => ChunkInText(other))
    BY <1>2 DEF LexerSound, Positioned
  <2>3. ~RangeLeft(self.ranges, row_start.bytes)
    BY <1>3, <1>5, <2>1, GotoSound DEF RangeLeft
  <2>4. ts_lexer__eof(ts_lexer_goto(other, row_start)) <=> ~RangeLeft(other.ranges, row_start.bytes)
    BY <1>3, <2>2, GotoSound DEF RangeLeft
  <2>. QED BY <1>2, <2>3, <2>4
<1>7. there.pos = GotoPlace(self.ranges, row_start) /\ (~HasChunk(there) => LexerSound(there))
  BY <1>3, <1>5, BackAtEnd
<1>8. /\ ts_lexer__eof(back) /\ back.text = other.text /\ back.ranges = other.ranges
      /\ back.token_start = other.token_start /\ back.token_end = other.token_end
      /\ back.pos = GotoPlace(other.ranges, row_start)
      /\ HasChunk(back) <=> back.pos.bytes < Len(other.text)
      /\ ~HasChunk(back) => LexerSound(back) /\ Decoded(back)
  BY <1>2, <1>3, <1>4, <1>6, BackAtEnd
<1>9. ~HasChunk(back)
  <2>1. self.pos.bytes \in Nat /\ Len(self.text) \in Nat /\ Len(other.text) \in Nat
    BY <1>2, LexerFields DEF LexerSound, Positioned
  <2>2. ~HasChunk(there)
    BY <1>1 DEF Stranded, there
  <2>3. Len(self.text) <= self.pos.bytes
    BY <1>1, <2>1, <2>2
  <2>4. Len(other.text) <= self.pos.bytes
    BY <2>1, <2>3 DEF SameText
  <2>5. back.pos = self.pos
    BY <1>1, <1>2, <1>7, <1>8
  <2>. QED BY <1>8, <2>1, <2>4, <2>5
<1>10. back.range_index = there.range_index
  BY <1>1, <1>2, <1>8 DEF ts_lexer__eof
<1>11. that = back
  BY <1>4, <1>8
<1>12. Twin(there, back)
  BY <1>1, <1>2, <1>7, <1>8, <1>9, <1>10 DEF Twin
<1>. QED BY <1>8, <1>11, <1>12 DEF there, that

-----------------------------------------------------------------------------
(* The calls made again.                                                   *)

(* A call keeps the text and the ranges, and does not go back.             *)
LEMMA ApplyStays ==
  ASSUME NEW self, LexerSound(self), Decoded(self), LexerOnText(self), TokenOnText(self),
         NEW call \in {"advance", "skip", "mark_end", "get_column"}
  PROVE  LET there == Apply(self, call) IN
         /\ there.text = self.text /\ there.ranges = self.ranges
         /\ self.pos.bytes \in Nat /\ there.pos.bytes \in Nat
         /\ self.pos.bytes <= there.pos.bytes
<1>1. self.pos.bytes \in Nat /\ self.pos.bytes <= self.pos.bytes
  <2>1. self.pos.bytes \in Nat
    BY LexerFields DEF LexerSound, Positioned
  <2>. QED BY <2>1
<1>2. CASE call = "advance"
  <2>1. Apply(self, call) = ts_lexer__advance(self, FALSE)
    BY <1>2 DEF Apply
  <2>. QED BY <2>1, AdvanceStays
<1>3. CASE call = "skip"
  <2>1. Apply(self, call) = ts_lexer__advance(self, TRUE)
    BY <1>3 DEF Apply
  <2>. QED BY <2>1, AdvanceStays
<1>4. CASE call = "mark_end"
  <2>1. Apply(self, call) = ts_lexer__mark_end(self)
    BY <1>4 DEF Apply
  <2>. QED BY <2>1, <1>1, MarkEndStands
<1>5. CASE call = "get_column"
  <2>1. Apply(self, call) = ts_lexer__get_column(self).lexer
    BY <1>5 DEF Apply
  <2>. QED BY <2>1, <1>1, ColumnLeaves
<1>. QED BY <1>2, <1>3, <1>4, <1>5

(* A call takes twins to twins.                                            *)
LEMMA ApplyTwin ==
  ASSUME NEW self, LexerSound(self), Decoded(self), LexerOnText(self), TokenOnText(self),
         NEW call \in {"advance", "skip", "mark_end", "get_column"},
         ~Stranded(Apply(self, call)),
         NEW other, Twin(self, other),
         SameText(self.text, other.text, self.ranges, Apply(self, call).pos.bytes)
  PROVE  /\ Twin(Apply(self, call), Apply(other, call))
         /\ Apply(other, call).text = other.text
<1>0. SameCharacters(self.text, other.text, self.ranges, Apply(self, call).pos.bytes)
  BY DEF SameText
<1>1. SameText(self.text, other.text, self.ranges, self.pos.bytes)
  <2>1. /\ self.pos.bytes \in Nat /\ Apply(self, call).pos.bytes \in Nat
        /\ self.pos.bytes <= Apply(self, call).pos.bytes
    BY ApplyStays
  <2>2. self.text \in Seq(Bytes)
    BY LexerFields DEF LexerSound, Positioned
  <2>3. other.text \in Seq(Bytes)
    BY LexerFields DEF Twin, LexerSound, Positioned
  <2>. QED BY <2>1, <2>2, <2>3, SameTextBefore
<1>a. SameCharacters(self.text, other.text, self.ranges, self.pos.bytes)
  BY <1>1 DEF SameText
<1>2. CASE call = "advance"
  <2>1. \A l : Apply(l, call) = ts_lexer__advance(l, FALSE)
    BY <1>2 DEF Apply
  <2>. QED BY <1>0, <2>1, AdvanceTwin
<1>3. CASE call = "skip"
  <2>1. \A l : Apply(l, call) = ts_lexer__advance(l, TRUE)
    BY <1>3 DEF Apply
  <2>. QED BY <1>0, <2>1, AdvanceTwin
<1>4. CASE call = "mark_end"
  <2>1. \A l : Apply(l, call) = ts_lexer__mark_end(l)
    BY <1>4 DEF Apply
  <2>. QED BY <1>0, <2>1, MarkEndTwin
<1>5. CASE call = "get_column"
  <2>1. \A l : Apply(l, call) = ts_lexer__get_column(l).lexer
    BY <1>5 DEF Apply
  <2>2. CASE ts_lexer__eof(ts_lexer_goto(self, Len3(self.pos.bytes - self.pos.col,
                                                   Point(self.pos.row, 0))))
    BY <2>1, <2>2, <1>1, GetColumnEndTwin
  <2>3. CASE ~ts_lexer__eof(ts_lexer_goto(self, Len3(self.pos.bytes - self.pos.col,
                                                    Point(self.pos.row, 0))))
    BY <2>1, <2>3, <1>a, GetColumnTwin
  <2>. QED BY <2>2, <2>3
<1>. QED BY <1>2, <1>3, <1>4, <1>5

(* The first n calls of a replay.                                          *)
Made(first, made, g, n) ==
  g[0] = first /\ \A i \in 0..(n - 1) : g[i + 1] = Apply(g[i], made[i + 1])

(* Replays of the same calls agree.                                        *)
LEMMA MadeAgree ==
  ASSUME NEW first, NEW made, NEW other, NEW n \in Nat, NEW m \in Nat, NEW g, NEW h,
         Made(first, made, g, n), Made(first, other, h, m),
         NEW l \in Nat, l <= n, l <= m, \A i \in 1..l : made[i] = other[i]
  PROVE  g[l] = h[l]
<1> DEFINE S == {i \in Nat : i <= l => g[i] = h[i]}
<1>1. 0 \in S
  BY DEF Made
<1>2. ASSUME NEW i \in Nat, i \in S PROVE i + 1 \in S
  <2> SUFFICES ASSUME i + 1 <= l PROVE g[i + 1] = h[i + 1]
    OBVIOUS
  <2>1. i \in 0..(n - 1) /\ i \in 0..(m - 1) /\ i + 1 \in 1..l /\ i <= l
    OBVIOUS
  <2>2. g[i] = h[i] /\ made[i + 1] = other[i + 1]
    BY <1>2, <2>1
  <2>3. g[i + 1] = Apply(g[i], made[i + 1]) /\ h[i + 1] = Apply(h[i], other[i + 1])
    BY <2>1 DEF Made
  <2>. QED BY <2>2, <2>3
<1>3. Nat \subseteq S
  <2> HIDE DEF S
  <2>. QED BY <1>1, <1>2, NatSetInduction
<1>4. l <= l
  OBVIOUS
<1>. QED BY <1>3, <1>4

(* Any number of calls can be made.                                        *)
LEMMA MadeExists ==
  ASSUME NEW first, NEW made, NEW n \in Nat
  PROVE  \E g : Made(first, made, g, n)
<1> DEFINE S == {i \in Nat : \E g : Made(first, made, g, i)}
<1>1. 0 \in S
  <2>1. Made(first, made, [i \in 0..0 |-> first], 0)
    BY DEF Made
  <2>. QED BY <2>1
<1>2. ASSUME NEW i \in Nat, i \in S PROVE i + 1 \in S
  <2>1. PICK g : Made(first, made, g, i)
    BY <1>2
  <2> DEFINE h == [j \in 0..(i + 1) |-> IF j = i + 1 THEN Apply(g[i], made[i + 1]) ELSE g[j]]
  <2>2. h[0] = first
    BY <2>1 DEF Made
  <2>3. ASSUME NEW j \in 0..i PROVE h[j + 1] = Apply(h[j], made[j + 1])
    <3>1. CASE j = i
      BY <3>1
    <3>2. CASE j # i
      <4>1. j \in 0..(i - 1) /\ j + 1 # i + 1 /\ j # i + 1 /\ j + 1 \in 0..(i + 1) /\ j \in 0..(i + 1)
        BY <3>2
      <4>2. h[j + 1] = g[j + 1] /\ h[j] = g[j]
        BY <4>1
      <4> HIDE DEF h
      <4>. QED BY <4>1, <4>2, <2>1 DEF Made
    <3>. QED BY <3>1, <3>2
  <2>4. (i + 1) - 1 = i
    OBVIOUS
  <2>5. Made(first, made, h, i + 1)
    <3> HIDE DEF h
    <3>. QED BY <2>2, <2>3, <2>4 DEF Made
  <2>. QED BY <2>5
<1>3. Nat \subseteq S
  <2> HIDE DEF S
  <2>. QED BY <1>1, <1>2, NatSetInduction
<1>. QED BY <1>3

(* The replay makes the calls one by one.                                  *)
LEMMA ReplayMakes ==
  ASSUME NEW first, NEW made, NEW n \in Nat
  PROVE  Made(first, made, ReplayFrom(first, made), n)
<1> DEFINE run(m) == CHOOSE g : Made(first, made, g, m)
           f == [m \in Nat |-> run(m)[m]]
           Body(at) == [m \in Nat |-> IF m = 0 THEN first ELSE Apply(at[m - 1], made[m])]
           at == ReplayFrom(first, made)
<1>1. \A m \in Nat : Made(first, made, run(m), m)
  BY MadeExists
<1> HIDE DEF run
<1>2. f[0] = first
  BY <1>1 DEF Made
<1>3. ASSUME NEW m \in Nat PROVE f[m + 1] = Apply(f[m], made[m + 1])
  <2>1. m + 1 \in Nat /\ m \in 0..((m + 1) - 1) /\ m <= m + 1 /\ m <= m
    OBVIOUS
  <2>2. run(m + 1)[m + 1] = Apply(run(m + 1)[m], made[m + 1])
    BY <1>1, <2>1 DEF Made
  <2>3. run(m + 1)[m] = run(m)[m]
    BY <1>1, <2>1, MadeAgree
  <2>. QED BY <2>1, <2>2, <2>3
<1>4. f = Body(f)
  <2>1. f = [m \in Nat |-> f[m]]
    OBVIOUS
  <2> HIDE DEF f
  <2>2. ASSUME NEW m \in Nat PROVE f[m] = Body(f)[m]
    <3>1. CASE m = 0
      BY <3>1, <1>2
    <3>2. CASE m # 0
      <4>1. m - 1 \in Nat /\ (m - 1) + 1 = m
        BY <3>2
      <4>. QED BY <3>2, <4>1, <1>3
    <3>. QED BY <3>1, <3>2
  <2>3. Body(f) = [m \in Nat |-> Body(f)[m]]
    OBVIOUS
  <2> HIDE DEF Body
  <2>. QED BY <2>1, <2>2, <2>3
<1>5. at = Body(at)
  <2>1. at = CHOOSE g : g = Body(g)
    BY DEF ReplayFrom
  <2> HIDE DEF Body, at
  <2>. QED BY <1>4, <2>1
<1> HIDE DEF at
<1>6. \A m \in Nat : at[m] = IF m = 0 THEN first ELSE Apply(at[m - 1], made[m])
  BY <1>5
<1>7. \A i \in 0..(n - 1) : i + 1 \in Nat /\ i + 1 # 0 /\ (i + 1) - 1 = i
  OBVIOUS
<1> HIDE DEF Body
<1>8. \A i \in 0..(n - 1) : at[i + 1] = Apply(at[i], made[i + 1])
  BY <1>6, <1>7
<1>9. at[0] = first
  BY <1>6
<1>. QED BY <1>8, <1>9 DEF Made, at

(* One call more is one step more of the same replay.                      *)
LEMMA ReplayAppend ==
  ASSUME NEW first, NEW C, NEW made \in Seq(C), NEW call \in C
  PROVE  LET more == Append(made, call) IN
         /\ more \in Seq(C)
         /\ ReplayFrom(first, more)[Len(more)] = Apply(ReplayFrom(first, made)[Len(made)], call)
<1> DEFINE more == Append(made, call)
           n == Len(made)
           at == ReplayFrom(first, made)
           on == ReplayFrom(first, more)
<1>1. /\ n \in Nat /\ more \in Seq(C) /\ Len(more) = n + 1 /\ more[n + 1] = call
      /\ \A i \in 1..n : made[i] = more[i]
  OBVIOUS
<1>2. n + 1 \in Nat /\ n \in 0..((n + 1) - 1) /\ n <= n /\ n <= n + 1
  BY <1>1
<1>3. Made(first, made, at, n) /\ Made(first, more, on, n + 1)
  BY <1>1, <1>2, ReplayMakes
<1> HIDE DEF more, n, at, on
<1>4. at[n] = on[n]
  BY <1>1, <1>2, <1>3, MadeAgree
<1>5. on[n + 1] = Apply(on[n], more[n + 1])
  BY <1>2, <1>3 DEF Made
<1>. QED BY <1>1, <1>4, <1>5 DEF more, n, at, on

(* An edit that begins with a character, at lookahead_end_byte or later,   *)
(* leaves the characters that were seen: the one looked at may be invalid  *)
(* only because of the bytes behind it, and these are kept too.            *)
LEMMA EditedSame ==
  ASSUME NEW self, LexerSound(self), Decoded(self), LexerOnText(self),
         NEW other \in Seq(Bytes), EditedBehind(LookaheadEnd(self), self.text, other)
  PROVE  SameText(self.text, other, self.ranges, self.pos.bytes)
<1> DEFINE text == self.text
           p == self.pos.bytes
           l == Len(text)
<1>t. LexerTyped(self) /\ text \in Seq(Bytes) /\ l \in Nat /\ p \in Nat /\ Len(other) \in Nat
      /\ Len(self.ranges) \in Nat /\ DOMAIN self.ranges = 1..Len(self.ranges)
  BY LexerFields DEF LexerSound, Positioned
<1>1. PICK k \in Boundaries(text) :
        /\ LookaheadEnd(self) <= k /\ k <= Len(other)
        /\ \A i \in 1..k : other[i] = text[i]
  BY DEF EditedBehind
<1>2. /\ k \in Nat /\ k <= l
      /\ k \in 1..(l - 1) /\ text[k] \in LeadBytes => text[k + 1] # "C"
  BY <1>1, <1>t DEF Boundaries
<1>3. p + 1 <= k /\ (self.lookahead = TS_DECODE_ERROR => p + 5 <= k)
  <2>1. CASE self.lookahead = TS_DECODE_ERROR
    BY <2>1, <1>1, <1>2, <1>t DEF LookaheadEnd
  <2>2. CASE self.lookahead # TS_DECODE_ERROR
    BY <2>2, <1>1, <1>2, <1>t DEF LookaheadEnd
  <2>. QED BY <2>1, <2>2
<1> SUFFICES ASSUME NEW b \in Boundaries(text), b <= p, InRanges(b, self.ranges)
             PROVE  IF b = l THEN Len(other) = b
                    ELSE b < Len(other) /\ Decode(other, b, Len(other) - b) = Decode(text, b, l - b)
  <2>1. ~(l <= p)
    BY <1>2, <1>3, <1>t
  <2>. QED BY <2>1 DEF SameCharacters, SameText
<1>4. b \in Nat /\ b <= l
  BY <1>t, BoundaryInText
<1>5. b # l /\ b < Len(other) /\ b < l /\ p < l
  BY <1>1, <1>2, <1>3, <1>4, <1>t
<1>6. other[b + 1] = text[b + 1]
  BY <1>1, <1>2, <1>3, <1>4, <1>t
<1> HIDE DEF text, p, l
<1>7. CASE text[b + 1] \notin LeadBytes
  BY <1>5, <1>6, <1>7 DEF Decode
<1>8. CASE text[b + 1] \in LeadBytes
  <2>1. b + 2 <= k
    <3>1. CASE b # p
      BY <3>1, <1>2, <1>3, <1>4, <1>t
    <3>2. CASE b = p
      <4>1. ~ts_lexer__eof(self)
        <5>1. \E i \in 1..Len(self.ranges) : p < self.ranges[i].end.bytes
          BY <3>2, <1>t DEF InRanges
        <5>2. p < InputEnd(self)
          BY <5>1, <1>5, <1>t, InputEndBounds DEF text, p, l
        <5>3. InputEnd(self) \in Nat
          BY <1>t, InputEndBounds
        <5>. QED BY <5>2, <5>3, <1>t DEF LexerOnText, p
      <4>2. self.lookahead = Decode(text, p, l - p).lookahead
        BY <4>1 DEF Decoded, text, p, l
      <4>3. CASE l - p >= 2 /\ text[p + 2] = "C"
        <5>1. k # p + 1
          <6> SUFFICES ASSUME k = p + 1 PROVE FALSE
            OBVIOUS
          <6>1. k \in 1..(l - 1) /\ k + 1 = p + 2
            BY <4>3, <1>t
          <6>. QED BY <6>1, <1>2, <1>8, <3>2, <4>3
        <5>. QED BY <5>1, <3>2, <1>2, <1>3, <1>t
      <4>4. CASE ~(l - p >= 2 /\ text[p + 2] = "C")
        <5>1. self.lookahead = TS_DECODE_ERROR
          BY <4>2, <4>4, <1>8, <3>2 DEF Decode
        <5>. QED BY <5>1, <3>2, <1>2, <1>3, <1>t
      <4>. QED BY <4>3, <4>4
    <3>. QED BY <3>1, <3>2
  <2>2. other[b + 2] = text[b + 2] /\ l - b >= 2 /\ Len(other) - b >= 2
    BY <2>1, <1>1, <1>2, <1>4, <1>t
  <2>. QED BY <2>2, <1>5, <1>6 DEF Decode
<1>. QED BY <1>7, <1>8

-----------------------------------------------------------------------------
(* The client's steps.                                                     *)

(* A lexer that is given its first text has no chunk of it.                *)
LEMMA ReplayInvInit == Init => ReplayInv
<1> SUFFICES ASSUME Init PROVE ReplayInv
  OBVIOUS
<1>1. PICK text \in Texts : \E ranges \in RangeLists(text) :
        lexer = ts_lexer_set_included_ranges(ts_lexer_set_input(ts_lexer_init, text), ranges)
  BY DEF Init
<1>2. PICK ranges \in RangeLists(text) :
        lexer = ts_lexer_set_included_ranges(ts_lexer_set_input(ts_lexer_init, text), ranges)
  BY <1>1
<1> DEFINE given == ts_lexer_set_input(ts_lexer_init, text)
<1>3. text \in Seq(Bytes) /\ Len(text) < UINT32_MAX
  BY TextAssumption
<1>4. LexerSound(given) /\ NotDecoded(given) /\ ~HasChunk(given)
  BY <1>3, InitSound, SetInputSound
<1> HIDE DEF given
<1>5. ~HasChunk(lexer)
  BY <1>2, <1>3, <1>4, SetIncludedRangesSound DEF given
<1>6. phase = "idle" /\ calls = << >>
  BY DEF Init
<1>. QED BY <1>5, <1>6 DEF ReplayInv, LookaheadCovers

(* A call of the scanner extends the replay in every text that has the     *)
(* characters seen after it.                                               *)
LEMMA ScanStep ==
  ASSUME LexerInv, ReplayInv, NEW call \in {"advance", "skip", "mark_end", "get_column"},
         Scan(call, Apply(lexer, call)), phase' = "scanning", ~Stranded(Apply(lexer, call))
  PROVE  ReplayInv'
<1> DEFINE after == Apply(lexer, call)
           C == {"advance", "skip", "mark_end", "get_column"}
<1>1. /\ phase = "scanning" /\ phase' = "scanning" /\ calls' = Append(calls, call)
      /\ lexer' = after /\ begun' = begun
  BY DEF Scan
<1>2. /\ LexerSound(lexer) /\ Decoded(lexer) /\ LexerOnText(lexer) /\ TokenOnText(lexer)
  BY <1>1 DEF LexerInv
<1>3. /\ after.text = lexer.text /\ after.ranges = lexer.ranges
      /\ lexer.pos.bytes \in Nat /\ after.pos.bytes \in Nat
      /\ lexer.pos.bytes <= after.pos.bytes
  BY <1>2, ApplyStays
<1>4. lexer.text \in Seq(Bytes)
  BY <1>2, LexerFields DEF LexerSound, Positioned
<1>x. \A text \in Texts : text \in Seq(Bytes)
  BY TextAssumption
<1>5. calls \in Seq(C)
  BY <1>1 DEF ReplayInv
<1> HIDE DEF after, C
<1>6. calls' \in Seq(C)
  BY <1>1, <1>5, ReplayAppend DEF C
<1>7. ASSUME NEW text \in Texts,
             SameText(lexer'.text, text, lexer'.ranges, lexer'.pos.bytes)
      PROVE  LET that == ReplayFrom(ts_lexer_start([begun EXCEPT !.text = text]), calls')[Len(calls')]
             IN  that.text = text /\ Twin(lexer', that)
  <2> DEFINE first == ts_lexer_start([begun EXCEPT !.text = text])
             other == ReplayFrom(first, calls)[Len(calls)]
             that == ReplayFrom(first, calls')[Len(calls')]
  <2>1. SameText(lexer.text, text, lexer.ranges, after.pos.bytes)
    BY <1>1, <1>3, <1>7
  <2>2. SameText(lexer.text, text, lexer.ranges, lexer.pos.bytes)
    BY <2>1, <1>3, <1>4, <1>x, SameTextBefore
  <2>3. other.text = text /\ Twin(lexer, other)
    BY <1>1, <2>2 DEF ReplayInv, ReplayTo
  <2> HIDE DEF first
  <2>4. that = Apply(other, call)
    BY <1>1, <1>5, ReplayAppend DEF C
  <2> HIDE DEF other, that
  <2>5. Twin(after, Apply(other, call)) /\ Apply(other, call).text = other.text
    BY <1>2, <2>1, <2>3, ApplyTwin DEF after
  <2>. QED BY <1>1, <2>3, <2>4, <2>5 DEF that, first
<1>. QED BY <1>1, <1>6, <1>7 DEF ReplayInv, ReplayTo, LookaheadCovers, C

(* Every action keeps the invariant.                                       *)
LEMMA ReplayInvStep == LexerInv /\ ReplayInv /\ [Next]_vars => ReplayInv'
<1> SUFFICES ASSUME LexerInv, ReplayInv, [Next]_vars, phase # "stranded" PROVE ReplayInv'
  BY StrandedStops DEF vars, ReplayInv, ReplayTo, LookaheadCovers, Replay
<1>s. LexerSound(lexer)
  BY DEF LexerInv
<1>z. length_zero \in Place
  BY Widths DEF length_zero, Len3, POINT_ZERO, Point, Place
<1>x. \A text \in Texts : text \in Seq(Bytes) /\ Len(text) < UINT32_MAX
  BY TextAssumption
<1>n. phase = "scanning" => /\ LexerSound(lexer) /\ Decoded(lexer) /\ LexerOnText(lexer)
                            /\ TokenOnText(lexer) /\ \A l : LexerSound(l) => ~Stranded(l)
  BY DEF LexerInv, Stranded, LexerSound
<1>0. ASSUME phase' \in {"idle", "ready"}, ~HasChunk(lexer'), calls' = << >> PROVE ReplayInv'
  BY <1>0 DEF ReplayInv, LookaheadCovers
<1>1. CASE EndParse
  <2>1. /\ phase = "idle" /\ phase' = "idle" /\ calls' = calls
        /\ lexer' = ts_lexer_reset(lexer, length_zero)
    BY <1>1 DEF EndParse
  <2>2. NotDecoded(lexer) /\ ~HasChunk(lexer) /\ calls = << >>
    BY <2>1 DEF LexerInv, ReplayInv
  <2>3. ~HasChunk(lexer')
    BY <1>s, <1>z, <2>1, <2>2, ResetSound
  <2>. QED BY <1>0, <2>1, <2>2, <2>3
<1>2. CASE Reparse
  <2>1. phase = "idle" /\ phase' = "idle" /\ calls' = calls
    BY <1>2 DEF Reparse
  <2>2. ~HasChunk(lexer') /\ calls = << >>
    BY <1>2, <2>1, ReparseStep DEF ReplayInv
  <2>. QED BY <1>0, <2>1, <2>2
<1>3. ASSUME NEW b \in Boundaries(lexer.text), Reset(PositionOf(lexer.text, b))
      PROVE  ReplayInv'
  <2> DEFINE position == PositionOf(lexer.text, b)
  <2>1. /\ phase = "idle" /\ phase' = "ready" /\ calls' = calls
        /\ lexer' = ts_lexer_reset(lexer, position)
    BY <1>3 DEF Reset
  <2>2. NotDecoded(lexer) /\ ~HasChunk(lexer) /\ calls = << >>
    BY <2>1 DEF LexerInv, ReplayInv
  <2>3. position \in Place
    <3>1. Len(lexer.text) \in Nat /\ Len(lexer.text) < UINT32_MAX
      BY <1>s, LexerFields DEF LexerSound, Positioned, LexerTyped
    <3>2. b \in Nat /\ b \in 0..Len(lexer.text) /\ b \in 0..UINT32_MAX
      BY <3>1, Widths DEF Boundaries
    <3>. QED BY <3>2, PositionPlace
  <2> HIDE DEF position
  <2>4. ~HasChunk(lexer')
    BY <1>s, <2>1, <2>2, <2>3, ResetSound
  <2>. QED BY <1>0, <2>1, <2>2, <2>4
<1>4. CASE Start
  <2>1. /\ phase = "ready" /\ phase' = "scanning" /\ calls' = calls /\ begun' = lexer
        /\ lexer' = ts_lexer_start(lexer)
    BY <1>4 DEF Start
  <2>2. LexerOnText(lexer) /\ NotDecoded(lexer) /\ ~HasChunk(lexer) /\ calls = << >>
    BY <2>1 DEF LexerInv, ReplayInv
  <2>3. lexer'.text = lexer.text /\ lexer'.ranges = lexer.ranges
    BY <1>s, <2>1, <2>2, StartStays
  <2>4. ASSUME NEW text \in Texts,
               SameText(lexer'.text, text, lexer'.ranges, lexer'.pos.bytes)
        PROVE  LET that == ReplayFrom(ts_lexer_start([begun' EXCEPT !.text = text]), calls')[Len(calls')]
               IN  that.text = text /\ Twin(lexer', that)
    <3> DEFINE first == ts_lexer_start([lexer EXCEPT !.text = text])
               that == ReplayFrom(ts_lexer_start([begun' EXCEPT !.text = text]), calls')[Len(calls')]
    <3>1. SameCharacters(lexer.text, text, lexer.ranges, ts_lexer_start(lexer).pos.bytes)
      BY <2>1, <2>3, <2>4 DEF SameText
    <3>2. Twin(lexer', first) /\ first.text = text
      BY <1>s, <1>x, <2>1, <2>2, <3>1, StartTwin
    <3> HIDE DEF first
    <3>3. that = ReplayFrom(first, << >>)[0]
      BY <2>1, <2>2 DEF first
    <3>4. Made(first, << >>, ReplayFrom(first, << >>), 0)
      BY ReplayMakes
    <3>5. that = first
      BY <3>3, <3>4 DEF Made
    <3>. QED BY <3>2, <3>5
  <2>5. calls' \in Seq({"advance", "skip", "mark_end", "get_column"})
    BY <2>1, <2>2
  <2>. QED BY <2>1, <2>4, <2>5 DEF ReplayInv, ReplayTo, LookaheadCovers
<1>5. ASSUME NEW skip \in BOOLEAN, Advance(skip)
      PROVE  ReplayInv'
  <2> DEFINE call == IF skip THEN "skip" ELSE "advance"
  <2>1. Scan(call, ts_lexer__advance(lexer, skip)) /\ phase = "scanning" /\ phase' = "scanning"
    BY <1>5 DEF Advance, Scan
  <2>2. /\ call \in {"advance", "skip", "mark_end", "get_column"} /\ call # "get_column"
        /\ Apply(lexer, call) = ts_lexer__advance(lexer, skip)
    <3>1. CASE skip = TRUE
      BY <3>1 DEF Apply
    <3>2. CASE skip = FALSE
      BY <3>2 DEF Apply
    <3>. QED BY <3>1, <3>2
  <2> HIDE DEF call
  <2>3. Scan(call, Apply(lexer, call))
    BY <2>1, <2>2
  <2>4. ~Stranded(Apply(lexer, call))
    BY <1>n, <2>1, <2>2, AdvanceSound
  <2>. QED BY <2>1, <2>2, <2>3, <2>4, ScanStep
<1>6. CASE MarkEnd
  <2>1. Apply(lexer, "mark_end") = ts_lexer__mark_end(lexer)
    BY DEF Apply
  <2>2. /\ Scan("mark_end", Apply(lexer, "mark_end"))
        /\ phase = "scanning" /\ phase' = "scanning"
    BY <1>6, <2>1 DEF MarkEnd, Scan
  <2>3. ~Stranded(Apply(lexer, "mark_end"))
    BY <1>n, <2>1, <2>2, MarkEndSound
  <2>. QED BY <2>2, <2>3, ScanStep
<1>7. CASE GetColumn
  <2>1. Apply(lexer, "get_column") = ts_lexer__get_column(lexer).lexer
    BY DEF Apply
  <2>2. /\ Scan("get_column", Apply(lexer, "get_column"))
        /\ phase' = IF Stranded(Apply(lexer, "get_column")) THEN "stranded" ELSE "scanning"
    BY <1>7, <2>1 DEF GetColumn, Scan
  <2>3. CASE Stranded(Apply(lexer, "get_column"))
    BY <2>2, <2>3 DEF ReplayInv, LookaheadCovers
  <2>4. CASE ~Stranded(Apply(lexer, "get_column"))
    BY <2>2, <2>4, ScanStep
  <2>. QED BY <2>3, <2>4
<1>8. CASE Finish
  <2>1. /\ phase = "scanning" /\ phase' = "finished" /\ calls' = calls /\ begun' = begun
        /\ lexer' = ts_lexer_finish(lexer) /\ lookahead_end' = LookaheadEnd(lexer)
    BY <1>8 DEF Finish
  <2>2. Decoded(lexer) /\ LexerOnText(lexer)
    BY <2>1 DEF LexerInv
  <2>3. lexer'.text = lexer.text
    BY <1>s, <2>1, FinishStands
  <2>4. ASSUME NEW text \in Texts, EditedBehind(lookahead_end', lexer'.text, text)
        PROVE  LET that == ts_lexer_finish(
                             ReplayFrom(ts_lexer_start([begun EXCEPT !.text = text]), calls)[Len(calls)])
               IN  /\ that.token_start = lexer'.token_start
                   /\ that.token_end = lexer'.token_end
                   /\ that.pos = lexer'.pos
                   /\ that.lookahead = lexer'.lookahead
    <3> DEFINE other == ReplayFrom(ts_lexer_start([begun EXCEPT !.text = text]), calls)[Len(calls)]
    <3>1. EditedBehind(LookaheadEnd(lexer), lexer.text, text)
      BY <2>1, <2>3, <2>4
    <3>2. SameText(lexer.text, text, lexer.ranges, lexer.pos.bytes)
      BY <1>s, <1>x, <2>2, <3>1, EditedSame
    <3>3. other.text = text /\ Twin(lexer, other)
      BY <2>1, <3>2 DEF ReplayInv, ReplayTo
    <3> HIDE DEF other
    <3>. QED BY <1>s, <2>1, <2>2, <3>2, <3>3, FinishTwin DEF other, SameText
  <2>5. LookaheadCovers'
    BY <2>1, <2>4 DEF LookaheadCovers, Replay, ReplayTo
  <2>. QED BY <2>1, <2>5 DEF ReplayInv
<1>9. CASE UNCHANGED vars
  BY <1>9 DEF vars, ReplayInv, ReplayTo, LookaheadCovers, Replay
<1>. QED BY <1>1, <1>2, <1>3, <1>4, <1>5, <1>6, <1>7, <1>8, <1>9 DEF Next

(* What a scanner saw, and the token it found, do not change with an edit  *)
(* at or behind lookahead_end_byte, so that a later parse may reuse the    *)
(* token: for every text, list of ranges, size of chunk, sequence of calls *)
(* of the scanner and edit (ts_lexer_finish).                              *)
THEOREM LookaheadIsCovered == Spec => []LookaheadCovers
<1>1. Init => LexerInv /\ ReplayInv
  BY LexerInvInit, ReplayInvInit
<1>2. (LexerInv /\ ReplayInv) /\ [Next]_vars => (LexerInv /\ ReplayInv)'
  BY LexerInvStep, ReplayInvStep
<1>3. LexerInv /\ ReplayInv => LookaheadCovers
  BY DEF ReplayInv
<1>. QED BY <1>1, <1>2, <1>3, PTL DEF Spec
=============================================================================
