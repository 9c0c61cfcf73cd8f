------------------------------ MODULE LexerProofs ------------------------------
(***************************************************************************)
(* Proofs about the lexer and the ranges it is given, for any texts, any   *)
(* number of ranges and calls and any size of chunks: StandsOnText,        *)
(* DifferencesExact and RangesFollowEdit are invariants of LexerClient,    *)
(* and its column queries are harmless (ColumnQueryHarmless).              *)
(***************************************************************************)
EXTENDS LexerClient, RangeArraysProofs, FiniteSetTheorems, SequenceTheorems

-----------------------------------------------------------------------------
(* Rows and columns.                                                       *)

(* Every byte is in a row, and the row begins in one place.                *)
LEMMA RowStartExists ==
  ASSUME NEW text, NEW b \in Nat
  PROVE  /\ RowStart(text, b) \in 0..b
         /\ RowStart(text, b) = 0 \/ text[RowStart(text, b)] = "n"
         /\ \A i \in (RowStart(text, b) + 1)..b : text[i] # "n"
<1> DEFINE P(c, s) == /\ s = 0 \/ text[s] = "n"
                      /\ \A i \in (s + 1)..c : text[i] # "n"
           S == {c \in Nat : \E s \in 0..c : P(c, s)}
<1>1. 0 \in S
  <2>1. P(0, 0) /\ 0 \in 0..0
    OBVIOUS
  <2>. QED BY <2>1
<1>2. ASSUME NEW c \in Nat, c \in S PROVE c + 1 \in S
  <2>1. PICK s \in 0..c : P(c, s)
    BY <1>2
  <2>2. CASE text[c + 1] = "n"
    <3>1. P(c + 1, c + 1) /\ c + 1 \in 0..(c + 1)
      BY <2>2
    <3>. QED BY <3>1
  <2>3. CASE text[c + 1] # "n"
    <3>1. ASSUME NEW i \in (s + 1)..(c + 1) PROVE text[i] # "n"
      <4>1. i = c + 1 \/ i \in (s + 1)..c
        OBVIOUS
      <4>. QED BY <4>1, <2>1, <2>3
    <3>2. P(c + 1, s) /\ s \in 0..(c + 1)
      BY <2>1, <3>1
    <3>. QED BY <3>2
  <2>. QED BY <2>2, <2>3
<1>3. b \in S
  <2> HIDE DEF S
  <2>. QED BY <1>1, <1>2, NatSetInduction
<1>4. \E s \in 0..b : P(b, s)
  BY <1>3
<1>5. RowStart(text, b) = CHOOSE s \in 0..b : P(b, s)
  BY DEF RowStart
<1> HIDE DEF P
<1>6. RowStart(text, b) \in 0..b /\ P(b, RowStart(text, b))
  BY <1>4, <1>5
<1>. QED BY <1>6 DEF P

(* There is no second such place.                                          *)
LEMMA RowStartUnique ==
  ASSUME NEW text, NEW b \in Nat, NEW s \in 0..b, s = 0 \/ text[s] = "n",
         \A i \in (s + 1)..b : text[i] # "n"
  PROVE  RowStart(text, b) = s
<1> DEFINE r == RowStart(text, b)
<1>1. r \in 0..b /\ (r = 0 \/ text[r] = "n") /\ \A i \in (r + 1)..b : text[i] # "n"
  BY RowStartExists
<1> HIDE DEF r
<1>2. ~(r < s)
  <2> SUFFICES ASSUME r < s PROVE FALSE
    OBVIOUS
  <2>1. s \in (r + 1)..b /\ s # 0
    BY <1>1
  <2>. QED BY <1>1, <2>1
<1>3. ~(s < r)
  <2> SUFFICES ASSUME s < r PROVE FALSE
    OBVIOUS
  <2>1. r \in (s + 1)..b /\ r # 0
    BY <1>1
  <2>. QED BY <1>1, <2>1
<1>4. r = s
  BY <1>1, <1>2, <1>3
<1>. QED BY <1>4 DEF r

(* The newlines before a byte.                                             *)
Newlines(text, b) == {i \in 1..b : text[i] = "n"}

(* There are finitely many of them.                                        *)
LEMMA NewlinesFinite ==
  ASSUME NEW text, NEW b \in Nat
  PROVE  IsFiniteSet(Newlines(text, b)) /\ Cardinality(Newlines(text, b)) \in Nat
<1>1. IsFiniteSet(1..b) /\ Newlines(text, b) \subseteq 1..b
  BY FS_Interval DEF Newlines
<1>. QED BY <1>1, FS_Subset, FS_CardinalityType

(* A position has the row and the column of its byte.                      *)
LEMMA PositionFields ==
  ASSUME NEW text, NEW b \in Nat
  PROVE  LET p == PositionOf(text, b) IN
         /\ p = [bytes |-> b, row |-> Cardinality(Newlines(text, b)),
                 col |-> b - RowStart(text, b)]
         /\ p.bytes = b /\ p.row \in Nat /\ p.col \in Nat
<1>1. PositionOf(text, b) = [bytes |-> b, row |-> Cardinality(Newlines(text, b)),
                             col |-> b - RowStart(text, b)]
  BY DEF PositionOf, Len3, Point, Newlines
<1>2. RowStart(text, b) \in 0..b /\ Cardinality(Newlines(text, b)) \in Nat
  BY RowStartExists, NewlinesFinite
<1>. QED BY <1>1, <1>2

(* A byte that the counters hold has a place.                              *)
LEMMA PositionPlace ==
  ASSUME NEW text, NEW b \in 0..UINT32_MAX
  PROVE  PositionOf(text, b) \in Place
<1>1. b \in Nat
  BY Widths
<1>. QED BY <1>1, PositionFields DEF Place

(* One byte further, on the same row or behind a newline.                  *)
LEMMA PositionSameRow ==
  ASSUME NEW text, NEW b \in Nat, text[b + 1] # "n"
  PROVE  PositionOf(text, b + 1) = Len3(b + 1, Point(PositionOf(text, b).row,
                                                     PositionOf(text, b).col + 1))
<1> DEFINE r == RowStart(text, b)
<1>1. r \in 0..b /\ (r = 0 \/ text[r] = "n") /\ \A i \in (r + 1)..b : text[i] # "n"
  BY RowStartExists
<1>2. \A i \in (r + 1)..(b + 1) : i = b + 1 \/ i \in (r + 1)..b
  BY <1>1
<1>3. RowStart(text, b + 1) = r
  <2> HIDE DEF r
  <2>1. r \in 0..(b + 1) /\ \A i \in (r + 1)..(b + 1) : text[i] # "n"
    BY <1>1, <1>2
  <2>. QED BY <1>1, <2>1, RowStartUnique
<1>4. Newlines(text, b + 1) = Newlines(text, b)
  BY DEF Newlines
<1>5. /\ PositionOf(text, b) = [bytes |-> b, row |-> Cardinality(Newlines(text, b)),
                                col |-> b - r]
      /\ PositionOf(text, b + 1) = [bytes |-> b + 1, row |-> Cardinality(Newlines(text, b)),
                                    col |-> (b + 1) - r]
  <2>2. PositionOf(text, b + 1) = [bytes |-> b + 1, row |-> Cardinality(Newlines(text, b + 1)),
                                   col |-> (b + 1) - RowStart(text, b + 1)]
    BY DEF PositionOf, Len3, Point, Newlines
  <2>. QED BY <2>2, <1>3, <1>4, PositionFields
<1>6. (b + 1) - r = (b - r) + 1
  BY <1>1
<1> HIDE DEF r
<1>. QED BY <1>5, <1>6 DEF Len3, Point

(* Behind a newline the next row begins.                                   *)
LEMMA PositionNewRow ==
  ASSUME NEW text, NEW b \in Nat, text[b + 1] = "n"
  PROVE  PositionOf(text, b + 1) = Len3(b + 1, Point(PositionOf(text, b).row + 1, 0))
<1>1. RowStart(text, b + 1) = b + 1
  BY RowStartUnique
<1>2. Newlines(text, b + 1) = Newlines(text, b) \cup {b + 1} /\ b + 1 \notin Newlines(text, b)
  BY DEF Newlines
<1>3. Cardinality(Newlines(text, b + 1)) = Cardinality(Newlines(text, b)) + 1
  BY <1>2, NewlinesFinite, FS_AddElement
<1>4. /\ PositionOf(text, b).row = Cardinality(Newlines(text, b))
      /\ PositionOf(text, b + 1) = [bytes |-> b + 1, row |-> Cardinality(Newlines(text, b)) + 1,
                                    col |-> (b + 1) - (b + 1)]
  BY <1>1, <1>3, PositionFields
<1>5. (b + 1) - (b + 1) = 0
  OBVIOUS
<1>. QED BY <1>4, <1>5 DEF Len3, Point
-----------------------------------------------------------------------------
(* Decoding.                                                               *)

(* The text has the bytes that are asked for; a character is one or two    *)
(* bytes of it, and passing it leads to the position of what follows.      *)
LEMMA DecodeInText ==
  ASSUME NEW text \in Seq(Bytes), NEW b \in 0..(Len(text) - 1)
  PROVE  LET seen == Decode(text, b, Len(text) - b) IN
         /\ seen.lookahead \in Characters
         /\ seen.size \in {1, 2} /\ b + seen.size <= Len(text)
         /\ PositionOf(text, b + seen.size) =
              length_add(PositionOf(text, b),
                         IF seen.lookahead = "n" THEN Len3(seen.size, Point(1, 0))
                         ELSE Len3(seen.size, Point(0, seen.size)))
<1> DEFINE seen == Decode(text, b, Len(text) - b)
           byte == text[b + 1]
<1>1. Len(text) \in Nat /\ b \in Nat /\ b + 1 \in 1..Len(text) /\ byte \in Bytes
  OBVIOUS
<1>2. PositionOf(text, b) = [bytes |-> b, row |-> PositionOf(text, b).row,
                             col |-> PositionOf(text, b).col]
      /\ PositionOf(text, b).row \in Nat /\ PositionOf(text, b).col \in Nat
      /\ PositionOf(text, b).bytes = b
  BY <1>1, PositionFields
<1>3. CASE byte \in LeadBytes /\ Len(text) - b >= 2 /\ text[b + 2] = "C"
  <2>1. seen = [lookahead |-> byte, size |-> 2]
    BY <1>3 DEF Decode
  <2>2. byte # "n" /\ text[b + 2] # "n"
    BY <1>3 DEF LeadBytes
  <2>3. (b + 1) + 1 = b + 2
    OBVIOUS
  <2>4. PositionOf(text, b + 1) = Len3(b + 1, Point(PositionOf(text, b).row,
                                                    PositionOf(text, b).col + 1))
    BY <1>1, <2>2, PositionSameRow
  <2>5. PositionOf(text, b + 2) = Len3(b + 2, Point(PositionOf(text, b + 1).row,
                                                    PositionOf(text, b + 1).col + 1))
    BY <1>1, <2>2, <2>3, PositionSameRow
  <2>6. PositionOf(text, b + 2) = Len3(b + 2, Point(PositionOf(text, b).row,
                                                    PositionOf(text, b).col + 2))
    BY <2>4, <2>5, <1>2 DEF Len3, Point
  <2>7. length_add(PositionOf(text, b), Len3(2, Point(0, 2)))
          = Len3(b + 2, Point(PositionOf(text, b).row, PositionOf(text, b).col + 2))
    BY <1>2 DEF length_add, Len3, Point, point_add, Extent
  <2>. QED BY <1>1, <1>3, <2>1, <2>2, <2>6, <2>7 DEF Characters
<1>4. CASE ~(byte \in LeadBytes /\ Len(text) - b >= 2 /\ text[b + 2] = "C")
  <2>1. seen = [lookahead |-> IF byte \in LeadBytes \cup {"C"} THEN TS_DECODE_ERROR ELSE byte,
                size |-> 1]
    BY <1>4 DEF Decode
  <2>2. seen.size = 1 /\ seen.lookahead \in Characters /\ (seen.lookahead = "n" <=> byte = "n")
    <3>1. CASE byte \in LeadBytes \cup {"C"}
      <4>1. seen = [lookahead |-> TS_DECODE_ERROR, size |-> 1]
        BY <2>1, <3>1
      <4>2. byte # "n"
        BY <3>1 DEF LeadBytes
      <4> HIDE DEF seen
      <4>3. seen.size = 1 /\ seen.lookahead = TS_DECODE_ERROR
        BY <4>1
      <4>4. TS_DECODE_ERROR \in Characters /\ TS_DECODE_ERROR # "n"
        BY DEF TS_DECODE_ERROR, Characters
      <4>. QED BY <4>2, <4>3, <4>4
    <3>2. CASE byte \notin LeadBytes \cup {"C"}
      BY <2>1, <3>2, <1>1 DEF Characters
    <3>. QED BY <3>1, <3>2
  <2> HIDE DEF seen
  <2>3. CASE byte = "n"
    <3>1. PositionOf(text, b + 1) = Len3(b + 1, Point(PositionOf(text, b).row + 1, 0))
      BY <1>1, <2>3, PositionNewRow
    <3>2. length_add(PositionOf(text, b), Len3(1, Point(1, 0)))
            = Len3(b + 1, Point(PositionOf(text, b).row + 1, 0))
      BY <1>2 DEF length_add, Len3, Point, point_add, Extent
    <3>. QED BY <1>1, <2>2, <2>3, <3>1, <3>2 DEF seen
  <2>4. CASE byte # "n"
    <3>1. PositionOf(text, b + 1) = Len3(b + 1, Point(PositionOf(text, b).row,
                                                      PositionOf(text, b).col + 1))
      BY <1>1, <2>4, PositionSameRow
    <3>2. length_add(PositionOf(text, b), Len3(1, Point(0, 1)))
            = Len3(b + 1, Point(PositionOf(text, b).row, PositionOf(text, b).col + 1))
      BY <1>2 DEF length_add, Len3, Point, point_add, Extent
    <3>. QED BY <1>1, <2>2, <2>4, <3>1, <3>2 DEF seen
  <2>. QED BY <2>3, <2>4
<1>. QED BY <1>3, <1>4

(* A chunk that cuts a character off shows: fewer bytes than two give an   *)
(* error where more of the text may give the character.                    *)
LEMMA DecodeCut ==
  ASSUME NEW text \in Seq(Bytes), NEW b \in 0..(Len(text) - 1), NEW n \in 1..(Len(text) - b),
         n >= 2 \/ n = Len(text) - b \/ Decode(text, b, n).lookahead # TS_DECODE_ERROR
  PROVE  Decode(text, b, n) = Decode(text, b, Len(text) - b)
<1>1. Len(text) \in Nat /\ Len(text) - b \in Nat
  OBVIOUS
<1>. QED BY <1>1 DEF Decode, TS_DECODE_ERROR, LeadBytes
(* Boundaries are places of the text; it begins and ends with one, and     *)
(* behind a newline there is one.                                          *)
LEMMA BoundaryInText ==
  ASSUME NEW text \in Seq(Bytes)
  PROVE  /\ \A b \in Boundaries(text) : b \in Nat /\ b \in 0..Len(text)
         /\ 0 \in Boundaries(text) /\ Len(text) \in Boundaries(text)
         /\ \A b \in 1..Len(text) : text[b] = "n" => b \in Boundaries(text)
<1>1. Len(text) \in Nat
  OBVIOUS
<1>. QED BY <1>1 DEF Boundaries, LeadBytes

(* A place on a text is one of its boundaries.                             *)
LEMMA OnTextByte ==
  ASSUME NEW text \in Seq(Bytes), NEW place, OnText(text, place)
  PROVE  /\ place.bytes \in Nat /\ place.bytes \in 0..Len(text)
         /\ place.bytes \in Boundaries(text) /\ place = PositionOf(text, place.bytes)
BY BoundaryInText DEF OnText

(* Behind a character is a boundary, and none is inside of it.             *)
LEMMA CharacterEnds ==
  ASSUME NEW text \in Seq(Bytes), NEW b \in 0..(Len(text) - 1)
  PROVE  LET seen == Decode(text, b, Len(text) - b) IN
         /\ b + seen.size \in Boundaries(text)
         /\ \A c \in Boundaries(text) : ~(b < c /\ c < b + seen.size)
<1> DEFINE seen == Decode(text, b, Len(text) - b)
<1>1. Len(text) \in Nat /\ b \in Nat /\ b + 1 <= Len(text)
  OBVIOUS
<1>2. CASE text[b + 1] \in LeadBytes /\ Len(text) - b >= 2 /\ text[b + 2] = "C"
  <2>1. seen.size = 2
    BY <1>2 DEF Decode
  <2>2. b + 2 \in Boundaries(text)
    BY <1>1, <1>2 DEF Boundaries, LeadBytes
  <2>3. b + 1 \notin Boundaries(text)
    <3>1. b + 1 \in 1..(Len(text) - 1) /\ (b + 1) + 1 = b + 2
      BY <1>1, <1>2
    <3>. QED BY <1>2, <3>1 DEF Boundaries
  <2>4. ASSUME NEW c \in Boundaries(text), b < c, c < b + 2 PROVE FALSE
    <3>1. c \in Nat
      BY BoundaryInText
    <3>2. c = b + 1
      BY <1>1, <2>4, <3>1
    <3>. QED BY <2>3, <2>4, <3>2
  <2> HIDE DEF seen
  <2>. QED BY <2>1, <2>2, <2>4 DEF seen
<1>3. CASE ~(text[b + 1] \in LeadBytes /\ Len(text) - b >= 2 /\ text[b + 2] = "C")
  <2>1. seen.size = 1
    BY <1>3 DEF Decode
  <2>2. b + 1 \in Boundaries(text)
    <3>1. b + 1 \in 0..Len(text) /\ (b + 1) + 1 = b + 2
      BY <1>1
    <3>2. b + 1 \in 1..(Len(text) - 1) => Len(text) - b >= 2
      BY <1>1
    <3>. QED BY <1>3, <3>1, <3>2 DEF Boundaries
  <2>3. \A c \in Boundaries(text) : ~(b < c /\ c < b + 1)
    BY <1>1, BoundaryInText
  <2> HIDE DEF seen
  <2>. QED BY <2>1, <2>2, <2>3 DEF seen
<1>. QED BY <1>2, <1>3

-----------------------------------------------------------------------------
(* The functions of the lexer.                                             *)

(* The fields of a lexer.                                                  *)
LEMMA LexerFields ==
  ASSUME NEW self, LexerTyped(self)
  PROVE  /\ self.text \in Seq(Bytes) /\ Len(self.text) \in Nat
         /\ self.pos \in Place /\ self.pos.bytes \in Nat /\ self.pos.bytes <= UINT32_MAX
         /\ self.chunk_start \in Nat /\ self.chunk_size \in Nat
         /\ self.range_index \in Nat
         /\ self.ranges \in Seq(Span) /\ Len(self.ranges) \in Nat /\ Len(self.ranges) >= 1
         /\ DOMAIN self.ranges = 1..Len(self.ranges)
         /\ \A i \in 1..Len(self.ranges) :
              /\ self.ranges[i].start \in Place /\ self.ranges[i].end \in Place
              /\ self.ranges[i].start.bytes \in Nat /\ self.ranges[i].end.bytes \in Nat
              /\ self.ranges[i].start.bytes <= self.ranges[i].end.bytes
<1>1. /\ self.text \in Seq(Bytes) /\ Len(self.text) \in Nat
      /\ self.chunk_start \in Nat /\ self.chunk_size \in Nat /\ self.range_index \in Nat
      /\ self.pos \in Place /\ self.ranges \in Seq(Span) /\ self.ranges # << >>
  BY DEF LexerTyped, LexerRecord
<1>2. self.pos.bytes \in Nat /\ self.pos.bytes <= UINT32_MAX
  BY <1>1, PlaceBytes
<1>3. /\ Len(self.ranges) \in Nat /\ Len(self.ranges) >= 1
      /\ DOMAIN self.ranges = 1..Len(self.ranges)
  BY <1>1
<1>4. \A i \in 1..Len(self.ranges) :
        /\ self.ranges[i].start \in Place /\ self.ranges[i].end \in Place
        /\ self.ranges[i].start.bytes \in Nat /\ self.ranges[i].end.bytes \in Nat
  <2>1. \A i \in 1..Len(self.ranges) : self.ranges[i].start \in Place /\ self.ranges[i].end \in Place
    BY <1>1, <1>3, SpanBytes DEF Span
  <2>. QED BY <2>1, PlaceBytes
<1>5. \A i \in 1..Len(self.ranges) : self.ranges[i].start.bytes <= self.ranges[i].end.bytes
  BY <1>3 DEF LexerTyped, ProperRanges, RangesValid
<1>. QED BY <1>1, <1>2, <1>3, <1>4, <1>5

(* A text begins at the zero length.                                       *)
LEMMA TextStart == \A text : PositionOf(text, 0) = length_zero
<1> SUFFICES ASSUME NEW text PROVE PositionOf(text, 0) = length_zero
  OBVIOUS
<1>1. RowStart(text, 0) = 0
  BY RowStartExists
<1>2. Newlines(text, 0) = {}
  BY DEF Newlines
<1>3. Cardinality(Newlines(text, 0)) = 0
  BY <1>2, FS_EmptySet
<1>. QED BY <1>1, <1>3 DEF PositionOf, Newlines, length_zero, POINT_ZERO, Len3, Point

(* The ranges of a text begin on it; so do they end, unless they are the   *)
(* default.                                                                *)
LEMMA RangePlaces ==
  ASSUME NEW text \in Seq(Bytes), NEW ranges, RangesOnText(text, ranges),
         NEW i \in DOMAIN ranges
  PROVE  /\ OnText(text, ranges[i].start)
         /\ OnText(text, ranges[i].end) \/ (ranges = << DEFAULT_RANGE >> /\ ranges[i].end = LENGTH_MAX)
<1>1. CASE ranges = << DEFAULT_RANGE >>
  <2>1. ranges[i] = DEFAULT_RANGE
    BY <1>1
  <2>2. ranges[i].start = length_zero /\ ranges[i].end = LENGTH_MAX
    BY <2>1 DEF DEFAULT_RANGE, IncludedRange
  <2>3. length_zero.bytes = 0 /\ Len(text) \in Nat
    BY DEF length_zero, Len3
  <2>. QED BY <1>1, <2>2, <2>3, TextStart, BoundaryInText DEF OnText
<1>2. CASE ranges # << DEFAULT_RANGE >>
  BY <1>2 DEF RangesOnText
<1>. QED BY <1>1, <1>2

(* The updates of single fields that the functions are made of; each       *)
(* leaves the other fields as they are.                                    *)
Moved(self, p, i) == [self EXCEPT !.pos = p, !.range_index = i]
Chunked(self, m, n, i) == [self EXCEPT !.chunk_start = m, !.chunk_size = n, !.range_index = i]
Tokened(self, p, q, got) ==
  [self EXCEPT !.token_start = p, !.token_end = q, !.did_get_column = got]
Passed(self, p, i, t) == [self EXCEPT !.pos = p, !.range_index = i, !.token_start = t]
WithRanges(self, ranges) == [self EXCEPT !.ranges = ranges]
WithText(self, text) == [self EXCEPT !.text = text]

(* The list of ranges is replaced, and nothing else.                       *)
LEMMA SetRanges ==
  ASSUME NEW self \in LexerRecord, NEW ranges \in Seq(Span)
  PROVE  LET t == WithRanges(self, ranges) IN
         /\ t \in LexerRecord /\ t.ranges = ranges
         /\ t.text = self.text /\ t.pos = self.pos
         /\ t.chunk_start = self.chunk_start /\ t.chunk_size = self.chunk_size
BY DEF LexerRecord, WithRanges

(* The text is replaced.                                                   *)
LEMMA SetText ==
  ASSUME NEW self \in LexerRecord, NEW text \in Seq(Bytes)
  PROVE  LET t == WithText(self, text) IN
         /\ t \in LexerRecord /\ t.text = text
         /\ t.ranges = self.ranges /\ t.pos = self.pos
BY DEF LexerRecord, WithText

(* A character is passed: the position, the range and the token's start.   *)
LEMMA SetPassed ==
  ASSUME NEW self \in LexerRecord, NEW p \in Place, NEW i, i \in Nat, NEW q \in Place
  PROVE  LET t == Passed(self, p, i, q) IN
         /\ t \in LexerRecord /\ t.pos = p /\ t.range_index = i /\ t.token_start = q
         /\ t.text = self.text /\ t.ranges = self.ranges /\ t.token_end = self.token_end
         /\ t.chunk_start = self.chunk_start /\ t.chunk_size = self.chunk_size
BY DEF LexerRecord, Passed

(* The position and the range it is in are set.                            *)
LEMMA SetPlace ==
  ASSUME NEW self \in LexerRecord, NEW p \in Place, NEW i \in Nat
  PROVE  LET t == Moved(self, p, i) IN
         /\ t \in LexerRecord /\ t.pos = p /\ t.range_index = i
         /\ t.text = self.text /\ t.ranges = self.ranges
         /\ t.token_start = self.token_start /\ t.token_end = self.token_end
         /\ t.chunk_start = self.chunk_start /\ t.chunk_size = self.chunk_size
BY DEF LexerRecord, Moved

(* The lookahead character is set.                                         *)
LEMMA SetCharacter ==
  ASSUME NEW self \in LexerRecord, NEW c \in Characters, NEW n \in Nat
  PROVE  LET t == SetLookahead(self, c, n) IN
         /\ t \in LexerRecord /\ t.lookahead = c /\ t.lookahead_size = n
         /\ t.text = self.text /\ t.ranges = self.ranges
         /\ t.token_start = self.token_start /\ t.token_end = self.token_end
         /\ t.chunk_start = self.chunk_start /\ t.chunk_size = self.chunk_size
         /\ t.pos = self.pos /\ t.range_index = self.range_index
BY DEF LexerRecord, SetLookahead

(* The chunk is dropped.                                                   *)
LEMMA SetNoChunk ==
  ASSUME NEW self \in LexerRecord
  PROVE  LET t == ts_lexer__clear_chunk(self) IN
         /\ t \in LexerRecord /\ t.chunk_size = 0
         /\ t.text = self.text /\ t.ranges = self.ranges
         /\ t.token_start = self.token_start /\ t.token_end = self.token_end
         /\ t.lookahead = self.lookahead /\ t.lookahead_size = self.lookahead_size
         /\ t.pos = self.pos /\ t.range_index = self.range_index
BY DEF LexerRecord, ts_lexer__clear_chunk

(* A chunk is read; at the end of the text the last range is passed.       *)
LEMMA SetChunk ==
  ASSUME NEW self \in LexerRecord, NEW m, m \in Nat, NEW n, n \in Nat, NEW i, i \in Nat
  PROVE  LET t == Chunked(self, m, n, i) IN
         /\ t \in LexerRecord
         /\ t.chunk_start = m /\ t.chunk_size = n /\ t.range_index = i
         /\ t.text = self.text /\ t.ranges = self.ranges /\ t.pos = self.pos
         /\ t.token_start = self.token_start /\ t.token_end = self.token_end
         /\ t.lookahead = self.lookahead /\ t.lookahead_size = self.lookahead_size
BY DEF LexerRecord, Chunked

(* The ends of the token and the column flag are set.                      *)
LEMMA SetToken ==
  ASSUME NEW self \in LexerRecord, NEW p \in Place, NEW q \in Place, NEW got \in BOOLEAN
  PROVE  LET t == Tokened(self, p, q, got) IN
         /\ t \in LexerRecord /\ t.token_start = p /\ t.token_end = q
         /\ t.text = self.text /\ t.ranges = self.ranges
         /\ t.chunk_start = self.chunk_start /\ t.chunk_size = self.chunk_size
         /\ t.pos = self.pos /\ t.range_index = self.range_index
         /\ t.lookahead = self.lookahead /\ t.lookahead_size = self.lookahead_size
BY DEF LexerRecord, Tokened

(* No included range reaches over the end of the last one, so that a byte  *)
(* in an included range is before the end of the input.                    *)
LEMMA InputEndBounds ==
  ASSUME NEW self, LexerTyped(self), NEW b, b \in Nat
  PROVE  LET n == Len(self.ranges) IN
         /\ Last(self.ranges) = self.ranges[n] /\ n \in 1..n /\ InputEnd(self) \in Nat
         /\ \A k \in 1..n : self.ranges[k].end.bytes <= self.ranges[n].end.bytes
         /\ InputEnd(self) <= Len(self.text)
         /\ \A k \in 1..n : b < self.ranges[k].end.bytes =>
               /\ b <= Len(self.text) => b <= InputEnd(self)
               /\ b < Len(self.text) => b < InputEnd(self)
               /\ b = Len(self.text) => InputEnd(self) = b
         /\ b = self.ranges[n].end.bytes /\ b <= Len(self.text) => InputEnd(self) = b
<1> DEFINE n == Len(self.ranges)
<1>t. /\ Len(self.text) \in Nat /\ n \in Nat /\ n >= 1 /\ DOMAIN self.ranges = 1..n
      /\ self.ranges \in Seq(Span)
      /\ \A i \in 1..n : /\ self.ranges[i].start.bytes \in Nat /\ self.ranges[i].end.bytes \in Nat
                         /\ self.ranges[i].start.bytes <= self.ranges[i].end.bytes
  BY LexerFields
<1>1. Last(self.ranges) = self.ranges[n] /\ n \in 1..n
  BY <1>t DEF Last
<1>2. ASSUME NEW k \in 1..n PROVE self.ranges[k].end.bytes <= self.ranges[n].end.bytes
  <2>1. CASE k = n
    BY <2>1, <1>1, <1>t
  <2>2. CASE k # n
    <3>1. k < n /\ k \in DOMAIN self.ranges /\ n \in DOMAIN self.ranges
      BY <2>2, <1>1, <1>t
    <3>2. self.ranges[k].end.bytes <= self.ranges[n].start.bytes
      BY <3>1, <1>t, RangesOrdered DEF LexerTyped, ProperRanges
    <3>. QED BY <3>2, <1>1, <1>t
  <2>. QED BY <2>1, <2>2
<1>3. InputEnd(self) = IF self.ranges[n].end.bytes < Len(self.text) THEN self.ranges[n].end.bytes
                       ELSE Len(self.text)
  BY <1>1 DEF InputEnd
<1> DEFINE end == self.ranges[n].end.bytes
<1>4. end \in Nat /\ \A k \in 1..n : self.ranges[k].end.bytes <= end
  BY <1>1, <1>2, <1>t
<1>. QED BY <1>1, <1>3, <1>4, <1>t

(* Where ts_lexer_goto goes depends on the ranges and the position only.   *)
GotoRange(ranges, position) ==
  LET after == {i \in DOMAIN ranges : /\ ranges[i].end.bytes > position.bytes
                                      /\ ranges[i].end.bytes > ranges[i].start.bytes}
  IN  IF after = {} THEN Len(ranges) + 1 ELSE CHOOSE j \in after : \A k \in after : j <= k
GotoPlace(ranges, position) ==
  LET i == GotoRange(ranges, position)
  IN  IF i = Len(ranges) + 1 THEN Last(ranges).end
      ELSE IF ranges[i].start.bytes >= position.bytes THEN ranges[i].start ELSE position

(* ts_lexer_goto stands in an included range or at the end, passes over no *)
(* byte that is included, and keeps a chunk only if it holds the position. *)
LEMMA GotoSound ==
  ASSUME NEW self, LexerTyped(self), HasChunk(self) => ChunkInText(self),
         NEW position \in Place
  PROVE  LET there == ts_lexer_goto(self, position) IN
         /\ LexerSound(there) /\ NotDecoded(there) /\ there.lookahead = NUL
         /\ ts_lexer__eof(there) <=>
              ~\E i \in DOMAIN self.ranges :
                  /\ self.ranges[i].end.bytes > position.bytes
                  /\ self.ranges[i].end.bytes > self.ranges[i].start.bytes
         /\ there.text = self.text /\ there.ranges = self.ranges
         /\ there.token_start = self.token_start /\ there.token_end = self.token_end
         /\ RangesOnText(self.text, self.ranges) /\ OnText(self.text, position)
              => LexerOnText(there)
         /\ ~ts_lexer__eof(there) => position.bytes <= there.pos.bytes
         /\ \A b \in Nat : position.bytes <= b /\ b < there.pos.bytes => ~InRanges(b, self.ranges)
         /\ there.range_index = GotoRange(self.ranges, position)
         /\ there.pos = GotoPlace(self.ranges, position)
         /\ HasChunk(there) => HasChunk(self)
<1> DEFINE n == Len(self.ranges)
           after == {i \in DOMAIN self.ranges :
                       /\ self.ranges[i].end.bytes > position.bytes
                       /\ self.ranges[i].end.bytes > self.ranges[i].start.bytes}
           there == ts_lexer_goto(self, position)
<1>t. /\ self.text \in Seq(Bytes) /\ Len(self.text) \in Nat
      /\ self.chunk_start \in Nat /\ self.chunk_size \in Nat
      /\ n \in Nat /\ n >= 1 /\ DOMAIN self.ranges = 1..n
      /\ \A i \in 1..n : /\ self.ranges[i].start \in Place /\ self.ranges[i].end \in Place
                         /\ self.ranges[i].start.bytes \in Nat /\ self.ranges[i].end.bytes \in Nat
                         /\ self.ranges[i].start.bytes <= self.ranges[i].end.bytes
  BY LexerFields
<1>o. \A i, j \in DOMAIN self.ranges : i < j => self.ranges[i].end.bytes <= self.ranges[j].start.bytes
  BY RangesOrdered DEF LexerTyped, ProperRanges
<1>p. position.bytes \in Nat /\ position.bytes <= UINT32_MAX
  BY PlaceBytes
<1>1. CASE after = {}
  <2> DEFINE ended == [self EXCEPT !.pos = Last(self.ranges).end, !.range_index = n + 1]
             clear == ts_lexer__clear_chunk(ended)
  <2>1. there = SetLookahead(clear, NUL, 1)
    BY <1>1 DEF ts_lexer_goto
  <2>2. Last(self.ranges) = self.ranges[n] /\ n \in 1..n
    BY <1>t DEF Last
  <2>3. NUL \in Characters
    BY DEF Characters
  <2>a. /\ ended \in LexerRecord /\ ended.text = self.text /\ ended.ranges = self.ranges
        /\ ended.token_start = self.token_start /\ ended.token_end = self.token_end
        /\ ended.range_index = n + 1 /\ ended.pos = self.ranges[n].end
    <3>1. self.ranges[n].end \in Place /\ n + 1 \in Nat
      BY <2>2, <1>t
    <3>2. self \in LexerRecord
      BY DEF LexerTyped
    <3>3. ended = Moved(self, self.ranges[n].end, n + 1)
      BY <2>2 DEF Moved
    <3> HIDE DEF ended
    <3>. QED BY <3>1, <3>2, <3>3, SetPlace
  <2> HIDE DEF ended
  <2>b. /\ clear \in LexerRecord /\ clear.text = self.text /\ clear.ranges = self.ranges
        /\ clear.token_start = self.token_start /\ clear.token_end = self.token_end
        /\ clear.range_index = n + 1 /\ clear.pos = self.ranges[n].end /\ clear.chunk_size = 0
    BY <2>a, SetNoChunk
  <2> HIDE DEF clear
  <2>4. /\ there \in LexerRecord
        /\ there.text = self.text /\ there.ranges = self.ranges
        /\ there.token_start = self.token_start /\ there.token_end = self.token_end
        /\ there.range_index = n + 1 /\ there.pos = self.ranges[n].end
        /\ there.chunk_size = 0 /\ there.lookahead = NUL
    <3> HIDE DEF there
    <3>. QED BY <2>1, <2>b, <2>3, SetCharacter
  <2> HIDE DEF there
  <2>5. ts_lexer__eof(there) /\ ~HasChunk(there)
    BY <2>4 DEF ts_lexer__eof, HasChunk
  <2>6. LexerSound(there) /\ NotDecoded(there)
    BY <2>4, <2>5, <1>t DEF LexerSound, Positioned, LexerTyped, NotDecoded
  <2>7. ASSUME RangesOnText(self.text, self.ranges), OnText(self.text, position)
        PROVE  LexerOnText(there)
    <3>1. self.ranges # << DEFAULT_RANGE >>
      <4> SUFFICES ASSUME self.ranges = << DEFAULT_RANGE >> PROVE FALSE
        OBVIOUS
      <4>1. /\ 1 \in DOMAIN self.ranges
            /\ self.ranges[1].start.bytes = 0 /\ self.ranges[1].end.bytes = UINT32_MAX
        BY <1>t DEF DEFAULT_RANGE, IncludedRange, length_zero, LENGTH_MAX, Len3
      <4>2. position.bytes < UINT32_MAX
        <5>1. position.bytes \in 0..Len(self.text)
          BY <2>7, <1>t, OnTextByte
        <5>. QED BY <5>1, <1>t, <1>p, Widths DEF LexerTyped
      <4>3. 1 \in after
        BY <4>1, <4>2, Widths
      <4>. QED BY <1>1, <4>3
    <3>2. OnText(self.text, self.ranges[n].end)
      BY <2>2, <2>7, <3>1, <1>t, RangePlaces
    <3>3. there.pos.bytes = InputEnd(there)
      <4>1. LexerTyped(there) /\ there.pos.bytes \in Nat
        BY <2>6, LexerFields DEF LexerSound, Positioned
      <4>2. there.pos.bytes = there.ranges[n].end.bytes /\ there.pos.bytes <= Len(there.text)
        BY <2>4, <3>2, <1>t, OnTextByte
      <4>. QED BY <4>1, <4>2, <2>4, InputEndBounds
    <3>. QED BY <2>4, <2>7, <3>2, <3>3 DEF LexerOnText
  <2>8. ASSUME NEW b \in Nat, position.bytes <= b, InRanges(b, self.ranges) PROVE FALSE
    <3>1. PICK k \in DOMAIN self.ranges : self.ranges[k].start.bytes <= b /\ b < self.ranges[k].end.bytes
      BY <2>8 DEF InRanges
    <3>2. k \in after
      BY <3>1, <2>8, <1>t, <1>p
    <3>. QED BY <3>2, <1>1
  <2> HIDE DEF after
  <2>9. ~\E k \in DOMAIN self.ranges : /\ self.ranges[k].end.bytes > position.bytes
                                      /\ self.ranges[k].end.bytes > self.ranges[k].start.bytes
    BY <1>1 DEF after
  <2>10. /\ GotoRange(self.ranges, position) = n + 1
         /\ GotoPlace(self.ranges, position) = self.ranges[n].end
    <3>1. GotoRange(self.ranges, position) = n + 1
      BY <1>1 DEF after, GotoRange
    <3>. QED BY <2>2, <3>1 DEF GotoPlace
  <2>. QED BY <2>10, <2>9, <2>4, <2>5, <2>6, <2>7, <2>8 DEF there
<1>2. CASE after # {}
  <2> DEFINE i == CHOOSE j \in after : \A k \in after : j <= k
             start == self.ranges[i].start
             pos == IF start.bytes >= position.bytes THEN start ELSE position
             moved == [self EXCEPT !.pos = pos, !.range_index = i]
  <2>1. i \in after /\ \A k \in after : i <= k
    <3>1. after \subseteq Nat
      BY <1>t
    <3>2. \E j \in after : \A k \in after : j <= k
      <4> HIDE DEF after
      <4>. QED BY <1>2, <3>1, NatMin
    <3> HIDE DEF after
    <3>. QED BY <3>2
  <2>f. ASSUME NEW b \in Nat, position.bytes <= b, b < self.ranges[i].start.bytes,
               InRanges(b, self.ranges)
        PROVE  FALSE
    <3>1. PICK k \in DOMAIN self.ranges : self.ranges[k].start.bytes <= b /\ b < self.ranges[k].end.bytes
      BY <2>f DEF InRanges
    <3>2. k \in after
      BY <3>1, <2>f, <1>t, <1>p
    <3>3. i \in DOMAIN self.ranges /\ i <= k
      <4> HIDE DEF i
      <4>. QED BY <2>1, <3>2
    <3> HIDE DEF i, after
    <3>4. k # i
      BY <3>1, <3>3, <2>f, <1>t
    <3>5. self.ranges[i].end.bytes <= self.ranges[k].start.bytes
      BY <3>3, <3>4, <1>o, <1>t
    <3>. QED BY <3>1, <3>3, <3>5, <2>f, <1>t
  <2>2. /\ i \in 1..n /\ self.ranges[i].end.bytes > position.bytes
        /\ self.ranges[i].end.bytes > self.ranges[i].start.bytes
    <3> HIDE DEF i
    <3>. QED BY <2>1, <1>t
  <2>3. there = SetLookahead(IF InChunk(moved) THEN moved ELSE ts_lexer__clear_chunk(moved), NUL, 0)
    BY <1>2 DEF ts_lexer_goto
  <2>h. GotoRange(self.ranges, position) = i
    BY <1>2 DEF GotoRange
  <2> HIDE DEF after, i
  <2>p. GotoPlace(self.ranges, position) = pos
    BY <2>h, <2>2, <1>t DEF GotoPlace
  <2>4. pos \in Place /\ start.bytes <= pos.bytes /\ pos.bytes < self.ranges[i].end.bytes
        /\ pos.bytes \in Nat /\ position.bytes <= pos.bytes
    BY <2>2, <1>t, <1>p
  <2>g. \A b \in Nat : position.bytes <= b /\ b < pos.bytes => ~InRanges(b, self.ranges)
    BY <2>f, <2>2, <1>t, <1>p
  <2> HIDE DEF pos
  <2>5. /\ moved \in LexerRecord /\ moved.text = self.text /\ moved.ranges = self.ranges
        /\ moved.token_start = self.token_start /\ moved.token_end = self.token_end
        /\ moved.range_index = i /\ moved.pos = pos
        /\ moved.chunk_start = self.chunk_start /\ moved.chunk_size = self.chunk_size
    <3>1. self \in LexerRecord /\ i \in Nat
      BY <2>2, <1>t DEF LexerTyped
    <3>2. moved = Moved(self, pos, i)
      BY DEF Moved
    <3> HIDE DEF moved
    <3>. QED BY <2>4, <3>1, <3>2, SetPlace
  <2> HIDE DEF moved
  <2>6. /\ there \in LexerRecord
        /\ there.text = self.text /\ there.ranges = self.ranges
        /\ there.token_start = self.token_start /\ there.token_end = self.token_end
        /\ there.range_index = i /\ there.pos = pos
        /\ there.lookahead_size = 0 /\ there.lookahead = NUL
        /\ \/ there.chunk_size = 0
           \/ /\ there.chunk_size = self.chunk_size /\ there.chunk_start = self.chunk_start
              /\ InChunk(moved)
    <3>1. NUL \in Characters
      BY DEF Characters
    <3> HIDE DEF there
    <3>2. CASE InChunk(moved)
      <4>1. there = SetLookahead(moved, NUL, 0)
        BY <2>3, <3>2
      <4>. QED BY <3>1, <3>2, <4>1, <2>5, SetCharacter
    <3>3. CASE ~InChunk(moved)
      <4> DEFINE clear == ts_lexer__clear_chunk(moved)
      <4>1. there = SetLookahead(clear, NUL, 0)
        BY <2>3, <3>3
      <4>2. /\ clear \in LexerRecord /\ clear.text = self.text /\ clear.ranges = self.ranges
            /\ clear.token_start = self.token_start /\ clear.token_end = self.token_end
            /\ clear.range_index = i /\ clear.pos = pos /\ clear.chunk_size = 0
        BY <2>5, SetNoChunk
      <4> HIDE DEF clear
      <4>. QED BY <3>1, <4>1, <4>2, SetCharacter
    <3>. QED BY <3>2, <3>3
  <2> HIDE DEF there
  <2>7. ~ts_lexer__eof(there)
    BY <2>2, <2>6, <1>t DEF ts_lexer__eof
  <2>8. Positioned(there) /\ NotDecoded(there)
    BY <2>2, <2>4, <2>6, <2>7, <1>t DEF Positioned, LexerTyped, NotDecoded
  <2>9. HasChunk(there) => InChunk(there) /\ ChunkInText(there)
    <3> SUFFICES ASSUME HasChunk(there) PROVE InChunk(there) /\ ChunkInText(there)
      OBVIOUS
    <3>1. /\ there.chunk_size = self.chunk_size /\ there.chunk_start = self.chunk_start
          /\ InChunk(moved) /\ HasChunk(self)
      BY <2>6 DEF HasChunk
    <3>. QED BY <3>1, <2>5, <2>6 DEF InChunk, ChunkInText
  <2>10. ASSUME RangesOnText(self.text, self.ranges), OnText(self.text, position)
         PROVE  LexerOnText(there)
    <3>1. OnText(self.text, start)
      BY <2>2, <2>10, <1>t, RangePlaces
    <3>2. OnText(self.text, pos)
      BY <3>1, <2>10 DEF pos
    <3>. QED BY <2>6, <2>7, <2>10, <3>2 DEF LexerOnText
  <2>11. \E k \in DOMAIN self.ranges :
            /\ self.ranges[k].end.bytes > position.bytes
            /\ self.ranges[k].end.bytes > self.ranges[k].start.bytes
    BY <2>2, <1>t
  <2>12. LexerSound(there)
    BY <2>7, <2>8, <2>9 DEF LexerSound
  <2>13. HasChunk(there) => HasChunk(self)
    BY <2>6 DEF HasChunk
  <2>. QED BY <2>4, <2>6, <2>7, <2>8, <2>10, <2>11, <2>12, <2>13, <2>g, <2>h, <2>p DEF there
<1>. QED BY <1>1, <1>2

(* ts_lexer__get_chunk reads what there is from the position on; where     *)
(* there is nothing the lexer is at its end.                               *)
LEMMA GetChunkSound ==
  ASSUME NEW self, Positioned(self), ~ts_lexer__eof(self)
  PROVE  LET there == ts_lexer__get_chunk(self) IN
         /\ LexerSound(there)
         /\ there.text = self.text /\ there.ranges = self.ranges /\ there.pos = self.pos
         /\ there.token_start = self.token_start /\ there.token_end = self.token_end
         /\ there.lookahead = self.lookahead /\ there.lookahead_size = self.lookahead_size
         /\ there.chunk_start = self.pos.bytes
         /\ self.pos.bytes < Len(self.text) =>
              /\ HasChunk(there) /\ there.range_index = self.range_index
              /\ there.chunk_size \in 1..(Len(self.text) - self.pos.bytes)
              /\ there.chunk_size >= 2 \/ there.chunk_size = Len(self.text) - self.pos.bytes
         /\ Len(self.text) <= self.pos.bytes => ts_lexer__eof(there) /\ there.chunk_size = 0
<1> DEFINE there == ts_lexer__get_chunk(self)
           b == self.pos.bytes
           l == Len(self.text)
           n == Len(self.ranges)
           size == IF l - b <= 0 THEN 0 ELSE IF l - b < ChunkSize THEN l - b ELSE ChunkSize
           index == IF size = 0 THEN n + 1 ELSE self.range_index
<1>t. /\ b \in Nat /\ l \in Nat /\ n \in Nat /\ ChunkSize \in Nat /\ ChunkSize >= 2
      /\ self.range_index \in 1..n + 1 /\ self.range_index # n + 1
      /\ LexerTyped(self) /\ self \in LexerRecord
  BY LexerFields, ChunkAssumption DEF Positioned, LexerTyped, ts_lexer__eof
<1>1. there = Chunked(self, b, size, index)
  BY DEF ts_lexer__get_chunk, Chunked
<1>2. size \in Nat /\ index \in Nat
  BY <1>t
<1> HIDE DEF there
<1>3. /\ there \in LexerRecord
      /\ there.chunk_start = b /\ there.chunk_size = size /\ there.range_index = index
      /\ there.text = self.text /\ there.ranges = self.ranges /\ there.pos = self.pos
      /\ there.token_start = self.token_start /\ there.token_end = self.token_end
      /\ there.lookahead = self.lookahead /\ there.lookahead_size = self.lookahead_size
  <2> HIDE DEF b, size, index
  <2>1. b \in Nat /\ size \in Nat /\ index \in Nat /\ self \in LexerRecord
    BY <1>t, <1>2
  <2>2. Chunked(self, b, size, index) \in LexerRecord
    BY <2>1, SetChunk
  <2>. QED BY <1>1, <2>1, <2>2 DEF Chunked, LexerRecord
<1>4. LexerTyped(there)
  BY <1>t, <1>3 DEF LexerTyped
<1>5. CASE b < l
  <2>1. size \in 1..(l - b) /\ (size >= 2 \/ size = l - b) /\ index = self.range_index
    BY <1>t, <1>5
  <2>2. HasChunk(there) /\ ~ts_lexer__eof(there) /\ InChunk(there) /\ ChunkInText(there)
    <3> HIDE DEF size, index
    <3>. QED BY <1>t, <1>3, <2>1 DEF HasChunk, ts_lexer__eof, InChunk, ChunkInText
  <2>3. Positioned(there)
    <3> HIDE DEF size, index
    <3>. QED BY <1>t, <1>3, <1>4, <2>1, <2>2 DEF Positioned, ts_lexer__eof
  <2>. QED BY <1>3, <1>5, <1>t, <2>1, <2>2, <2>3 DEF LexerSound, there
<1>6. CASE ~(b < l)
  <2>1. size = 0 /\ index = n + 1
    BY <1>t, <1>6
  <2>2. ~HasChunk(there) /\ ts_lexer__eof(there)
    BY <1>3, <2>1 DEF HasChunk, ts_lexer__eof
  <2>3. Positioned(there)
    BY <1>t, <1>3, <1>4, <2>1, <2>2 DEF Positioned
  <2>. QED BY <1>3, <1>6, <1>t, <2>1, <2>2, <2>3 DEF LexerSound, there
<1>. QED BY <1>5, <1>6

(* ts_lexer__get_lookahead decodes the character at the position, also     *)
(* when the chunk ends in the middle of it.                                *)
LEMMA GetLookaheadSound ==
  ASSUME NEW self, LexerSound(self),
         \/ HasChunk(self)
         \/ ts_lexer__eof(self) /\ self.chunk_size = 0 /\ self.chunk_start = self.pos.bytes
  PROVE  LET there == ts_lexer__get_lookahead(self) IN
         /\ LexerSound(there) /\ Decoded(there)
         /\ there.text = self.text /\ there.ranges = self.ranges
         /\ there.pos = self.pos /\ there.range_index = self.range_index
         /\ there.token_start = self.token_start /\ there.token_end = self.token_end
<1> DEFINE there == ts_lexer__get_lookahead(self)
           b == self.pos.bytes
           size == self.chunk_start + self.chunk_size - b
           again == ts_lexer__get_chunk(self)
           seen == Decode(self.text, b, Len(self.text) - b)
           once == Decode(self.text, b, size)
           twice == Decode(self.text, b, again.chunk_size)
<1>t. /\ self.text \in Seq(Bytes) /\ Len(self.text) \in Nat /\ b \in Nat
      /\ self.chunk_start \in Nat /\ self.chunk_size \in Nat
      /\ self \in LexerRecord /\ Positioned(self) /\ LexerTyped(self)
  BY LexerFields DEF LexerSound, Positioned, LexerTyped
<1>1. CASE ~HasChunk(self)
  <2>1. ts_lexer__eof(self) /\ self.chunk_size = 0 /\ size = 0
    BY <1>1, <1>t
  <2>2. there = SetLookahead(self, NUL, 1)
    BY <2>1 DEF ts_lexer__get_lookahead
  <2>3. NUL \in Characters /\ self \in LexerRecord
    BY <1>t DEF Characters
  <2> HIDE DEF there
  <2>4. /\ there \in LexerRecord /\ there.lookahead = NUL
        /\ there.text = self.text /\ there.ranges = self.ranges
        /\ there.token_start = self.token_start /\ there.token_end = self.token_end
        /\ there.chunk_start = self.chunk_start /\ there.chunk_size = self.chunk_size
        /\ there.pos = self.pos /\ there.range_index = self.range_index
    BY <2>2, <2>3, SetCharacter
  <2>5. ts_lexer__eof(there) /\ ~HasChunk(there)
    BY <2>1, <2>4 DEF ts_lexer__eof, HasChunk
  <2>6. LexerTyped(there)
    BY <1>t, <2>4 DEF LexerTyped
  <2>7. Positioned(there)
    BY <1>t, <2>4, <2>5, <2>6 DEF Positioned
  <2>8. Decoded(there)
    BY <2>1, <2>4, <2>5 DEF Decoded
  <2>. QED BY <2>4, <2>5, <2>7, <2>8 DEF LexerSound, there
<1>2. CASE HasChunk(self)
  <2>1. /\ ~ts_lexer__eof(self) /\ InChunk(self) /\ ChunkInText(self)
        /\ b \in 0..(Len(self.text) - 1) /\ size \in 1..(Len(self.text) - b) /\ size # 0
    BY <1>2, <1>t DEF LexerSound, InChunk, ChunkInText
  <2>2. /\ seen.lookahead \in Characters /\ seen.size \in Nat
    <3>1. seen.lookahead \in Characters /\ seen.size \in {1, 2}
      <4> HIDE DEF size, b
      <4>. QED BY <2>1, <1>t, DecodeInText
    <3> HIDE DEF seen
    <3>. QED BY <3>1
  <2>3. ASSUME NEW base, LexerSound(base), HasChunk(base),
               base.text = self.text, base.ranges = self.ranges,
               base.pos = self.pos, base.range_index = self.range_index,
               base.token_start = self.token_start, base.token_end = self.token_end,
               there = SetLookahead(base, seen.lookahead, seen.size)
        PROVE  /\ LexerSound(there) /\ Decoded(there)
               /\ there.text = self.text /\ there.ranges = self.ranges
               /\ there.pos = self.pos /\ there.range_index = self.range_index
               /\ there.token_start = self.token_start /\ there.token_end = self.token_end
    <3>1. base \in LexerRecord /\ ~ts_lexer__eof(base) /\ InChunk(base) /\ ChunkInText(base)
      BY <2>3 DEF LexerSound, Positioned, LexerTyped
    <3> HIDE DEF there, seen
    <3>2. /\ there \in LexerRecord
          /\ there.lookahead = seen.lookahead /\ there.lookahead_size = seen.size
          /\ there.text = base.text /\ there.ranges = base.ranges
          /\ there.token_start = base.token_start /\ there.token_end = base.token_end
          /\ there.chunk_start = base.chunk_start /\ there.chunk_size = base.chunk_size
          /\ there.pos = base.pos /\ there.range_index = base.range_index
      BY <2>2, <2>3, <3>1, SetCharacter
    <3>3. HasChunk(there) /\ ~ts_lexer__eof(there) /\ InChunk(there) /\ ChunkInText(there)
      BY <2>3, <3>1, <3>2 DEF HasChunk, ts_lexer__eof, InChunk, ChunkInText
    <3>4. LexerTyped(there)
      BY <2>3, <3>2 DEF LexerTyped, LexerSound, Positioned
    <3>5. Positioned(there)
      BY <2>3, <3>1, <3>2, <3>4 DEF LexerSound, Positioned
    <3>6. Decode(there.text, there.pos.bytes, Len(there.text) - there.pos.bytes) = seen
      BY <2>3, <3>2 DEF seen
    <3>7. Decoded(there)
      BY <3>2, <3>3, <3>6 DEF Decoded
    <3>. QED BY <2>3, <3>2, <3>3, <3>5, <3>7 DEF LexerSound
  <2>4. CASE once.lookahead = TS_DECODE_ERROR /\ size < 4
    <3>1. there = SetLookahead(again, twice.lookahead, twice.size)
      BY <2>1, <2>4 DEF ts_lexer__get_lookahead
    <3>2. /\ LexerSound(again) /\ HasChunk(again)
          /\ again.text = self.text /\ again.ranges = self.ranges /\ again.pos = self.pos
          /\ again.token_start = self.token_start /\ again.token_end = self.token_end
          /\ again.range_index = self.range_index
          /\ again.chunk_size \in 1..(Len(self.text) - b)
          /\ again.chunk_size >= 2 \/ again.chunk_size = Len(self.text) - b
      <4>1. b < Len(self.text)
        BY <2>1, <1>t
      <4>. QED BY <1>t, <2>1, <4>1, GetChunkSound
    <3> HIDE DEF again
    <3>3. twice = seen
      BY <1>t, <2>1, <3>2, DecodeCut
    <3> HIDE DEF seen, twice, there
    <3>4. there = SetLookahead(again, seen.lookahead, seen.size)
      BY <3>1, <3>3
    <3>. QED BY <2>3, <3>2, <3>4 DEF there
  <2>5. CASE ~(once.lookahead = TS_DECODE_ERROR /\ size < 4)
    <3>1. there = SetLookahead(self, once.lookahead, once.size)
      BY <2>1, <2>5 DEF ts_lexer__get_lookahead
    <3>2. size >= 2 \/ once.lookahead # TS_DECODE_ERROR
      BY <2>5, <2>1, <1>t
    <3>3. once = seen
      <4> HIDE DEF size
      <4>. QED BY <1>t, <2>1, <3>2, DecodeCut
    <3> HIDE DEF seen, once, there
    <3>4. there = SetLookahead(self, seen.lookahead, seen.size)
      BY <3>1, <3>3
    <3>. QED BY <2>3, <3>4, <1>2 DEF there
  <2>. QED BY <2>4, <2>5
<1>. QED BY <1>1, <1>2

(* NextRange finds the first range that is left and holds its entry, or    *)
(* says that none does.                                                    *)
LEMMA NextRangeFound ==
  ASSUME NEW self, LexerTyped(self), self.range_index \in 1..Len(self.ranges),
         NEW position \in Place
  PROVE  LET i == NextRange(self, position) IN
         /\ \/ i = Len(self.ranges) + 1
            \/ /\ i \in self.range_index..Len(self.ranges)
               /\ self.ranges[i].end.bytes # self.ranges[i].start.bytes
               /\ i = self.range_index => position.bytes < self.ranges[i].end.bytes
               /\ i # self.range_index => self.ranges[i].start.bytes < self.ranges[i].end.bytes
         /\ \A k \in self.range_index..Len(self.ranges) : k < i =>
               \/ self.ranges[k].end.bytes = self.ranges[k].start.bytes
               \/ k = self.range_index /\ self.ranges[k].end.bytes <= position.bytes
<1> DEFINE Entered(i) == IF i = self.range_index THEN position ELSE self.ranges[i].start
           left == {i \in self.range_index..Len(self.ranges) :
                      /\ Entered(i).bytes < self.ranges[i].end.bytes
                      /\ self.ranges[i].end.bytes # self.ranges[i].start.bytes}
           i == NextRange(self, position)
<1>1. i = IF left = {} THEN Len(self.ranges) + 1
          ELSE CHOOSE k \in left : \A j \in left : k <= j
  BY DEF NextRange
<1>p. position.bytes \in Nat
  BY PlaceBytes
<1>f. /\ self.range_index \in Nat /\ Len(self.ranges) \in Nat
      /\ \A k \in 1..Len(self.ranges) :
            /\ self.ranges[k].start.bytes \in Nat /\ self.ranges[k].end.bytes \in Nat
            /\ self.ranges[k].start.bytes <= self.ranges[k].end.bytes
  BY LexerFields
<1>b. ASSUME NEW k \in self.range_index..Len(self.ranges), k \notin left
      PROVE  \/ self.ranges[k].end.bytes = self.ranges[k].start.bytes
             \/ k = self.range_index /\ self.ranges[k].end.bytes <= position.bytes
  <2>1. k \in 1..Len(self.ranges)
    BY <1>f
  <2>. QED BY <2>1, <1>b, <1>f, <1>p
<1>2. CASE left = {}
  <2>1. i = Len(self.ranges) + 1
    BY <1>1, <1>2
  <2> HIDE DEF i
  <2>. QED BY <2>1, <1>2, <1>b DEF i
<1>3. CASE left # {}
  <2>1. left \subseteq Nat
    BY LexerFields
  <2>2. \E k \in left : \A j \in left : k <= j
    <3> HIDE DEF left
    <3>. QED BY <1>3, <2>1, NatMin
  <2>3. i = CHOOSE k \in left : \A j \in left : k <= j
    BY <1>1, <1>3
  <2>4. i \in left /\ \A j \in left : i <= j
    <3> HIDE DEF left, i
    <3>. QED BY <2>2, <2>3
  <2> HIDE DEF i
  <2>5. /\ i \in self.range_index..Len(self.ranges)
        /\ self.ranges[i].end.bytes # self.ranges[i].start.bytes
        /\ i = self.range_index => position.bytes < self.ranges[i].end.bytes
        /\ i # self.range_index => self.ranges[i].start.bytes < self.ranges[i].end.bytes
    BY <2>4
  <2>6. ASSUME NEW k \in self.range_index..Len(self.ranges), k < i
        PROVE  k \notin left
    <3> HIDE DEF left
    <3>. QED BY <2>4, <2>5, <2>6, <1>f
  <2> HIDE DEF left
  <2>. QED BY <2>5, <2>6, <1>b DEF i
<1>. QED BY <1>2, <1>3

(* The place after the lookahead character is that of the byte behind it.  *)
LEMMA AfterLookaheadTrue ==
  ASSUME NEW self, LexerSound(self), HasChunk(self), Decoded(self), OnText(self.text, self.pos)
  PROVE  LET position == AfterLookahead(self) IN
         /\ position \in Place /\ OnText(self.text, position)
         /\ self.pos.bytes < position.bytes
         /\ \A c \in Boundaries(self.text) : ~(self.pos.bytes < c /\ c < position.bytes)
<1> DEFINE b == self.pos.bytes
           seen == Decode(self.text, b, Len(self.text) - b)
           position == AfterLookahead(self)
<1>t. /\ self.text \in Seq(Bytes) /\ Len(self.text) \in Nat /\ b \in Nat
      /\ self.chunk_start \in Nat /\ self.chunk_size \in Nat /\ Len(self.text) < UINT32_MAX
  BY LexerFields DEF LexerSound, Positioned, LexerTyped
<1>1. ~ts_lexer__eof(self) /\ b \in 0..(Len(self.text) - 1)
  BY <1>t DEF LexerSound, InChunk, ChunkInText
<1>2. self.lookahead = seen.lookahead /\ self.lookahead_size = seen.size
  BY <1>1 DEF Decoded
<1>3. /\ seen.size \in {1, 2} /\ b + seen.size <= Len(self.text)
      /\ PositionOf(self.text, b + seen.size) =
           length_add(PositionOf(self.text, b),
                      IF seen.lookahead = "n" THEN Len3(seen.size, Point(1, 0))
                      ELSE Len3(seen.size, Point(0, seen.size)))
  <2> HIDE DEF b
  <2>. QED BY <1>t, <1>1, DecodeInText
<1>4. self.pos = PositionOf(self.text, b)
  BY <1>t, OnTextByte
<1>5. position = PositionOf(self.text, b + seen.size)
  <2> HIDE DEF seen, b
  <2>. QED BY <1>2, <1>3, <1>4 DEF AfterLookahead
<1>6. position.bytes = b + seen.size /\ position \in Place
  <2> HIDE DEF seen, b, position
  <2>1. b + seen.size \in Nat /\ b + seen.size \in 0..UINT32_MAX
    BY <1>t, <1>3, Widths
  <2>. QED BY <1>5, <2>1, PositionFields, PositionPlace
<1>7. b < position.bytes
  <2> HIDE DEF seen, b, position
  <2>. QED BY <1>t, <1>3, <1>6
<1>8. /\ b + seen.size \in Boundaries(self.text)
      /\ \A c \in Boundaries(self.text) : ~(b < c /\ c < b + seen.size)
  <2> HIDE DEF b
  <2>. QED BY <1>t, <1>1, CharacterEnds
<1> HIDE DEF position, seen
<1>. QED BY <1>5, <1>6, <1>7, <1>8 DEF OnText, position

(* Where ts_lexer__do_advance comes to.                                    *)
AdvancedTo(self) ==
  LET position == AfterLookahead(self)
      i == NextRange(self, position)
  IN  IF i > Len(self.ranges)
      THEN IF self.range_index < Len(self.ranges) THEN Last(self.ranges).start ELSE position
      ELSE IF i = self.range_index THEN position ELSE self.ranges[i].start

(* It is the next boundary that is included, or the end of the input.      *)
LEMMA AdvancedPast ==
  ASSUME NEW self, LexerSound(self), HasChunk(self), Decoded(self), LexerOnText(self)
  PROVE  LET passed == AdvancedTo(self) IN
         /\ self.pos.bytes < passed.bytes
         /\ \A b \in Boundaries(self.text) :
               self.pos.bytes < b /\ b < passed.bytes => ~InRanges(b, self.ranges)
         /\ NextRange(self, AfterLookahead(self)) = Len(self.ranges) + 1
               => passed.bytes = InputEnd(self)
<1> DEFINE n == Len(self.ranges)
           r == self.range_index
           p == self.pos.bytes
           position == AfterLookahead(self)
           q == position.bytes
           i == NextRange(self, position)
           passed == AdvancedTo(self)
           Begin(k) == self.ranges[k].start.bytes
           End(k) == self.ranges[k].end.bytes
<1>t. /\ self.text \in Seq(Bytes) /\ Len(self.text) \in Nat /\ Len(self.text) < UINT32_MAX
      /\ n \in Nat /\ n >= 1 /\ DOMAIN self.ranges = 1..n
      /\ p \in Nat /\ LexerTyped(self) /\ ProperRanges(self.ranges)
      /\ \A k \in 1..n : Begin(k) \in Nat /\ End(k) \in Nat /\ Begin(k) <= End(k)
  BY LexerFields DEF LexerSound, Positioned, LexerTyped
<1>s. r \in 1..n /\ Begin(r) <= p /\ p < End(r)
  BY <1>t DEF LexerSound, Positioned, ts_lexer__eof
<1>o. \A j, k \in 1..n : j < k => End(j) <= Begin(k)
  BY <1>t, RangesOrdered DEF ProperRanges
<1>p. /\ position \in Place /\ q \in Nat /\ p < q /\ q <= Len(self.text)
      /\ \A c \in Boundaries(self.text) : ~(p < c /\ c < q)
  <2>1. /\ position \in Place /\ OnText(self.text, position) /\ p < q
        /\ \A c \in Boundaries(self.text) : ~(p < c /\ c < q)
    BY AfterLookaheadTrue DEF LexerOnText
  <2> HIDE DEF position
  <2>. QED BY <2>1, <1>t, OnTextByte
<1>r. RangesOnText(self.text, self.ranges)
  BY DEF LexerOnText
<1> HIDE DEF position
<1>i. /\ \/ i = n + 1
         \/ /\ i \in r..n
            /\ i = r => q < End(i)
            /\ i # r => Begin(i) < End(i)
      /\ \A k \in r..n : k < i => End(k) = Begin(k) \/ (k = r /\ End(k) <= q)
  BY <1>t, <1>s, <1>p, NextRangeFound
<1>1. passed = IF i > n THEN IF r < n THEN Last(self.ranges).start ELSE position
               ELSE IF i = r THEN position ELSE self.ranges[i].start
  BY DEF AdvancedTo, position
<1> HIDE DEF i, passed
<1>2. i \in Nat /\ i \in r..n + 1
  BY <1>i, <1>s, <1>t
<1>3. q <= End(r)
  <2>1. CASE OnText(self.text, self.ranges[r].end)
    <3>1. End(r) \in Boundaries(self.text)
      BY <2>1, <1>t, OnTextByte
    <3>. QED BY <3>1, <1>p, <1>s, <1>t
  <2>2. CASE self.ranges[r].end = LENGTH_MAX
    <3>1. End(r) = UINT32_MAX
      BY <2>2 DEF LENGTH_MAX, Len3
    <3>. QED BY <3>1, <1>p, <1>t, Widths
  <2>. QED BY <2>1, <2>2, <1>r, <1>s, <1>t, RangePlaces
<1>4. CASE i = r
  <2>1. passed = position
    BY <1>1, <1>4, <1>s, <1>t
  <2>2. i # n + 1
    BY <1>4, <1>s, <1>t
  <2>. QED BY <2>1, <2>2, <1>p DEF passed, i, position
<1>5. CASE i # r
  <2>1. q = End(r)
    <3>1. r \in r..n /\ r < i
      BY <1>5, <1>2, <1>s, <1>t
    <3>2. End(r) # Begin(r)
      BY <1>s, <1>t
    <3>3. End(r) <= q
      BY <3>1, <3>2, <1>i
    <3>. QED BY <3>3, <1>3, <1>s, <1>t, <1>p
  <2>2. \A k \in 1..n : r < k /\ k < i => End(k) = Begin(k)
    BY <1>i, <1>s, <1>t
  <2>3. /\ q <= passed.bytes /\ passed.bytes \in Nat
        /\ \A k \in 1..n : i <= k => passed.bytes <= Begin(k)
        /\ i = n + 1 => passed.bytes = End(n)
    <3>1. CASE i = n + 1 /\ r < n
      <4>1. Last(self.ranges) = self.ranges[n] /\ n \in 1..n
        BY <1>t DEF Last
      <4>2. passed.bytes = Begin(n)
        BY <1>1, <3>1, <4>1, <1>t
      <4>3. Begin(n) = End(n) /\ End(r) <= Begin(n)
        BY <2>2, <3>1, <4>1, <1>o, <1>s, <1>t
      <4>. QED BY <2>1, <3>1, <4>1, <4>2, <4>3, <1>t
    <3>2. CASE i = n + 1 /\ ~(r < n)
      <4>1. passed = position /\ r = n
        BY <1>1, <3>2, <1>s, <1>t
      <4>. QED BY <2>1, <3>2, <4>1, <1>s, <1>t, <1>p
    <3>3. CASE i # n + 1
      <4>1. i \in 1..n /\ r < i
        BY <3>3, <1>5, <1>2, <1>s, <1>t
      <4>2. passed.bytes = Begin(i)
        BY <1>1, <1>5, <4>1, <1>t
      <4>3. End(r) <= Begin(i)
        BY <4>1, <1>o, <1>s
      <4>4. ASSUME NEW k \in 1..n, i <= k PROVE Begin(i) <= Begin(k)
        <5>1. CASE i = k
          BY <5>1, <1>t
        <5>2. CASE i # k
          <6>1. End(i) <= Begin(k)
            BY <4>1, <4>4, <5>2, <1>o
          <6>. QED BY <6>1, <4>1, <1>t
        <5>. QED BY <5>1, <5>2
      <4>. QED BY <2>1, <3>3, <4>1, <4>2, <4>3, <4>4, <1>t
    <3>. QED BY <3>1, <3>2, <3>3
  <2>4. ASSUME NEW b \in Boundaries(self.text), p < b, b < passed.bytes, InRanges(b, self.ranges)
        PROVE  FALSE
    <3>1. PICK k \in 1..n : Begin(k) <= b /\ b < End(k)
      BY <2>4, <1>t DEF InRanges
    <3>2. b \in Nat /\ q <= b
      <4>1. b \in Nat
        BY <1>t, BoundaryInText
      <4>. QED BY <4>1, <2>4, <1>p
    <3>3. ~(k < r)
      <4>1. k < r => End(k) <= Begin(r)
        BY <1>o, <1>s
      <4>. QED BY <4>1, <3>1, <3>2, <2>1, <1>s, <1>t, <1>p
    <3>4. k # r
      BY <3>1, <3>2, <2>1, <1>s, <1>t
    <3>5. ~(r < k /\ k < i)
      BY <3>1, <3>2, <2>2, <1>t
    <3>6. ~(i <= k)
      BY <3>1, <3>2, <2>3, <2>4, <1>t
    <3>. QED BY <3>3, <3>4, <3>5, <3>6, <1>2, <1>s, <1>t
  <2>5. i = n + 1 => passed.bytes = InputEnd(self)
    <3> SUFFICES ASSUME i = n + 1 PROVE passed.bytes = InputEnd(self)
      OBVIOUS
    <3>1. End(n) <= Len(self.text)
      <4>1. CASE OnText(self.text, self.ranges[n].end)
        BY <4>1, <1>t, OnTextByte
      <4>2. CASE self.ranges = << DEFAULT_RANGE >> /\ self.ranges[n].end = LENGTH_MAX
        <5>1. n = 1 /\ End(n) = UINT32_MAX
          BY <4>2 DEF LENGTH_MAX, Len3
        <5>2. End(n) = q
          BY <5>1, <2>1, <1>s
        <5>. QED BY <5>1, <5>2, <1>p, <1>t
      <4>3. n \in DOMAIN self.ranges
        BY <1>t
      <4>. QED BY <4>1, <4>2, <4>3, <1>r, <1>t, RangePlaces
    <3>2. passed.bytes = End(n) /\ passed.bytes \in Nat
      BY <2>3
    <3>. QED BY <3>1, <3>2, <1>t, InputEndBounds
  <2>6. p < passed.bytes
    BY <2>3, <1>p, <1>t
  <2>. QED BY <2>4, <2>5, <2>6 DEF passed, i, position
<1>. QED BY <1>4, <1>5

(* Where ts_lexer__do_advance comes to stand, on whatever text: behind the *)
(* character, past the ranges that end there, or at the end if neither is  *)
(* left.                                                                   *)
LEMMA DoAdvanceStands ==
  ASSUME NEW self, LexerSound(self), HasChunk(self), NEW skip \in BOOLEAN,
         AfterLookahead(self) \in Place, self.pos.bytes <= AfterLookahead(self).bytes
  PROVE  LET there == ts_lexer__do_advance(self, skip)
             i == NextRange(self, AfterLookahead(self))
         IN
         /\ LexerSound(there) /\ Decoded(there)
         /\ there.text = self.text /\ there.ranges = self.ranges
         /\ there.token_end = self.token_end
         /\ there.token_start = IF skip THEN there.pos ELSE self.token_start
         /\ there.pos = AdvancedTo(self)
         /\ \/ i = Len(self.ranges) + 1
            \/ /\ i \in 1..Len(self.ranges)
               /\ there.pos.bytes < self.ranges[i].end.bytes
         /\ there.range_index = IF Len(self.text) <= there.pos.bytes THEN Len(self.ranges) + 1 ELSE i
<1> DEFINE there == ts_lexer__do_advance(self, skip)
           n == Len(self.ranges)
           position == AfterLookahead(self)
           i == NextRange(self, position)
           passed == IF i > n
                     THEN IF self.range_index < n THEN Last(self.ranges).start ELSE position
                     ELSE IF i = self.range_index THEN position ELSE self.ranges[i].start
           token == IF skip THEN passed ELSE self.token_start
           moved == [self EXCEPT !.pos = passed, !.range_index = i,
                                 !.token_start = IF skip THEN passed ELSE @]
<1>t. /\ self.text \in Seq(Bytes) /\ n \in Nat /\ n >= 1 /\ DOMAIN self.ranges = 1..n
      /\ self.pos \in Place /\ self.pos.bytes \in Nat
      /\ self.chunk_start \in Nat /\ self.chunk_size \in Nat
      /\ \A k \in 1..n : /\ self.ranges[k].start \in Place
                         /\ self.ranges[k].start.bytes \in Nat /\ self.ranges[k].end.bytes \in Nat
  BY LexerFields DEF LexerSound, Positioned
<1>s. /\ LexerTyped(self) /\ self \in LexerRecord /\ self.token_start \in Place
      /\ ~ts_lexer__eof(self) /\ ChunkInText(self) /\ self.range_index \in 1..n
      /\ self.ranges[self.range_index].start.bytes <= self.pos.bytes
  BY <1>t DEF LexerSound, Positioned, LexerTyped, LexerRecord, ts_lexer__eof
<1>p. position \in Place /\ self.pos.bytes <= position.bytes /\ position.bytes \in Nat
  BY PlaceBytes
<1>e. passed = AdvancedTo(self)
  BY DEF AdvancedTo
<1> HIDE DEF position
<1>i. \/ i = n + 1
      \/ /\ i \in self.range_index..n
         /\ self.ranges[i].end.bytes # self.ranges[i].start.bytes
         /\ i = self.range_index => position.bytes < self.ranges[i].end.bytes
         /\ i # self.range_index => self.ranges[i].start.bytes < self.ranges[i].end.bytes
  BY <1>s, <1>p, NextRangeFound
<1>1. there = IF i > n THEN SetLookahead(ts_lexer__clear_chunk(moved), NUL, 1)
              ELSE ts_lexer__get_lookahead(IF InChunk(moved) THEN moved
                                           ELSE ts_lexer__get_chunk(moved))
  BY DEF ts_lexer__do_advance, position
<1> HIDE DEF i
<1>2. i \in Nat /\ i \in 1..n + 1 /\ (i > n <=> i = n + 1)
  <2>1. i = n + 1 \/ i \in self.range_index..n
    BY ONLY <1>i
  <2>2. self.range_index \in 1..n /\ n \in Nat
    BY ONLY <1>s, <1>t
  <2>. QED BY ONLY <2>1, <2>2
<1>r. ~(i > n) => i \in 1..n /\ self.ranges[i].start \in Place /\ self.ranges[i].start.bytes \in Nat
  <2> SUFFICES ASSUME ~(i > n)
               PROVE  i \in 1..n /\ self.ranges[i].start \in Place /\ self.ranges[i].start.bytes \in Nat
    OBVIOUS
  <2>1. n \in Nat /\ \A k \in 1..n : self.ranges[k].start \in Place /\ self.ranges[k].start.bytes \in Nat
    BY ONLY <1>t
  <2>2. i \in 1..n
    BY <1>2, <2>1
  <2>. QED BY ONLY <2>1, <2>2
<1>3. passed \in Place /\ passed.bytes \in Nat
  <2>1. Last(self.ranges) = self.ranges[n] /\ n \in 1..n
    BY <1>t DEF Last
  <2>2. Last(self.ranges).start \in Place
    BY ONLY <2>1, <1>t
  <2>3. position \in Place
    BY ONLY <1>p
  <2>4. passed \in Place
    BY ONLY <2>2, <2>3, <1>r
  <2> HIDE DEF passed
  <2>. QED BY ONLY <2>4, PlaceBytes
<1>4. ~(i > n) => /\ self.ranges[i].start.bytes <= passed.bytes
                  /\ passed.bytes < self.ranges[i].end.bytes
  <2> SUFFICES ASSUME ~(i > n) PROVE /\ self.ranges[i].start.bytes <= passed.bytes
                                     /\ passed.bytes < self.ranges[i].end.bytes
    OBVIOUS
  <2>1. i \in 1..n /\ self.ranges[i].start.bytes \in Nat
    BY <1>r
  <2>i. /\ i = self.range_index => position.bytes < self.ranges[i].end.bytes
        /\ i # self.range_index => self.ranges[i].start.bytes < self.ranges[i].end.bytes
    <3>1. i # n + 1
      BY <1>2
    <3>. QED BY ONLY <3>1, <1>i
  <2>2. CASE i = self.range_index
    <3>1. passed = position
      BY <2>2
    <3>2. position.bytes < self.ranges[i].end.bytes
      BY ONLY <2>2, <2>i
    <3> HIDE DEF passed
    <3>3. self.ranges[i].start.bytes <= self.pos.bytes
      BY ONLY <2>2, <1>s
    <3>4. self.ranges[i].start.bytes <= position.bytes
      <4> DEFINE x == self.ranges[i].start.bytes
                 y == self.pos.bytes
                 z == position.bytes
      <4>1. x \in Nat /\ y \in Nat /\ z \in Nat /\ x <= y /\ y <= z
        BY <3>3, <2>1, <1>p, <1>t
      <4> HIDE DEF x, y, z
      <4>2. x <= z
        BY ONLY <4>1
      <4>. QED BY <4>2 DEF x, z
    <3>. QED BY <3>1, <3>2, <3>4
  <2>3. CASE i # self.range_index
    <3>1. passed = self.ranges[i].start
      BY <2>3
    <3>2. self.ranges[i].start.bytes < self.ranges[i].end.bytes
      BY ONLY <2>3, <2>i
    <3> HIDE DEF passed
    <3>3. self.ranges[i].start.bytes <= self.ranges[i].start.bytes
      BY ONLY <2>1
    <3>. QED BY <3>1, <3>2, <3>3
  <2>. QED BY <2>2, <2>3
<1>5. token \in Place
  BY <1>3, <1>s
<1>6. moved = Passed(self, passed, i, token)
  BY DEF Passed
<1> HIDE DEF passed, moved, there
<1>7. /\ moved \in LexerRecord /\ moved.pos = passed /\ moved.range_index = i
      /\ moved.token_start = token
      /\ moved.text = self.text /\ moved.ranges = self.ranges /\ moved.token_end = self.token_end
      /\ moved.chunk_start = self.chunk_start /\ moved.chunk_size = self.chunk_size
  <2> HIDE DEF token
  <2>1. self \in LexerRecord /\ passed \in Place /\ i \in Nat /\ token \in Place
    BY <1>s, <1>3, <1>2, <1>5
  <2>. QED BY ONLY <2>1, <1>6, SetPassed
<1>8. LexerTyped(moved)
  BY <1>7, <1>s DEF LexerTyped
<1>9. CASE i > n
  <2> DEFINE clear == ts_lexer__clear_chunk(moved)
  <2>1. there = SetLookahead(clear, NUL, 1) /\ i = n + 1
    BY <1>1, <1>2, <1>9
  <2>2. /\ clear \in LexerRecord /\ clear.chunk_size = 0
        /\ clear.text = moved.text /\ clear.ranges = moved.ranges
        /\ clear.token_start = moved.token_start /\ clear.token_end = moved.token_end
        /\ clear.pos = moved.pos /\ clear.range_index = moved.range_index
    BY <1>7, SetNoChunk
  <2>3. NUL \in Characters
    BY DEF Characters
  <2> HIDE DEF clear
  <2>4. /\ there \in LexerRecord /\ there.lookahead = NUL
        /\ there.text = clear.text /\ there.ranges = clear.ranges
        /\ there.token_start = clear.token_start /\ there.token_end = clear.token_end
        /\ there.chunk_size = clear.chunk_size
        /\ there.pos = clear.pos /\ there.range_index = clear.range_index
    BY <2>1, <2>2, <2>3, SetCharacter
  <2>5. ts_lexer__eof(there) /\ ~HasChunk(there)
    BY <2>1, <2>2, <2>4, <1>7 DEF ts_lexer__eof, HasChunk
  <2>6. LexerTyped(there)
    BY <1>8, <1>7, <2>2, <2>4 DEF LexerTyped
  <2>7. Positioned(there)
    BY <2>5, <2>6, <2>4, <2>2, <2>1, <1>7, <1>t DEF Positioned
  <2>8. LexerSound(there) /\ Decoded(there)
    BY <2>5, <2>7, <2>4, <2>2 DEF LexerSound, Decoded
  <2>. QED BY <2>8, <2>1, <2>4, <2>2, <1>7, <1>e DEF there, i, position
<1>10. CASE ~(i > n)
  <2> DEFINE base == IF InChunk(moved) THEN moved ELSE ts_lexer__get_chunk(moved)
  <2>1. there = ts_lexer__get_lookahead(base)
    BY <1>1, <1>10
  <2>2. Positioned(moved) /\ ~ts_lexer__eof(moved)
    BY <1>10, <1>2, <1>4, <1>7, <1>8, <1>t DEF Positioned, ts_lexer__eof
  <2>3. /\ LexerSound(base)
        /\ base.text = moved.text /\ base.ranges = moved.ranges /\ base.pos = moved.pos
        /\ base.token_start = moved.token_start /\ base.token_end = moved.token_end
        /\ \/ HasChunk(base)
           \/ /\ ts_lexer__eof(base) /\ base.chunk_size = 0 /\ base.chunk_start = base.pos.bytes
              /\ Len(moved.text) <= moved.pos.bytes
        /\ base.range_index = IF Len(moved.text) <= moved.pos.bytes THEN n + 1 ELSE i
    <3>1. CASE InChunk(moved)
      <4>1. base = moved
        BY <3>1
      <4>2. HasChunk(moved) /\ ChunkInText(moved)
        BY <1>7, <1>s DEF HasChunk, ChunkInText
      <4>3. ~(Len(moved.text) <= moved.pos.bytes)
        BY <4>2, <3>1, <1>7, <1>3, <1>t DEF InChunk, ChunkInText
      <4>. QED BY <4>1, <4>2, <4>3, <3>1, <2>2, <1>7 DEF LexerSound
    <3>2. CASE ~InChunk(moved)
      <4>1. base = ts_lexer__get_chunk(moved)
        BY <3>2
      <4> HIDE DEF base
      <4>2. moved.pos.bytes \in Nat /\ Len(moved.text) \in Nat
        BY <1>3, <1>7, <1>t
      <4>3. moved.pos.bytes < Len(moved.text) \/ Len(moved.text) <= moved.pos.bytes
        BY <4>2
      <4>4. base.range_index = IF Len(moved.text) <= moved.pos.bytes THEN n + 1 ELSE i
        BY <4>1, <4>2, <4>3, <2>2, <1>7, GetChunkSound DEF ts_lexer__eof
      <4>. QED BY <4>1, <4>3, <4>4, <2>2, GetChunkSound
    <3>. QED BY <3>1, <3>2
  <2> HIDE DEF base
  <2>4. /\ LexerSound(there) /\ Decoded(there)
        /\ there.text = base.text /\ there.ranges = base.ranges /\ there.pos = base.pos
        /\ there.token_start = base.token_start /\ there.token_end = base.token_end
        /\ there.range_index = base.range_index
    BY <2>1, <2>3, GetLookaheadSound
  <2>5. there.range_index = IF Len(self.text) <= there.pos.bytes THEN n + 1 ELSE i
    <3>1. there.pos = passed /\ there.range_index = base.range_index
      BY <2>3, <2>4, <1>7
    <3>. QED BY <3>1, <2>3, <1>7
  <2>6. there.pos.bytes < self.ranges[i].end.bytes /\ i \in 1..n
    BY <2>3, <2>4, <1>7, <1>4, <1>10, <1>2, <1>t
  <2>. QED BY <2>3, <2>4, <2>5, <2>6, <1>7, <1>e DEF there, i, position
<1>. QED BY <1>9, <1>10

(* ts_lexer__do_advance passes the character and the ranges that end with  *)
(* it, and looks at the character it comes to.                             *)
LEMMA DoAdvanceSound ==
  ASSUME NEW self, LexerSound(self), HasChunk(self), Decoded(self), LexerOnText(self),
         NEW skip \in BOOLEAN
  PROVE  LET there == ts_lexer__do_advance(self, skip) IN
         /\ LexerSound(there) /\ Decoded(there) /\ LexerOnText(there)
         /\ there.text = self.text /\ there.ranges = self.ranges
         /\ there.token_end = self.token_end
         /\ there.token_start = IF skip THEN there.pos ELSE self.token_start
         /\ there.pos = AdvancedTo(self)
<1> DEFINE there == ts_lexer__do_advance(self, skip)
           n == Len(self.ranges)
           position == AfterLookahead(self)
           i == NextRange(self, position)
           end == InputEnd(self)
<1>t. /\ self.text \in Seq(Bytes) /\ Len(self.text) \in Nat /\ n \in Nat /\ n >= 1
      /\ DOMAIN self.ranges = 1..n /\ self.pos.bytes \in Nat /\ LexerTyped(self)
      /\ RangesOnText(self.text, self.ranges)
  BY LexerFields DEF LexerSound, Positioned, LexerOnText
<1>p. /\ position \in Place /\ OnText(self.text, position)
      /\ self.pos.bytes <= position.bytes
  BY <1>t, AfterLookaheadTrue, PlaceBytes DEF LexerOnText
<1> HIDE DEF position, end
<1>1. /\ LexerSound(there) /\ Decoded(there)
      /\ there.text = self.text /\ there.ranges = self.ranges
      /\ there.token_end = self.token_end
      /\ there.token_start = IF skip THEN there.pos ELSE self.token_start
      /\ there.pos = AdvancedTo(self)
      /\ \/ i = n + 1
         \/ /\ i \in 1..n
            /\ there.pos.bytes < self.ranges[i].end.bytes
      /\ there.range_index = IF Len(self.text) <= there.pos.bytes THEN n + 1 ELSE i
  BY <1>p, DoAdvanceStands DEF position
<1>e. i = n + 1 => there.pos.bytes = end
  BY <1>1, AdvancedPast DEF position, end
<1>3. OnText(self.text, there.pos)
  <2>1. there.pos = IF i > n THEN IF self.range_index < n THEN Last(self.ranges).start ELSE position
                    ELSE IF i = self.range_index THEN position ELSE self.ranges[i].start
    BY <1>1 DEF AdvancedTo, position
  <2>2. Last(self.ranges) = self.ranges[n] /\ n \in 1..n
    BY <1>t DEF Last
  <2> HIDE DEF i, there
  <2>3. \A k \in 1..n : OnText(self.text, self.ranges[k].start)
    BY <1>t, RangePlaces
  <2>. QED BY <2>1, <2>2, <2>3, <1>1, <1>p, <1>t
<1> HIDE DEF there, i
<1>4. ASSUME ts_lexer__eof(there) PROVE there.pos.bytes = end
  <2>1. CASE i = n + 1
    BY <2>1, <1>e
  <2>2. CASE i # n + 1
    <3>1. there.pos.bytes \in 0..Len(self.text) /\ there.pos.bytes \in Nat
      BY <1>3, <1>t, OnTextByte
    <3>2. there.pos.bytes = Len(self.text)
      BY <3>1, <1>1, <1>4, <2>2, <1>t DEF ts_lexer__eof
    <3>. QED BY <3>1, <3>2, <1>1, <2>2, <1>t, InputEndBounds DEF end
  <2>. QED BY <2>1, <2>2
<1>5. LexerOnText(there)
  <2>1. InputEnd(there) = end
    BY <1>1 DEF InputEnd, end
  <2>. QED BY <2>1, <1>1, <1>3, <1>4, <1>t DEF LexerOnText
<1>. QED BY <1>1, <1>5 DEF there

(* ts_lexer__advance, as a scanner calls it.                               *)
LEMMA AdvanceSound ==
  ASSUME NEW self, LexerSound(self), Decoded(self), LexerOnText(self), TokenOnText(self),
         NEW skip \in BOOLEAN
  PROVE  LET there == ts_lexer__advance(self, skip) IN
         LexerSound(there) /\ Decoded(there) /\ LexerOnText(there) /\ TokenOnText(there)
<1> DEFINE there == ts_lexer__advance(self, skip)
<1>1. CASE HasChunk(self)
  <2>1. there = ts_lexer__do_advance(self, skip)
    BY <1>1 DEF ts_lexer__advance
  <2> HIDE DEF there
  <2>2. /\ LexerSound(there) /\ Decoded(there) /\ LexerOnText(there)
        /\ there.text = self.text /\ there.token_end = self.token_end
        /\ there.token_start = IF skip THEN there.pos ELSE self.token_start
    BY <1>1, <2>1, DoAdvanceSound
  <2>3. TokenOnText(there)
    BY <2>2 DEF TokenOnText, LexerOnText
  <2>. QED BY <2>2, <2>3 DEF there
<1>2. CASE ~HasChunk(self)
  BY <1>2 DEF ts_lexer__advance
<1>. QED BY <1>1, <1>2

(* Which lexers are on their text depends on where they stand only.        *)
LEMMA SameOnText ==
  ASSUME NEW self, NEW there, LexerOnText(self),
         there.text = self.text, there.ranges = self.ranges, there.pos = self.pos,
         ts_lexer__eof(there) => ts_lexer__eof(self)
  PROVE  LexerOnText(there)
BY DEF LexerOnText, InputEnd

(* Reading a chunk finds the end of the input where it is.                 *)
LEMMA GetChunkOnText ==
  ASSUME NEW self, Positioned(self), ~ts_lexer__eof(self), LexerOnText(self)
  PROVE  LexerOnText(ts_lexer__get_chunk(self))
<1> DEFINE there == ts_lexer__get_chunk(self)
           b == self.pos.bytes
<1>t. /\ LexerTyped(self) /\ self.text \in Seq(Bytes) /\ Len(self.text) \in Nat
      /\ b \in Nat /\ b <= Len(self.text)
      /\ self.range_index \in 1..Len(self.ranges) /\ b < self.ranges[self.range_index].end.bytes
  <2>1. LexerTyped(self) /\ self.text \in Seq(Bytes) /\ OnText(self.text, self.pos)
    BY LexerFields DEF Positioned, LexerOnText
  <2>2. Len(self.ranges) \in Nat
    BY <2>1, LexerFields
  <2>. QED BY <2>1, <2>2, OnTextByte DEF Positioned, ts_lexer__eof
<1>1. /\ LexerSound(there) /\ there.text = self.text /\ there.ranges = self.ranges
      /\ there.pos = self.pos /\ (b < Len(self.text) => HasChunk(there))
  BY GetChunkSound
<1> HIDE DEF there
<1>2. ts_lexer__eof(there) => b = Len(self.text)
  BY <1>1, <1>t DEF LexerSound
<1>3. b = Len(self.text) => InputEnd(self) = b
  BY <1>t, InputEndBounds
<1>. QED BY <1>1, <1>2, <1>3 DEF LexerOnText, InputEnd, there

(* Changing the token or the column flag of a lexer moves it nowhere.      *)
LEMMA TokenedSound ==
  ASSUME NEW self, NEW p \in Place, NEW q \in Place, NEW got \in BOOLEAN, LexerSound(self)
  PROVE  LET there == Tokened(self, p, q, got) IN
         /\ LexerSound(there) /\ (Decoded(self) => Decoded(there))
         /\ (LexerOnText(self) => LexerOnText(there))
         /\ (ts_lexer__eof(there) <=> ts_lexer__eof(self)) /\ (HasChunk(there) <=> HasChunk(self))
<1> DEFINE there == Tokened(self, p, q, got)
<1>1. self \in LexerRecord
  BY DEF LexerSound, Positioned, LexerTyped
<1>2. /\ there \in LexerRecord
      /\ there.text = self.text /\ there.ranges = self.ranges
      /\ there.chunk_start = self.chunk_start /\ there.chunk_size = self.chunk_size
      /\ there.pos = self.pos /\ there.range_index = self.range_index
      /\ there.lookahead = self.lookahead /\ there.lookahead_size = self.lookahead_size
  BY <1>1, SetToken
<1> HIDE DEF there
<1>3. /\ ts_lexer__eof(there) <=> ts_lexer__eof(self)
      /\ HasChunk(there) <=> HasChunk(self)
      /\ InChunk(there) <=> InChunk(self)
      /\ ChunkInText(there) <=> ChunkInText(self)
  BY <1>2 DEF ts_lexer__eof, HasChunk, InChunk, ChunkInText
<1>4. LexerSound(there)
  BY <1>2, <1>3 DEF LexerSound, Positioned, LexerTyped
<1>5. Decoded(self) => Decoded(there)
  BY <1>2, <1>3 DEF Decoded
<1>6. LexerOnText(self) => LexerOnText(there)
  BY <1>2, <1>3, SameOnText
<1>. QED BY <1>3, <1>4, <1>5, <1>6 DEF there

(* ts_lexer__mark_end: the token ends on the text.                         *)
LEMMA MarkEndSound ==
  ASSUME NEW self, LexerSound(self), LexerOnText(self)
  PROVE  LET there == ts_lexer__mark_end(self) IN
         /\ there \in LexerRecord
         /\ LexerSound(there) /\ LexerOnText(there) /\ (Decoded(self) => Decoded(there))
         /\ there.text = self.text /\ there.token_start = self.token_start
         /\ OnText(self.text, there.token_end)
<1> DEFINE there == ts_lexer__mark_end(self)
           i == self.range_index
           at_start == /\ ~ts_lexer__eof(self) /\ i > 1
                       /\ self.pos.bytes = self.ranges[i].start.bytes
           end == IF at_start THEN self.ranges[i - 1].end ELSE self.pos
           got == self.did_get_column
<1>t. /\ LexerTyped(self) /\ self \in LexerRecord /\ got \in BOOLEAN
      /\ self.token_start \in Place /\ self.pos \in Place
      /\ self.range_index \in 1..Len(self.ranges) + 1
  BY DEF LexerSound, Positioned, LexerTyped, LexerRecord
<1>r. /\ self.text \in Seq(Bytes) /\ Len(self.ranges) \in Nat
      /\ DOMAIN self.ranges = 1..Len(self.ranges)
      /\ \A k \in 1..Len(self.ranges) : self.ranges[k].end \in Place
  BY <1>t, LexerFields
<1>1. end \in Place /\ OnText(self.text, end)
  <2>1. CASE at_start
    <3>1. i - 1 \in 1..Len(self.ranges) /\ Len(self.ranges) >= 2
      BY <2>1, <1>t, <1>r DEF ts_lexer__eof
    <3>2. self.ranges # << DEFAULT_RANGE >>
      BY <3>1, <1>r
    <3>3. RangesOnText(self.text, self.ranges)
      BY DEF LexerOnText
    <3>4. OnText(self.text, self.ranges[i - 1].end)
      BY <3>1, <3>2, <3>3, <1>r DEF RangesOnText
    <3>. QED BY <2>1, <3>1, <3>4, <1>r
  <2>2. CASE ~at_start
    BY <2>2, <1>t DEF LexerOnText
  <2>. QED BY <2>1, <2>2
<1>2. there = Tokened(self, self.token_start, end, got)
  <2>1. there = [self EXCEPT !.token_end = end]
    BY DEF ts_lexer__mark_end
  <2> HIDE DEF end, there
  <2>. QED BY <2>1, <1>t DEF Tokened, LexerRecord
<1> HIDE DEF end, there, got
<1>3. /\ there \in LexerRecord /\ there.text = self.text
      /\ there.token_start = self.token_start /\ there.token_end = end
  BY <1>t, <1>1, <1>2, SetToken
<1>4. LexerSound(there) /\ LexerOnText(there) /\ (Decoded(self) => Decoded(there))
  BY <1>t, <1>1, <1>2, TokenedSound
<1>. QED BY <1>1, <1>3, <1>4 DEF there

(* ts_lexer_finish: both ends of the token are on the text.                *)
LEMMA FinishSound ==
  ASSUME NEW self, LexerSound(self), LexerOnText(self), TokenOnText(self)
  PROVE  LET there == ts_lexer_finish(self) IN
         /\ LexerSound(there) /\ LexerOnText(there)
         /\ OnText(there.text, there.token_start) /\ OnText(there.text, there.token_end)
<1> DEFINE there == ts_lexer_finish(self)
           marked == IF length_is_undefined(self.token_end) THEN ts_lexer__mark_end(self) ELSE self
           start == IF marked.token_end.bytes < marked.token_start.bytes
                    THEN marked.token_end ELSE marked.token_start
           got == marked.did_get_column
<1>1. /\ LexerSound(marked) /\ LexerOnText(marked)
      /\ OnText(marked.text, marked.token_start) /\ OnText(marked.text, marked.token_end)
  <2>1. CASE length_is_undefined(self.token_end)
    <3>1. marked = ts_lexer__mark_end(self)
      BY <2>1
    <3> HIDE DEF marked
    <3>. QED BY <3>1, MarkEndSound DEF TokenOnText
  <2>2. CASE ~length_is_undefined(self.token_end)
    <3>1. self.token_end # LENGTH_UNDEFINED
      BY <2>2 DEF length_is_undefined, LENGTH_UNDEFINED, Len3, Point
    <3>. QED BY <2>2, <3>1 DEF TokenOnText
  <2>. QED BY <2>1, <2>2
<1> HIDE DEF marked
<1>2. /\ marked \in LexerRecord /\ marked.token_start \in Place /\ marked.token_end \in Place
      /\ got \in BOOLEAN
  BY <1>1 DEF LexerSound, Positioned, LexerTyped, LexerRecord
<1>3. start \in Place /\ OnText(marked.text, start)
  BY <1>1, <1>2
<1>4. there = Tokened(marked, start, marked.token_end, got)
  <2>1. there = [marked EXCEPT !.token_start = start]
    BY DEF ts_lexer_finish, marked
  <2> HIDE DEF start, there
  <2>. QED BY <2>1, <1>2 DEF Tokened, LexerRecord
<1> HIDE DEF start, there, got
<1>5. /\ there.text = marked.text
      /\ there.token_start = start /\ there.token_end = marked.token_end
  BY <1>2, <1>3, <1>4, SetToken
<1>6. LexerSound(there) /\ LexerOnText(there)
  BY <1>1, <1>2, <1>3, <1>4, TokenedSound
<1>. QED BY <1>1, <1>3, <1>5, <1>6 DEF there

(* ts_lexer_start: the token begins at the position, or behind a byte      *)
(* order mark, with the character there decoded.                           *)
LEMMA StartSound ==
  ASSUME NEW self, LexerSound(self), LexerOnText(self), NotDecoded(self)
  PROVE  LET there == ts_lexer_start(self) IN
         LexerSound(there) /\ Decoded(there) /\ LexerOnText(there) /\ TokenOnText(there)
<1> DEFINE there == ts_lexer_start(self)
           begin == [self EXCEPT !.token_start = self.pos, !.token_end = LENGTH_UNDEFINED,
                                 !.did_get_column = FALSE]
           chunked == IF HasChunk(begin) THEN begin ELSE ts_lexer__get_chunk(begin)
           ready == IF chunked.lookahead_size > 0 THEN chunked
                    ELSE ts_lexer__get_lookahead(chunked)
<1>t. /\ self \in LexerRecord /\ self.pos \in Place /\ OnText(self.text, self.pos)
      /\ LexerTyped(self)
  BY DEF LexerSound, Positioned, LexerTyped, LexerRecord, LexerOnText
<1>u. LENGTH_UNDEFINED \in Place
  BY Widths DEF LENGTH_UNDEFINED, Len3, Point, Place
<1>1. there = IF ts_lexer__eof(self) THEN begin
              ELSE IF self.pos.bytes = 0 /\ ready.lookahead = BYTE_ORDER_MARK
              THEN ts_lexer__advance(ready, TRUE) ELSE ready
  BY DEF ts_lexer_start
<1>2. begin = Tokened(self, self.pos, LENGTH_UNDEFINED, FALSE)
  BY DEF Tokened
<1> HIDE DEF there, begin
<1>3. /\ begin.text = self.text /\ begin.pos = self.pos /\ begin.chunk_size = self.chunk_size
      /\ begin.token_start = self.pos /\ begin.token_end = LENGTH_UNDEFINED
      /\ begin.lookahead = self.lookahead /\ begin.lookahead_size = self.lookahead_size
  BY <1>t, <1>u, <1>2, SetToken
<1>4. /\ LexerSound(begin) /\ LexerOnText(begin)
      /\ (ts_lexer__eof(begin) <=> ts_lexer__eof(self)) /\ (HasChunk(begin) <=> HasChunk(self))
  BY <1>t, <1>u, <1>2, TokenedSound
<1>5. CASE ts_lexer__eof(self)
  <2>1. there = begin
    BY <1>1, <1>5
  <2>2. Decoded(begin)
    BY <1>3, <1>4, <1>5 DEF NotDecoded, Decoded
  <2>3. TokenOnText(begin)
    BY <1>3, <1>t DEF TokenOnText
  <2>. QED BY <2>1, <2>2, <2>3, <1>4 DEF there
<1>6. CASE ~ts_lexer__eof(self)
  <2>1. self.lookahead_size = 0 /\ ~ts_lexer__eof(begin) /\ Positioned(begin)
    BY <1>6, <1>4 DEF NotDecoded, LexerSound
  <2>2. /\ LexerSound(chunked) /\ chunked.text = self.text /\ chunked.pos = self.pos
        /\ chunked.ranges = begin.ranges
        /\ chunked.token_start = self.pos /\ chunked.token_end = LENGTH_UNDEFINED
        /\ chunked.lookahead_size = 0
        /\ \/ HasChunk(chunked)
           \/ /\ ts_lexer__eof(chunked) /\ chunked.chunk_size = 0
              /\ chunked.chunk_start = chunked.pos.bytes
    <3>1. CASE HasChunk(begin)
      BY <3>1, <1>3, <1>4, <2>1
    <3>2. CASE ~HasChunk(begin)
      <4>1. chunked = ts_lexer__get_chunk(begin)
        BY <3>2
      <4> HIDE DEF chunked
      <4>2. begin.pos.bytes \in Nat /\ Len(begin.text) \in Nat
        BY <1>t, <1>3, LexerFields
      <4>3. begin.pos.bytes < Len(begin.text) \/ Len(begin.text) <= begin.pos.bytes
        BY <4>2
      <4>. QED BY <4>1, <4>3, <2>1, <1>3, GetChunkSound
    <3>. QED BY <3>1, <3>2
  <2>c. LexerOnText(chunked)
    BY <1>4, <2>1, GetChunkOnText
  <2> HIDE DEF chunked
  <2>3. ready = ts_lexer__get_lookahead(chunked)
    BY <2>2
  <2> HIDE DEF ready
  <2>4. /\ LexerSound(ready) /\ Decoded(ready)
        /\ ready.text = chunked.text /\ ready.ranges = chunked.ranges /\ ready.pos = chunked.pos
        /\ ready.token_start = chunked.token_start /\ ready.token_end = chunked.token_end
        /\ ready.range_index = chunked.range_index
    BY <2>2, <2>3, GetLookaheadSound
  <2>5. LexerOnText(ready) /\ TokenOnText(ready)
    <3>1. LexerOnText(ready)
      BY <2>4, <2>c, SameOnText DEF ts_lexer__eof
    <3>. QED BY <3>1, <2>2, <2>4, <1>t DEF TokenOnText
  <2>6. CASE self.pos.bytes = 0 /\ ready.lookahead = BYTE_ORDER_MARK
    <3>1. there = ts_lexer__advance(ready, TRUE)
      BY <1>1, <1>6, <2>6
    <3>. QED BY <3>1, <2>4, <2>5, AdvanceSound DEF there
  <2>7. CASE ~(self.pos.bytes = 0 /\ ready.lookahead = BYTE_ORDER_MARK)
    <3>1. there = ready
      BY <1>1, <1>6, <2>7
    <3>. QED BY <3>1, <2>4, <2>5 DEF there
  <2>. QED BY <2>6, <2>7
<1>. QED BY <1>5, <1>6

(* The start of the row of a place is on the text.                         *)
LEMMA RowStartOnText ==
  ASSUME NEW text \in Seq(Bytes), NEW pos, OnText(text, pos), Len(text) < UINT32_MAX
  PROVE  LET row_start == Len3(pos.bytes - pos.col, Point(pos.row, 0)) IN
         row_start \in Place /\ OnText(text, row_start) /\ row_start.bytes <= pos.bytes
<1> DEFINE b == pos.bytes
           r == RowStart(text, b)
           row_start == Len3(pos.bytes - pos.col, Point(pos.row, 0))
<1>1. b \in Nat /\ Len(text) \in Nat /\ b <= Len(text) /\ pos = PositionOf(text, b)
  BY OnTextByte
<1>2. /\ r \in 0..b /\ (r = 0 \/ text[r] = "n")
      /\ \A i \in (r + 1)..b : text[i] # "n"
  BY <1>1, RowStartExists
<1>3. pos.row = Cardinality(Newlines(text, b)) /\ pos.col = b - r
  <2> HIDE DEF b
  <2>1. PositionOf(text, b) = [bytes |-> b, row |-> Cardinality(Newlines(text, b)), col |-> b - r]
    BY <1>1, PositionFields
  <2> HIDE DEF r
  <2>. QED BY <1>1, <2>1
<1> HIDE DEF r
<1>4. RowStart(text, r) = r
  BY <1>1, <1>2, RowStartUnique
<1>5. Newlines(text, r) = Newlines(text, b)
  BY <1>1, <1>2 DEF Newlines
<1>6. r \in Nat /\ r \in 0..UINT32_MAX /\ r \in 0..Len(text) /\ b - (b - r) = r /\ r - r = 0
  BY <1>1, <1>2, Widths
<1>7. PositionOf(text, r) = [bytes |-> r, row |-> Cardinality(Newlines(text, r)),
                             col |-> r - RowStart(text, r)]
  BY <1>6, PositionFields
<1>8. row_start = PositionOf(text, r)
  BY <1>3, <1>4, <1>5, <1>6, <1>7 DEF Len3, Point
<1>9. row_start.bytes = r /\ PositionOf(text, r) \in Place
  BY <1>3, <1>6, PositionPlace DEF Len3, Point
<1>10. r \in Boundaries(text) /\ r <= b
  BY <1>1, <1>2, <1>6, BoundaryInText
<1> HIDE DEF row_start
<1>. QED BY <1>8, <1>9, <1>10 DEF OnText, row_start

(* The characters from one byte to another that are included.              *)
CharactersFrom(self, from, to) ==
  {b \in Boundaries(self.text) : from <= b /\ b < to /\ InRanges(b, self.ranges)}

(* There are finitely many.                                                *)
LEMMA CharactersFinite ==
  ASSUME NEW self, self.text \in Seq(Bytes), NEW from, NEW to
  PROVE  IsFiniteSet(CharactersFrom(self, from, to))
<1>1. CharactersFrom(self, from, to) \subseteq 0..Len(self.text)
  BY BoundaryInText DEF CharactersFrom
<1>2. IsFiniteSet(0..Len(self.text))
  BY FS_Interval
<1>. QED BY <1>1, <1>2, FS_Subset

(* The bytes at which a lexer may stand: characters that are included, and *)
(* the end of the input.                                                   *)
CanStand(self, b) ==
  b \in Boundaries(self.text) /\ (InRanges(b, self.ranges) \/ b = InputEnd(self))

(* It does stand at such a byte; all of them are up to the end.            *)
LEMMA StandsThere ==
  ASSUME NEW self, LexerSound(self), LexerOnText(self)
  PROVE  /\ CanStand(self, self.pos.bytes)
         /\ ~ts_lexer__eof(self) => InRanges(self.pos.bytes, self.ranges)
         /\ \A b : CanStand(self, b) => b \in Nat /\ b <= InputEnd(self)
<1>t. /\ LexerTyped(self) /\ self.text \in Seq(Bytes) /\ Len(self.ranges) \in Nat
      /\ DOMAIN self.ranges = 1..Len(self.ranges) /\ self.pos.bytes \in Boundaries(self.text)
  BY LexerFields, OnTextByte DEF LexerSound, Positioned, LexerOnText
<1>1. ~ts_lexer__eof(self) => InRanges(self.pos.bytes, self.ranges)
  BY <1>t DEF LexerSound, Positioned, ts_lexer__eof, InRanges
<1>2. ts_lexer__eof(self) => self.pos.bytes = InputEnd(self)
  BY DEF LexerOnText
<1>3. ASSUME NEW b, CanStand(self, b) PROVE b \in Nat /\ b <= InputEnd(self)
  <2>1. b \in Nat /\ b <= Len(self.text)
    BY <1>3, <1>t, BoundaryInText DEF CanStand
  <2>2. CASE InRanges(b, self.ranges)
    <3>1. \E k \in 1..Len(self.ranges) : b < self.ranges[k].end.bytes
      BY <2>2, <1>t DEF InRanges
    <3>. QED BY <2>1, <3>1, <1>t, InputEndBounds
  <2>3. CASE b = InputEnd(self)
    BY <2>1, <2>3
  <2>. QED BY <2>2, <2>3, <1>3 DEF CanStand
<1>. QED BY <1>t, <1>1, <1>2, <1>3 DEF CanStand

(* Walking the row, round by round, the lexer stays on the text and looks  *)
(* at the character that is there; the token is left alone.                *)
OnTheRow(self, l) ==
  /\ LexerSound(l) /\ Decoded(l) /\ LexerOnText(l)
  /\ l.text = self.text /\ l.ranges = self.ranges
  /\ l.token_start = self.token_start /\ l.token_end = self.token_end

(* The loop invariant of ts_lexer__get_column: the walk has not passed the *)
(* byte it goes to, and has counted the characters up to where it is.      *)
RowCounted(self, goal, w) ==
  /\ OnTheRow(self, w.lexer)
  /\ self.pos.bytes <= w.lexer.pos.bytes /\ w.lexer.pos.bytes <= goal
  /\ w.column = Cardinality(CharactersFrom(self, self.pos.bytes, w.lexer.pos.bytes))

(* When the loop ends.                                                     *)
RowDone(w, goal) == w.lexer.pos.bytes >= goal \/ ~HasChunk(w.lexer) \/ ts_lexer__eof(w.lexer)

(* A round keeps the invariant, and passes a byte or more.                 *)
LEMMA ColumnRoundSound ==
  ASSUME NEW self, self.text \in Seq(Bytes), self.pos.bytes \in Nat,
         NEW goal, goal \in Nat, CanStand(self, goal),
         NEW w, w.column \in Nat, RowCounted(self, goal, w)
  PROVE  LET next == ColumnRound(w, goal) IN
         /\ RowDone(w, goal) => next = w
         /\ ~RowDone(w, goal) => /\ next = [lexer |-> next.lexer, column |-> w.column + 1]
                                 /\ RowCounted(self, goal, next)
                                 /\ w.lexer.pos.bytes + 1 <= next.lexer.pos.bytes
<1>1. CASE RowDone(w, goal)
  BY <1>1 DEF ColumnRound, RowDone
<1>2. CASE ~RowDone(w, goal)
  <2> DEFINE l == w.lexer
             m == ts_lexer__do_advance(l, FALSE)
             next == ColumnRound(w, goal)
             first == self.pos.bytes
             p == l.pos.bytes
             q == m.pos.bytes
  <2>1. next = [lexer |-> m, column |-> w.column + 1]
    BY <1>2 DEF ColumnRound, RowDone
  <2>2. /\ OnTheRow(self, l) /\ HasChunk(l) /\ ~ts_lexer__eof(l) /\ ~(p >= goal)
        /\ first <= p /\ p <= goal
        /\ w.column = Cardinality(CharactersFrom(self, first, p))
    BY <1>2 DEF RowDone, RowCounted
  <2> HIDE DEF l
  <2>3. /\ LexerSound(l) /\ Decoded(l) /\ LexerOnText(l)
        /\ l.text = self.text /\ l.ranges = self.ranges
        /\ l.token_start = self.token_start /\ l.token_end = self.token_end
    BY <2>2 DEF OnTheRow
  <2>4. /\ LexerSound(m) /\ Decoded(m) /\ LexerOnText(m)
        /\ m.text = l.text /\ m.ranges = l.ranges
        /\ m.token_end = l.token_end /\ m.token_start = l.token_start
        /\ m.pos = AdvancedTo(l)
    BY <2>2, <2>3, DoAdvanceSound
  <2>5. /\ p < q
        /\ \A b \in Boundaries(self.text) : p < b /\ b < q => ~InRanges(b, self.ranges)
    BY <2>2, <2>3, <2>4, AdvancedPast
  <2> HIDE DEF m
  <2>6. OnTheRow(self, m)
    BY <2>3, <2>4 DEF OnTheRow
  <2>7. p \in Boundaries(self.text) /\ InRanges(p, self.ranges) /\ p \in Nat
    <3>1. CanStand(l, p) /\ InRanges(p, l.ranges) /\ p \in Nat
      BY <2>2, <2>3, StandsThere
    <3>. QED BY <3>1, <2>3 DEF CanStand
  <2>8. q \in Nat /\ q <= InputEnd(self)
    <3>1. CanStand(m, q) /\ q \in Nat /\ q <= InputEnd(m)
      BY <2>4, StandsThere
    <3>2. InputEnd(m) = InputEnd(self)
      BY <2>3, <2>4 DEF InputEnd
    <3>. QED BY <3>1, <3>2
  <2>9. q <= goal
    <3> SUFFICES ASSUME goal < q PROVE FALSE
      BY <2>8
    <3>1. goal \in Boundaries(self.text) /\ p < goal
      BY <2>2, <2>7 DEF CanStand
    <3>2. ~InRanges(goal, self.ranges)
      BY <2>5, <3>1
    <3>3. goal = InputEnd(self)
      BY <3>2 DEF CanStand
    <3>. QED BY <3>3, <2>8
  <2>10. /\ CharactersFrom(self, first, q) = CharactersFrom(self, first, p) \cup {p}
         /\ p \notin CharactersFrom(self, first, p)
    <3>1. p \notin CharactersFrom(self, first, p)
      BY <2>7 DEF CharactersFrom
    <3>2. p \in CharactersFrom(self, first, q)
      BY <2>2, <2>5, <2>7 DEF CharactersFrom
    <3>3. ASSUME NEW b \in CharactersFrom(self, first, p) PROVE b \in CharactersFrom(self, first, q)
      <4>1. b \in Boundaries(self.text) /\ first <= b /\ b < p /\ InRanges(b, self.ranges) /\ b \in Nat
        BY <3>3, BoundaryInText DEF CharactersFrom
      <4>2. b < q
        BY <4>1, <2>5, <2>7, <2>8
      <4>. QED BY <4>1, <4>2 DEF CharactersFrom
    <3>4. ASSUME NEW b \in CharactersFrom(self, first, q), b # p
          PROVE  b \in CharactersFrom(self, first, p)
      <4>1. b \in Boundaries(self.text) /\ first <= b /\ b < q /\ InRanges(b, self.ranges) /\ b \in Nat
        BY <3>4, BoundaryInText DEF CharactersFrom
      <4>2. ~(p < b)
        BY <4>1, <2>5
      <4>3. b < p
        BY <4>1, <4>2, <3>4, <2>7
      <4>. QED BY <4>1, <4>3 DEF CharactersFrom
    <3>. QED BY <3>1, <3>2, <3>3, <3>4
  <2>11. Cardinality(CharactersFrom(self, first, q)) = w.column + 1
    <3>1. IsFiniteSet(CharactersFrom(self, first, p))
      BY CharactersFinite
    <3>. QED BY <3>1, <2>2, <2>10, FS_AddElement
  <2>12. next.lexer = m /\ next.column = w.column + 1
    BY <2>1
  <2> HIDE DEF next
  <2>13. first <= q /\ p + 1 <= q
    BY <2>2, <2>5, <2>7, <2>8
  <2>14. RowCounted(self, goal, next)
    BY <2>6, <2>9, <2>11, <2>12, <2>13 DEF RowCounted
  <2>. QED BY <1>2, <2>1, <2>12, <2>13, <2>14 DEF next, l
<1>. QED BY <1>1, <1>2

(* The rounds are one loop; what every round keeps holds after any number  *)
(* of them.                                                                *)
LEMMA ColumnRoundsLoop ==
  ASSUME NEW self, NEW goal, NEW W
  PROVE  LET start == [lexer |-> self, column |-> 0]
             at == ColumnRounds(self, goal)
         IN  start \in W /\ (\A w \in W : ColumnRound(w, goal) \in W) =>
               /\ at[0] = start
               /\ \A n \in Nat : at[n + 1] = ColumnRound(at[n], goal)
               /\ \A n \in Nat : at[n] \in W
<1> DEFINE start == [lexer |-> self, column |-> 0]
           F == [w \in W |-> ColumnRound(w, goal)]
           Body(at) == [n \in Nat |-> IF n = 0 THEN start ELSE ColumnRound(at[n - 1], goal)]
           at == ColumnRounds(self, goal)
<1>0. SUFFICES ASSUME start \in W, \A w \in W : ColumnRound(w, goal) \in W
               PROVE  /\ at[0] = start
                      /\ \A n \in Nat : at[n + 1] = ColumnRound(at[n], goal)
                      /\ \A n \in Nat : at[n] \in W
  OBVIOUS
<1>1. start \in W
  BY <1>0
<1>2. F \in [W -> W]
  BY <1>0
<1>3. PICK f \in [Nat -> W] : f[0] = start /\ \A n \in Nat : f[n + 1] = F[f[n]]
  <2> HIDE DEF F, start
  <2>. QED BY <1>1, <1>2, LoopExists
<1>4. f = Body(f)
  <2>1. \A n \in Nat : f[n + 1] = ColumnRound(f[n], goal)
    BY <1>3
  <2> HIDE DEF start
  <2>2. ASSUME NEW n \in Nat PROVE f[n] = Body(f)[n]
    <3>1. CASE n = 0
      BY <3>1, <1>3
    <3>2. CASE n # 0
      <4>1. n - 1 \in Nat /\ (n - 1) + 1 = n
        BY <3>2
      <4>. QED BY <3>2, <4>1, <2>1
    <3>. QED BY <3>1, <3>2
  <2>3. f = [n \in Nat |-> f[n]] /\ Body(f) = [n \in Nat |-> Body(f)[n]]
    BY <1>3
  <2> HIDE DEF Body
  <2>. QED BY <2>2, <2>3
<1>5. at = Body(at)
  <2>1. at = CHOOSE g : g = Body(g)
    BY DEF ColumnRounds
  <2> HIDE DEF Body, at
  <2>. QED BY <1>4, <2>1
<1> HIDE DEF at, start
<1>6. at[0] = start /\ \A n \in Nat : at[n + 1] = ColumnRound(at[n], goal)
  <2>1. \A n \in Nat : at[n] = IF n = 0 THEN start ELSE ColumnRound(at[n - 1], goal)
    BY <1>5
  <2>2. \A n \in Nat : n + 1 \in Nat /\ n + 1 # 0 /\ (n + 1) - 1 = n
    OBVIOUS
  <2> HIDE DEF Body
  <2>. QED BY <2>1, <2>2
<1>7. \A n \in Nat : at[n] \in W
  <2> DEFINE S == {n \in Nat : at[n] \in W}
  <2>1. 0 \in S
    BY <1>1, <1>6
  <2>2. \A n \in Nat : n \in S => n + 1 \in S
    BY <1>0, <1>6
  <2>3. Nat \subseteq S
    <3> HIDE DEF S
    <3>. QED BY <2>1, <2>2, NatSetInduction
  <2>. QED BY <2>3
<1>. QED BY <1>6, <1>7 DEF at, start

(* Every round keeps the loop invariant.                                   *)
LEMMA ColumnRoundsSound ==
  ASSUME NEW self, LexerSound(self), Decoded(self), LexerOnText(self),
         NEW goal, goal \in Nat, CanStand(self, goal), self.pos.bytes <= goal
  PROVE  LET at == ColumnRounds(self, goal) IN
         /\ at[0] = [lexer |-> self, column |-> 0]
         /\ \A n \in Nat : at[n + 1] = ColumnRound(at[n], goal)
         /\ \A n \in Nat : at[n] \in [lexer : LexerRecord, column : Nat]
                              /\ RowCounted(self, goal, at[n])
<1> DEFINE W == {w \in [lexer : LexerRecord, column : Nat] : RowCounted(self, goal, w)}
           start == [lexer |-> self, column |-> 0]
           at == ColumnRounds(self, goal)
<1>t. self.text \in Seq(Bytes) /\ self.pos.bytes \in Nat /\ self \in LexerRecord
  BY LexerFields DEF LexerSound, Positioned, LexerTyped
<1>1. start \in W
  <2>1. CharactersFrom(self, self.pos.bytes, self.pos.bytes) = {}
    <3>1. \A b \in Boundaries(self.text) : b \in Nat
      BY <1>t, BoundaryInText
    <3>. QED BY <3>1, <1>t DEF CharactersFrom
  <2>2. Cardinality(CharactersFrom(self, self.pos.bytes, self.pos.bytes)) = 0
    BY <2>1, FS_EmptySet
  <2>3. OnTheRow(self, self)
    BY DEF OnTheRow
  <2>4. RowCounted(self, goal, start)
    BY <2>2, <2>3, <1>t DEF RowCounted
  <2>. QED BY <2>4, <1>t
<1>2. ASSUME NEW w \in W PROVE ColumnRound(w, goal) \in W
  <2> DEFINE next == ColumnRound(w, goal)
  <2>1. w.column \in Nat /\ RowCounted(self, goal, w)
    OBVIOUS
  <2>2. /\ RowDone(w, goal) => next = w
        /\ ~RowDone(w, goal) => /\ next = [lexer |-> next.lexer, column |-> w.column + 1]
                                /\ RowCounted(self, goal, next)
    <3> HIDE DEF W
    <3>. QED BY <2>1, <1>t, ColumnRoundSound
  <2> HIDE DEF next
  <2>3. CASE ~RowDone(w, goal)
    <3>1. next.lexer \in LexerRecord
      BY <2>2, <2>3 DEF RowCounted, OnTheRow, LexerSound, Positioned, LexerTyped
    <3>2. w.column + 1 \in Nat
      BY <2>1
    <3>. QED BY <2>2, <2>3, <3>1, <3>2 DEF next
  <2>. QED BY <2>2, <2>3 DEF next
<1>3. /\ at[0] = start /\ \A n \in Nat : at[n + 1] = ColumnRound(at[n], goal)
      /\ \A n \in Nat : at[n] \in W
  <2> HIDE DEF W
  <2>. QED BY <1>1, <1>2, ColumnRoundsLoop
<1> HIDE DEF at
<1>. QED BY <1>3 DEF at

(* The walk ends at the byte it goes to, after as many rounds as there are *)
(* bytes, and has counted the characters.                                  *)
LEMMA CountColumnsSound ==
  ASSUME NEW self, LexerSound(self), Decoded(self), LexerOnText(self),
         NEW goal, goal \in Nat, CanStand(self, goal), self.pos.bytes <= goal
  PROVE  LET end == CountColumns(self, goal) IN
         /\ OnTheRow(self, end.lexer) /\ end.lexer.pos.bytes = goal
         /\ end.column = Cardinality(CharactersFrom(self, self.pos.bytes, goal))
<1> DEFINE W == {w \in [lexer : LexerRecord, column : Nat] : RowCounted(self, goal, w)}
           start == [lexer |-> self, column |-> 0]
           at == ColumnRounds(self, goal)
<1>t. self.text \in Seq(Bytes) /\ self.pos.bytes \in Nat /\ self \in LexerRecord
  BY LexerFields DEF LexerSound, Positioned, LexerTyped
<1>3. /\ at[0] = start /\ \A n \in Nat : at[n + 1] = ColumnRound(at[n], goal)
      /\ \A n \in Nat : at[n] \in W
  BY ColumnRoundsSound
<1> HIDE DEF at, start, W
<1>4. \A n \in Nat : n <= at[n].lexer.pos.bytes \/ RowDone(at[n], goal)
  <2> DEFINE S == {n \in Nat : n <= at[n].lexer.pos.bytes \/ RowDone(at[n], goal)}
  <2>1. 0 \in S
    <3>1. at[0].lexer.pos.bytes = self.pos.bytes
      BY <1>3 DEF start
    <3>2. 0 <= self.pos.bytes
      BY <1>t
    <3>. QED BY <3>1, <3>2
  <2>2. ASSUME NEW n \in Nat, n \in S PROVE n + 1 \in S
    <3> DEFINE w == at[n]
               next == at[n + 1]
    <3>1. next = ColumnRound(w, goal) /\ w.column \in Nat /\ RowCounted(self, goal, w)
      BY <1>3 DEF W
    <3>2. next.lexer.pos.bytes \in Nat /\ w.lexer.pos.bytes \in Nat
      <4>1. \A v \in W : v.lexer.pos.bytes \in Nat
        BY PlaceBytes DEF W, LexerRecord
      <4>. QED BY <4>1, <1>3
    <3>3. n <= w.lexer.pos.bytes \/ RowDone(w, goal)
      BY <2>2
    <3> HIDE DEF w, next
    <3>4. CASE RowDone(w, goal)
      <4>1. next = w
        BY <3>1, <3>4, <1>t, ColumnRoundSound
      <4>. QED BY <3>4, <4>1 DEF next
    <3>5. CASE ~RowDone(w, goal)
      <4>1. w.lexer.pos.bytes + 1 <= next.lexer.pos.bytes
        BY <3>1, <3>5, <1>t, ColumnRoundSound
      <4>2. n + 1 <= next.lexer.pos.bytes
        BY <3>2, <3>3, <3>5, <4>1
      <4>. QED BY <4>2 DEF next
    <3>. QED BY <3>4, <3>5
  <2>3. Nat \subseteq S
    <3> HIDE DEF S
    <3>. QED BY <2>1, <2>2, NatSetInduction
  <2>. QED BY <2>3
<1> DEFINE end == CountColumns(self, goal)
           e == end.lexer
<1>5. RowCounted(self, goal, end) /\ (goal <= e.pos.bytes \/ RowDone(end, goal))
  BY <1>3, <1>4 DEF CountColumns, at, W
<1> HIDE DEF end
<1>6. /\ OnTheRow(self, e) /\ e.pos.bytes <= goal
       /\ end.column = Cardinality(CharactersFrom(self, self.pos.bytes, e.pos.bytes))
       /\ LexerSound(e) /\ Decoded(e) /\ LexerOnText(e)
       /\ e.text = self.text /\ e.ranges = self.ranges
  BY <1>5 DEF RowCounted, OnTheRow
<1>7. e.pos.bytes \in Nat
  BY <1>6, StandsThere
<1>8. CASE goal <= e.pos.bytes \/ e.pos.bytes >= goal
  <2>1. e.pos.bytes = goal
    BY <1>6, <1>7, <1>8
  <2>. QED BY <2>1, <1>6 DEF end
<1>9. CASE ts_lexer__eof(e) \/ ~HasChunk(e)
  <2>1. ts_lexer__eof(e)
    BY <1>6, <1>9 DEF Decoded
  <2>2. e.pos.bytes = InputEnd(e) /\ InputEnd(e) = InputEnd(self)
    BY <1>6, <2>1 DEF LexerOnText, InputEnd
  <2>3. goal <= InputEnd(self)
    BY StandsThere
  <2>4. e.pos.bytes = goal
    BY <2>2, <2>3, <1>6, <1>7
  <2>. QED BY <2>4, <1>6 DEF end
<1>. QED BY <1>5, <1>8, <1>9 DEF RowDone

(* The lexer that ts_lexer__get_column walks from.                         *)
AtRowStart(self) ==
  ts_lexer__get_chunk(ts_lexer_goto([self EXCEPT !.did_get_column = TRUE],
                                    Len3(self.pos.bytes - self.pos.col, Point(self.pos.row, 0))))

(* It goes to the start of the row or, past what is not included, behind   *)
(* it.                                                                     *)
LEMMA GetColumnBegins ==
  ASSUME NEW self, LexerSound(self), LexerOnText(self), TokenOnText(self),
         ~ts_lexer__eof(ts_lexer_goto(self, Len3(self.pos.bytes - self.pos.col,
                                                 Point(self.pos.row, 0))))
  PROVE  LET there == AtRowStart(self)
             row == self.pos.bytes - self.pos.col
         IN  /\ LexerSound(there) /\ LexerOnText(there) /\ TokenOnText(there)
             /\ there.text = self.text /\ there.ranges = self.ranges
             /\ IF ts_lexer__eof(there) THEN Decoded(there) ELSE HasChunk(there)
             /\ row \in Nat /\ row <= self.pos.bytes /\ row <= there.pos.bytes
             /\ \A b \in Nat : row <= b /\ b < there.pos.bytes => ~InRanges(b, self.ranges)
             /\ ts_lexer__get_column(self) =
                  IF ts_lexer__eof(there) THEN [lexer |-> there, column |-> 0]
                  ELSE CountColumns(ts_lexer__get_lookahead(there), self.pos.bytes)
<1> DEFINE row_start == Len3(self.pos.bytes - self.pos.col, Point(self.pos.row, 0))
           asked == [self EXCEPT !.did_get_column = TRUE]
           at == ts_lexer_goto(asked, row_start)
           there == ts_lexer__get_chunk(at)
           row == self.pos.bytes - self.pos.col
<1>t. /\ self \in LexerRecord /\ self.token_start \in Place /\ self.token_end \in Place
      /\ LexerTyped(self) /\ self.pos.bytes \in Nat /\ self.text \in Seq(Bytes)
      /\ Len(self.text) < UINT32_MAX
      /\ RangesOnText(self.text, self.ranges) /\ OnText(self.text, self.pos)
  <2>1. LexerTyped(self) /\ RangesOnText(self.text, self.ranges) /\ OnText(self.text, self.pos)
    BY DEF LexerSound, Positioned, LexerOnText
  <2>2. self \in LexerRecord /\ Len(self.text) < UINT32_MAX
    BY <2>1 DEF LexerTyped
  <2>3. self.token_start \in Place /\ self.token_end \in Place
    BY <2>2 DEF LexerRecord
  <2>. QED BY <2>1, <2>2, <2>3, LexerFields
<1>1. /\ row_start \in Place /\ OnText(self.text, row_start) /\ row_start.bytes <= self.pos.bytes
      /\ row_start.bytes = row
  <2>1. row_start.bytes = row
    BY DEF Len3
  <2>. QED BY <2>1, <1>t, RowStartOnText
<1>2. asked = Tokened(self, self.token_start, self.token_end, TRUE)
  BY <1>t DEF Tokened, LexerRecord
<1>3. /\ there = AtRowStart(self)
      /\ ts_lexer__get_column(self) =
           IF ts_lexer__eof(there) THEN [lexer |-> there, column |-> 0]
           ELSE CountColumns(ts_lexer__get_lookahead(there), self.pos.bytes)
  BY DEF ts_lexer__get_column, AtRowStart
<1> HIDE DEF row_start, asked
<1>4. /\ LexerSound(asked) /\ asked.text = self.text /\ asked.ranges = self.ranges
      /\ asked.token_start = self.token_start /\ asked.token_end = self.token_end
  <2>1. self \in LexerRecord /\ self.token_start \in Place /\ self.token_end \in Place
    BY <1>t
  <2>2. LexerSound(asked)
    BY <2>1, <1>2, TokenedSound
  <2>3. /\ asked.text = self.text /\ asked.ranges = self.ranges
        /\ asked.token_start = self.token_start /\ asked.token_end = self.token_end
    BY <2>1, <1>2, SetToken
  <2>. QED BY <2>2, <2>3
<1>5. LexerTyped(asked) /\ (HasChunk(asked) => ChunkInText(asked))
  BY <1>4 DEF LexerSound, Positioned
<1>6. /\ LexerSound(at) /\ at.lookahead = NUL
      /\ at.text = self.text /\ at.ranges = self.ranges /\ LexerOnText(at)
      /\ at.token_start = self.token_start /\ at.token_end = self.token_end
  BY <1>1, <1>4, <1>5, <1>t, GotoSound
<1>7. ~ts_lexer__eof(at)
  <2> DEFINE Left == \E i \in DOMAIN self.ranges :
                        /\ self.ranges[i].end.bytes > row_start.bytes
                        /\ self.ranges[i].end.bytes > self.ranges[i].start.bytes
  <2>1. ts_lexer__eof(ts_lexer_goto(self, row_start)) <=> ~Left
    <3>1. HasChunk(self) => ChunkInText(self)
      BY DEF LexerSound
    <3>. QED BY <1>1, <1>t, <3>1, GotoSound
  <2>2. ts_lexer__eof(at) <=> ~Left
    BY <1>1, <1>4, <1>5, GotoSound
  <2>3. ~ts_lexer__eof(ts_lexer_goto(self, row_start))
    BY DEF row_start
  <2>. QED BY <2>1, <2>2, <2>3
<1>g. /\ row <= at.pos.bytes
      /\ \A b \in Nat : row <= b /\ b < at.pos.bytes => ~InRanges(b, self.ranges)
  <2> HIDE DEF row
  <2>. QED BY <1>1, <1>4, <1>5, <1>7, GotoSound
<1> HIDE DEF at
<1>8. /\ LexerSound(there) /\ there.lookahead = NUL
      /\ there.text = at.text /\ there.ranges = at.ranges /\ there.pos = at.pos
      /\ there.token_start = at.token_start /\ there.token_end = at.token_end
      /\ HasChunk(there) \/ ts_lexer__eof(there)
      /\ LexerOnText(there)
  <2>1. Positioned(at) /\ LexerTyped(at)
    BY <1>6 DEF LexerSound, Positioned
  <2>2. at.pos.bytes \in Nat /\ Len(at.text) \in Nat
    BY <2>1, LexerFields
  <2>3. at.pos.bytes < Len(at.text) \/ Len(at.text) <= at.pos.bytes
    BY <2>2
  <2>4. LexerOnText(there)
    BY <1>6, <1>7, <2>1, GetChunkOnText
  <2>. QED BY <1>6, <1>7, <2>1, <2>3, <2>4, GetChunkSound
<1> HIDE DEF there
<1>9. TokenOnText(there)
  BY <1>6, <1>8 DEF TokenOnText
<1>10. IF ts_lexer__eof(there) THEN Decoded(there) ELSE HasChunk(there)
  <2> SUFFICES ASSUME ts_lexer__eof(there) PROVE Decoded(there)
    BY <1>8
  <2>1. there.chunk_size \in Nat /\ ~HasChunk(there)
    BY <1>8, LexerFields DEF LexerSound, Positioned
  <2>2. there.chunk_size = 0
    BY <2>1 DEF HasChunk
  <2>. QED BY <1>8, <2>2 DEF Decoded
<1>11. row \in Nat
  <2>1. row_start.bytes \in Nat
    BY <1>1, <1>t, OnTextByte
  <2> HIDE DEF row
  <2>. QED BY <1>1, <2>1
<1> HIDE DEF row
<1>. QED BY <1>1, <1>3, <1>6, <1>8, <1>9, <1>10, <1>11, <1>g DEF row

(* ts_lexer__get_column walks the row again from its start and, where an   *)
(* included range is left there, comes to stand where it stood; its answer *)
(* is the number of characters on the way that are included.               *)
LEMMA GetColumnSound ==
  ASSUME NEW self, LexerSound(self), LexerOnText(self), TokenOnText(self),
         ~ts_lexer__eof(ts_lexer_goto(self, Len3(self.pos.bytes - self.pos.col,
                                                 Point(self.pos.row, 0))))
  PROVE  LET result == ts_lexer__get_column(self)
             there == result.lexer
         IN  /\ LexerSound(there) /\ Decoded(there) /\ LexerOnText(there) /\ TokenOnText(there)
             /\ there.text = self.text /\ there.ranges = self.ranges
             /\ there.pos.bytes = self.pos.bytes
             /\ result.column = Cardinality(CharactersFrom(self, self.pos.bytes - self.pos.col,
                                                           self.pos.bytes))
<1> DEFINE begin == AtRowStart(self)
           first == ts_lexer__get_lookahead(begin)
           result == ts_lexer__get_column(self)
           there == result.lexer
           row == self.pos.bytes - self.pos.col
           goal == self.pos.bytes
           from == begin.pos.bytes
<1>1. /\ LexerSound(begin) /\ LexerOnText(begin) /\ TokenOnText(begin)
      /\ begin.text = self.text /\ begin.ranges = self.ranges
      /\ IF ts_lexer__eof(begin) THEN Decoded(begin) ELSE HasChunk(begin)
      /\ row \in Nat /\ row <= goal /\ row <= from
      /\ \A b \in Nat : row <= b /\ b < from => ~InRanges(b, self.ranges)
      /\ result = IF ts_lexer__eof(begin) THEN [lexer |-> begin, column |-> 0]
                  ELSE CountColumns(first, goal)
  BY GetColumnBegins
<1> HIDE DEF begin, result, row
<1>2. /\ goal \in Nat /\ CanStand(self, goal) /\ goal <= InputEnd(self)
      /\ from \in Nat /\ from <= InputEnd(self) /\ self.text \in Seq(Bytes)
  <2>1. InputEnd(begin) = InputEnd(self)
    BY <1>1 DEF InputEnd
  <2>2. goal \in Nat /\ CanStand(self, goal) /\ goal <= InputEnd(self)
    BY StandsThere
  <2>3. from \in Nat /\ from <= InputEnd(begin)
    BY <1>1, StandsThere
  <2>4. self.text \in Seq(Bytes)
    BY LexerFields DEF LexerSound, Positioned
  <2>. QED BY <2>1, <2>2, <2>3, <2>4
<1> HIDE DEF goal, from
<1>3. from <= goal
  <2> SUFFICES ASSUME goal < from PROVE FALSE
    BY <1>2
  <2>1. ~InRanges(goal, self.ranges)
    BY <1>1, <1>2
  <2>2. goal = InputEnd(self)
    BY <2>1, <1>2 DEF CanStand
  <2>. QED BY <2>2, <1>2
<1>4. CharactersFrom(self, row, goal) = CharactersFrom(self, from, goal)
  <2>1. \A b \in Boundaries(self.text) : b \in Nat
    BY <1>2, BoundaryInText
  <2>2. ASSUME NEW b \in Boundaries(self.text), InRanges(b, self.ranges)
        PROVE  row <= b <=> from <= b
    BY <2>1, <2>2, <1>1, <1>2
  <2>. QED BY <2>2 DEF CharactersFrom
<1>5. CASE ts_lexer__eof(begin)
  <2>1. there = begin /\ result.column = 0
    BY <1>1, <1>5
  <2>2. from = goal
    <3>1. from = InputEnd(begin) /\ InputEnd(begin) = InputEnd(self)
      BY <1>1, <1>5 DEF LexerOnText, InputEnd, from
    <3>. QED BY <3>1, <1>2, <1>3
  <2>3. CharactersFrom(self, from, goal) = {}
    <3>1. \A b \in Boundaries(self.text) : b \in Nat
      BY <1>2, BoundaryInText
    <3>. QED BY <2>2, <3>1, <1>2 DEF CharactersFrom
  <2>4. Cardinality(CharactersFrom(self, row, goal)) = 0
    BY <2>3, <1>4, FS_EmptySet
  <2>. QED BY <2>1, <2>2, <2>4, <1>1, <1>5 DEF result, row, goal, from
<1>6. CASE ~ts_lexer__eof(begin)
  <2>1. result = CountColumns(first, goal)
    BY <1>1, <1>6
  <2>2. /\ LexerSound(first) /\ Decoded(first)
        /\ first.text = begin.text /\ first.ranges = begin.ranges /\ first.pos = begin.pos
        /\ first.token_start = begin.token_start /\ first.token_end = begin.token_end
        /\ first.range_index = begin.range_index
    BY <1>1, <1>6, GetLookaheadSound
  <2> HIDE DEF first
  <2>3. LexerOnText(first)
    BY <1>1, <2>2, SameOnText DEF ts_lexer__eof
  <2>4. CanStand(first, goal) /\ first.pos.bytes <= goal
    BY <1>1, <1>2, <1>3, <2>2 DEF CanStand, InputEnd, from
  <2>5. /\ OnTheRow(first, there) /\ there.pos.bytes = goal
        /\ result.column = Cardinality(CharactersFrom(first, first.pos.bytes, goal))
    BY <2>1, <2>2, <2>3, <2>4, <1>2, CountColumnsSound
  <2>6. CharactersFrom(first, first.pos.bytes, goal) = CharactersFrom(self, row, goal)
    BY <1>1, <1>4, <2>2 DEF CharactersFrom, from
  <2>7. TokenOnText(there)
    BY <2>5, <2>2, <1>1 DEF OnTheRow, TokenOnText
  <2>. QED BY <2>5, <2>6, <2>7, <2>2, <1>1 DEF OnTheRow, result, row, goal
<1>. QED BY <1>5, <1>6

(* The lexer goes back to a place after which no included range is left:   *)
(* it is at its end, and has a chunk if the text goes on.                  *)
LEMMA BackAtEnd ==
  ASSUME NEW self, LexerSound(self), NEW place \in Place, ts_lexer__eof(ts_lexer_goto(self, place))
  PROVE  LET there == ts_lexer__get_chunk(
                        ts_lexer_goto([self EXCEPT !.did_get_column = TRUE], place))
         IN  /\ Positioned(there) /\ ts_lexer__eof(there) /\ there.lookahead = NUL
             /\ there.text = self.text /\ there.ranges = self.ranges
             /\ there.token_start = self.token_start /\ there.token_end = self.token_end
             /\ there.pos = GotoPlace(self.ranges, place)
             /\ HasChunk(there) <=> there.pos.bytes < Len(self.text)
             /\ ~HasChunk(there) => LexerSound(there) /\ Decoded(there)
             /\ ~RangeLeft(self.ranges, place.bytes)
             /\ RangesOnText(self.text, self.ranges) /\ OnText(self.text, place)
                  => LexerOnText(there)
<1> DEFINE asked == [self EXCEPT !.did_get_column = TRUE]
           at == ts_lexer_goto(asked, place)
           there == ts_lexer__get_chunk(at)
<1>1. self \in LexerRecord /\ self.token_start \in Place /\ self.token_end \in Place
  BY DEF LexerSound, Positioned, LexerTyped, LexerRecord
<1>2. asked = Tokened(self, self.token_start, self.token_end, TRUE)
  BY <1>1 DEF Tokened, LexerRecord
<1> HIDE DEF asked
<1>3. LexerSound(asked)
  BY <1>1, <1>2, TokenedSound
<1>4. /\ asked.text = self.text /\ asked.ranges = self.ranges
      /\ asked.token_start = self.token_start /\ asked.token_end = self.token_end
  BY <1>1, <1>2, SetToken
<1>5. LexerTyped(asked) /\ (HasChunk(asked) => ChunkInText(asked))
  BY <1>3 DEF LexerSound, Positioned
<1>6. ~RangeLeft(self.ranges, place.bytes)
  <2>1. LexerTyped(self) /\ (HasChunk(self) => ChunkInText(self))
    BY DEF LexerSound, Positioned
  <2>. QED BY <2>1, GotoSound DEF RangeLeft
<1>7. /\ LexerSound(at) /\ at.lookahead = NUL
      /\ at.text = self.text /\ at.ranges = self.ranges
      /\ at.token_start = self.token_start /\ at.token_end = self.token_end
      /\ at.pos = GotoPlace(self.ranges, place)
      /\ RangesOnText(self.text, self.ranges) /\ OnText(self.text, place) => LexerOnText(at)
  BY <1>4, <1>5, GotoSound
<1>8. ts_lexer__eof(at)
  BY <1>4, <1>5, <1>6, GotoSound DEF RangeLeft
<1> HIDE DEF at
<1>9. /\ there.text = at.text /\ there.ranges = at.ranges /\ there.pos = at.pos
      /\ there.token_start = at.token_start /\ there.token_end = at.token_end
      /\ there.lookahead = NUL /\ there.range_index = Len(at.ranges) + 1
      /\ there.chunk_size \in Nat /\ (there.chunk_size > 0 <=> at.pos.bytes < Len(at.text))
      /\ there \in LexerRecord
  <2> DEFINE rest == Len(at.text) - at.pos.bytes
             size == IF rest <= 0 THEN 0 ELSE IF rest < ChunkSize THEN rest ELSE ChunkSize
             index == IF size = 0 THEN Len(at.ranges) + 1 ELSE at.range_index
             b == at.pos.bytes
  <2>1. /\ at \in LexerRecord /\ at.pos.bytes \in Nat /\ Len(at.text) \in Nat
        /\ Len(at.ranges) \in Nat
    BY <1>7, LexerFields DEF LexerSound, Positioned, LexerTyped
  <2>2. size \in Nat /\ (size > 0 <=> at.pos.bytes < Len(at.text))
    BY <2>1, ChunkAssumption
  <2>3. index = Len(at.ranges) + 1
    BY <1>8 DEF ts_lexer__eof
  <2>4. there = Chunked(at, b, size, index)
    BY DEF ts_lexer__get_chunk, Chunked
  <2>5. at \in LexerRecord /\ b \in Nat /\ size \in Nat /\ index \in Nat
    BY <2>1, <2>2, <2>3
  <2> HIDE DEF size, index, there, b
  <2>6. /\ there \in LexerRecord /\ there.chunk_size = size /\ there.range_index = index
        /\ there.text = at.text /\ there.ranges = at.ranges /\ there.pos = at.pos
        /\ there.token_start = at.token_start /\ there.token_end = at.token_end
        /\ there.lookahead = at.lookahead
    <3>1. Chunked(at, b, size, index) \in LexerRecord
      BY <2>5, SetChunk
    <3>. QED BY <2>4, <2>5, <3>1 DEF Chunked, LexerRecord
  <2>. QED BY <1>7, <2>2, <2>3, <2>6
<1>10. ts_lexer__eof(there)
  BY <1>9 DEF ts_lexer__eof
<1>11. Positioned(there)
  <2>1. LexerTyped(at) /\ Len(at.ranges) \in Nat
    BY <1>7, LexerFields DEF LexerSound, Positioned
  <2>2. LexerTyped(there)
    BY <1>9, <2>1 DEF LexerTyped
  <2>. QED BY <1>9, <1>10, <2>1, <2>2 DEF Positioned
<1>12. LexerOnText(at) => LexerOnText(there)
  BY <1>8, <1>9, SameOnText
<1>13. ASSUME ~HasChunk(there) PROVE LexerSound(there) /\ Decoded(there)
  <2>1. there.chunk_size = 0
    BY <1>9, <1>13 DEF HasChunk
  <2>. QED BY <1>9, <1>10, <1>11, <1>13, <2>1 DEF LexerSound, Decoded
<1>14. HasChunk(there) <=> there.pos.bytes < Len(self.text)
  BY <1>7, <1>9 DEF HasChunk
<1> HIDE DEF there
<1>. QED BY <1>6, <1>7, <1>9, <1>10, <1>11, <1>12, <1>13, <1>14 DEF there, at, asked

(* Where no included range is left after the start of the row, the lexer   *)
(* is at its end and stays there; it has a chunk then if the text goes on. *)
LEMMA GetColumnAtEnd ==
  ASSUME NEW self, LexerSound(self), LexerOnText(self), TokenOnText(self), Decoded(self),
         ts_lexer__eof(ts_lexer_goto(self, Len3(self.pos.bytes - self.pos.col,
                                                Point(self.pos.row, 0))))
  PROVE  LET result == ts_lexer__get_column(self)
             there == result.lexer
         IN  /\ Positioned(there) /\ LexerOnText(there) /\ TokenOnText(there)
             /\ there.text = self.text /\ there.ranges = self.ranges
             /\ there.token_start = self.token_start /\ there.token_end = self.token_end
             /\ there.pos = self.pos /\ there.range_index = self.range_index
             /\ there.lookahead = self.lookahead
             /\ ts_lexer__eof(there) /\ (HasChunk(there) <=> self.pos.bytes < Len(self.text))
             /\ ~HasChunk(there) => LexerSound(there) /\ Decoded(there)
             /\ ~RangeLeft(self.ranges, self.pos.bytes - self.pos.col)
             /\ result.column = Cardinality(CharactersFrom(self, self.pos.bytes - self.pos.col,
                                                           self.pos.bytes))
<1> DEFINE row_start == Len3(self.pos.bytes - self.pos.col, Point(self.pos.row, 0))
           there == AtRowStart(self)
           row == self.pos.bytes - self.pos.col
           n == Len(self.ranges)
<1>t. /\ LexerTyped(self) /\ self.pos.bytes \in Nat /\ self.text \in Seq(Bytes)
      /\ Len(self.text) < UINT32_MAX /\ Len(self.text) \in Nat
      /\ RangesOnText(self.text, self.ranges) /\ OnText(self.text, self.pos)
  <2>1. LexerTyped(self) /\ RangesOnText(self.text, self.ranges) /\ OnText(self.text, self.pos)
    BY DEF LexerSound, Positioned, LexerOnText
  <2>. QED BY <2>1, LexerFields DEF LexerTyped
<1>1. /\ row_start \in Place /\ OnText(self.text, row_start) /\ row_start.bytes <= self.pos.bytes
      /\ row_start.bytes = row
  <2>1. row_start.bytes = row
    BY DEF Len3
  <2>. QED BY <2>1, <1>t, RowStartOnText
<1>2. /\ there = ts_lexer__get_chunk(ts_lexer_goto([self EXCEPT !.did_get_column = TRUE],
                                                 row_start))
      /\ ts_lexer__get_column(self) =
           IF ts_lexer__eof(there) THEN [lexer |-> there, column |-> 0]
           ELSE CountColumns(ts_lexer__get_lookahead(there), self.pos.bytes)
  BY DEF ts_lexer__get_column, AtRowStart
<1>3. ts_lexer__eof(ts_lexer_goto(self, row_start))
  OBVIOUS
<1> HIDE DEF row_start, there
<1>4. /\ Positioned(there) /\ ts_lexer__eof(there) /\ there.lookahead = NUL
      /\ there.text = self.text /\ there.ranges = self.ranges
      /\ there.token_start = self.token_start /\ there.token_end = self.token_end
      /\ HasChunk(there) <=> there.pos.bytes < Len(self.text)
      /\ ~HasChunk(there) => LexerSound(there) /\ Decoded(there)
      /\ ~RangeLeft(self.ranges, row_start.bytes)
      /\ LexerOnText(there)
  BY <1>1, <1>2, <1>3, <1>t, BackAtEnd
<1>5. ts_lexer__eof(self)
  <2> SUFFICES ASSUME ~ts_lexer__eof(self) PROVE FALSE
    OBVIOUS
  <2> DEFINE i == self.range_index
  <2>1. /\ i \in 1 .. n + 1 /\ self.ranges[i].start.bytes <= self.pos.bytes
        /\ self.pos.bytes < self.ranges[i].end.bytes
    BY DEF LexerSound, Positioned
  <2>2. n \in Nat /\ DOMAIN self.ranges = 1..n
        /\ \A j \in 1..n : /\ self.ranges[j].start.bytes \in Nat
                           /\ self.ranges[j].end.bytes \in Nat
    BY <1>t, LexerFields
  <2>3. i \in 1..n
    BY <2>1, <2>2 DEF ts_lexer__eof
  <2>4. row_start.bytes \in Nat
    BY <1>1, <1>t, OnTextByte
  <2> HIDE DEF i, n
  <2>5. /\ self.ranges[i].end.bytes > row_start.bytes
        /\ self.ranges[i].end.bytes > self.ranges[i].start.bytes
    BY <1>1, <1>t, <2>1, <2>2, <2>3, <2>4
  <2>. QED BY <1>4, <2>2, <2>3, <2>5 DEF RangeLeft
<1>6. there.pos = self.pos /\ there.range_index = self.range_index
  <2>1. there.pos.bytes = self.pos.bytes
    BY <1>4, <1>5 DEF LexerOnText, InputEnd
  <2>2. there.pos = self.pos
    BY <2>1, <1>4 DEF LexerOnText, OnText
  <2>. QED BY <2>2, <1>4, <1>5 DEF ts_lexer__eof
<1>7. TokenOnText(there)
  BY <1>4 DEF TokenOnText
<1>8. self.lookahead = NUL
  BY <1>5 DEF Decoded
<1>9. CharactersFrom(self, row, self.pos.bytes) = {}
  <2> SUFFICES ASSUME NEW b \in Boundaries(self.text), row <= b, InRanges(b, self.ranges)
               PROVE  FALSE
    BY DEF CharactersFrom
  <2>1. PICK i \in DOMAIN self.ranges :
          self.ranges[i].start.bytes <= b /\ b < self.ranges[i].end.bytes
    BY DEF InRanges
  <2>2. b \in Nat /\ row_start.bytes \in Nat
    BY <1>1, <1>t, BoundaryInText, OnTextByte
  <2>3. self.ranges[i].start.bytes \in Nat /\ self.ranges[i].end.bytes \in Nat
    BY <1>t, <2>1, LexerFields
  <2> HIDE DEF row
  <2>4. /\ self.ranges[i].end.bytes > row_start.bytes
        /\ self.ranges[i].end.bytes > self.ranges[i].start.bytes
    BY <1>1, <2>1, <2>2, <2>3
  <2>. QED BY <1>4, <2>4 DEF RangeLeft
<1>10. Cardinality(CharactersFrom(self, row, self.pos.bytes)) = 0
  BY <1>9, FS_EmptySet
<1>11. /\ ts_lexer__get_column(self).lexer = there /\ ts_lexer__get_column(self).column = 0
  BY <1>2, <1>4
<1>12. ~RangeLeft(self.ranges, row)
  BY <1>1, <1>4
<1>. QED BY <1>4, <1>6, <1>7, <1>8, <1>10, <1>11, <1>12

(* Two lexers that look at the same character of the same text are in the  *)
(* same range.                                                             *)
LEMMA StandingUnique ==
  ASSUME NEW l, NEW m, LexerSound(l), LexerSound(m), LexerOnText(l), LexerOnText(m),
         Decoded(l), Decoded(m), l.text = m.text, l.ranges = m.ranges,
         l.pos.bytes = m.pos.bytes
  PROVE  l.pos = m.pos /\ l.range_index = m.range_index /\ l.lookahead = m.lookahead
<1> DEFINE b == l.pos.bytes
           n == Len(l.ranges)
<1>1. l.pos = m.pos
  BY DEF LexerOnText, OnText
<1>2. ASSUME NEW x, NEW y, LexerSound(x), LexerSound(y), LexerOnText(y),
             Decoded(x), x.text = y.text, x.ranges = y.ranges, x.pos.bytes = y.pos.bytes,
             ts_lexer__eof(y)
      PROVE  ts_lexer__eof(x)
  <2> SUFFICES ASSUME ~ts_lexer__eof(x) PROVE FALSE
    OBVIOUS
  <2> DEFINE c == x.pos.bytes
  <2>1. /\ LexerTyped(x) /\ c \in Nat /\ Len(x.text) \in Nat /\ Len(x.ranges) \in Nat
        /\ x.chunk_start \in Nat /\ x.chunk_size \in Nat
    BY <1>2, LexerFields DEF LexerSound, Positioned
  <2>2. x.range_index \in 1..Len(x.ranges) /\ c < x.ranges[x.range_index].end.bytes
    BY <2>1, <1>2 DEF LexerSound, Positioned, ts_lexer__eof
  <2>3. InChunk(x) /\ ChunkInText(x)
    BY <1>2 DEF Decoded, LexerSound
  <2>4. c < Len(x.text)
    BY <2>1, <2>3 DEF InChunk, ChunkInText
  <2>5. c < InputEnd(x)
    BY <2>1, <2>2, <2>4, InputEndBounds
  <2>6. c = InputEnd(y) /\ InputEnd(y) = InputEnd(x)
    BY <1>2 DEF LexerOnText, InputEnd
  <2>. QED BY <2>1, <2>5, <2>6
<1>3. CASE ts_lexer__eof(l) \/ ts_lexer__eof(m)
  <2>1. ts_lexer__eof(l) /\ ts_lexer__eof(m)
    BY <1>2, <1>3
  <2>. QED BY <2>1, <1>1 DEF ts_lexer__eof, Decoded
<1>4. CASE ~ts_lexer__eof(l) /\ ~ts_lexer__eof(m)
  <2> DEFINE i == l.range_index
             j == m.range_index
  <2>t. /\ b \in Nat /\ n \in Nat /\ DOMAIN l.ranges = 1..n /\ ProperRanges(l.ranges)
        /\ \A k \in 1..n : l.ranges[k].start.bytes \in Nat /\ l.ranges[k].end.bytes \in Nat
    BY LexerFields DEF LexerSound, Positioned, LexerTyped
  <2>1. /\ i \in 1..n /\ l.ranges[i].start.bytes <= b /\ b < l.ranges[i].end.bytes
        /\ j \in 1..n /\ l.ranges[j].start.bytes <= b /\ b < l.ranges[j].end.bytes
    BY <1>4, <2>t DEF LexerSound, Positioned, ts_lexer__eof
  <2>2. \A x, y \in 1..n : x < y => l.ranges[x].end.bytes <= l.ranges[y].start.bytes
    BY <2>t, RangesOrdered DEF ProperRanges
  <2> HIDE DEF i, j, b
  <2>3. ~(i < j) /\ ~(j < i)
    BY <2>t, <2>1, <2>2
  <2>4. i = j
    BY <2>1, <2>3, <2>t
  <2>5. l.lookahead = m.lookahead
    BY <1>1, <1>4 DEF Decoded
  <2>. QED BY <1>1, <2>4, <2>5 DEF i, j
<1>. QED BY <1>3, <1>4


-----------------------------------------------------------------------------
(* Texts and ranges that are set.                                          *)

(* The range that includes every byte is a list the code may meet.         *)
LEMMA DefaultProper == ProperRanges(<< DEFAULT_RANGE >>) /\ << DEFAULT_RANGE >> # << >>
<1>1. /\ DEFAULT_RANGE \in Span
      /\ DEFAULT_RANGE.start.bytes = 0 /\ DEFAULT_RANGE.end.bytes = UINT32_MAX
  <2>1. length_zero \in Place /\ length_zero.bytes = 0
    BY Widths DEF length_zero, Len3, POINT_ZERO, Point, Place
  <2>2. LENGTH_MAX \in Place /\ LENGTH_MAX.bytes = UINT32_MAX
    BY Widths DEF LENGTH_MAX, Len3, Point, Place
  <2>. QED BY <2>1, <2>2 DEF DEFAULT_RANGE, IncludedRange, Span
<1> DEFINE ranges == << DEFAULT_RANGE >>
<1>2. /\ ranges \in Seq(Span) /\ Len(ranges) = 1 /\ DOMAIN ranges = {1}
      /\ ranges[1] = DEFAULT_RANGE /\ ranges # << >>
  BY <1>1
<1> HIDE DEF ranges
<1>3. RangesValid(ranges)
  BY <1>1, <1>2, Widths DEF RangesValid
<1>4. ProperRanges(ranges)
  BY <1>1, <1>2, <1>3, Widths DEF ProperRanges
<1>. QED BY <1>2, <1>4 DEF ranges

(* The lists of ranges on a text that the lexer accepts.                   *)
LEMMA RangeListsProper ==
  ASSUME NEW text \in Seq(Bytes), Len(text) < UINT32_MAX, NEW ranges \in RangeLists(text),
         RangesValid(ranges)
  PROVE  ProperRanges(ranges) /\ RangesOnText(text, ranges)
<1> DEFINE Spans == {IncludedRange(PositionOf(text, from), PositionOf(text, to)) :
                       from, to \in Boundaries(text)}
<1>1. PICK m \in 0..MaxRanges : ranges \in [1..m -> Spans]
  BY DEF RangeLists, SeqOf
<1>2. m \in Nat /\ DOMAIN ranges = 1..m
  BY <1>1
<1>3. ASSUME NEW i \in 1..m
      PROVE  /\ ranges[i] \in Span
             /\ OnText(text, ranges[i].start) /\ OnText(text, ranges[i].end)
             /\ ranges[i].start.bytes < UINT32_MAX /\ ranges[i].end.bytes < UINT32_MAX
  <2>1. ranges[i] \in Spans
    BY <1>1
  <2>2. PICK from, to \in Boundaries(text) :
          ranges[i] = IncludedRange(PositionOf(text, from), PositionOf(text, to))
    BY <2>1
  <2>3. /\ from \in Nat /\ to \in Nat /\ Len(text) \in Nat
        /\ from \in 0..Len(text) /\ to \in 0..Len(text)
        /\ from \in 0..UINT32_MAX /\ to \in 0..UINT32_MAX
        /\ from < UINT32_MAX /\ to < UINT32_MAX
    BY Widths DEF Boundaries
  <2>4. ranges[i].start = PositionOf(text, from) /\ ranges[i].end = PositionOf(text, to)
    BY <2>2 DEF IncludedRange
  <2>5. /\ PositionOf(text, from) \in Place /\ PositionOf(text, to) \in Place
        /\ PositionOf(text, from).bytes = from /\ PositionOf(text, to).bytes = to
    BY <2>3, PositionPlace, PositionFields
  <2>6. ranges[i] \in Span
    BY <2>2, <2>5 DEF IncludedRange, Span
  <2>. QED BY <2>3, <2>4, <2>5, <2>6 DEF OnText
<1>4. ranges \in Seq(Span) /\ Len(ranges) = m
  <2>1. ranges \in [1..m -> Span]
    BY <1>1, <1>3
  <2>. QED BY <1>2, <2>1
<1>5. ProperRanges(ranges)
  BY <1>2, <1>3, <1>4, Widths DEF ProperRanges
<1>6. RangesOnText(text, ranges)
  BY <1>2, <1>3 DEF RangesOnText
<1>. QED BY <1>5, <1>6

(* ts_lexer_set_included_ranges, for a lexer that has its ranges or, when  *)
(* it is made, has none yet.                                               *)
LEMMA SetIncludedRangesSound ==
  ASSUME NEW self, LexerSound(self), NotDecoded(self),
         NEW text \in Seq(Bytes), Len(text) < UINT32_MAX, NEW ranges \in RangeLists(text)
  PROVE  LET there == ts_lexer_set_included_ranges(self, ranges) IN
         /\ LexerSound(there) /\ NotDecoded(there) /\ there.text = self.text
         /\ HasChunk(there) => HasChunk(self)
         /\ self.text = text /\ LexerOnText(self) => LexerOnText(there)
<1> DEFINE there == ts_lexer_set_included_ranges(self, ranges)
<1>t. /\ self \in LexerRecord /\ LexerTyped(self) /\ self.pos \in Place
      /\ HasChunk(self) => ChunkInText(self)
  BY LexerFields DEF LexerSound, Positioned, LexerTyped
<1>1. ASSUME NEW list, ProperRanges(list), list # << >>,
             there = ts_lexer_goto([self EXCEPT !.ranges = list], self.pos),
             RangesOnText(text, list)
      PROVE  /\ LexerSound(there) /\ NotDecoded(there) /\ there.text = self.text
             /\ HasChunk(there) => HasChunk(self)
             /\ self.text = text /\ LexerOnText(self) => LexerOnText(there)
  <2> DEFINE new == WithRanges(self, list)
  <2>1. there = ts_lexer_goto(new, self.pos)
    BY <1>1 DEF WithRanges
  <2>2. list \in Seq(Span)
    BY <1>1 DEF ProperRanges
  <2> HIDE DEF there
  <2>3. /\ new \in LexerRecord /\ new.ranges = list
        /\ new.text = self.text /\ new.pos = self.pos
        /\ new.chunk_start = self.chunk_start /\ new.chunk_size = self.chunk_size
    BY <2>2, <1>t, SetRanges
  <2> HIDE DEF new
  <2>4. LexerTyped(new)
    BY <1>1, <1>t, <2>3 DEF LexerTyped
  <2>5. HasChunk(new) => ChunkInText(new)
    BY <1>t, <2>3 DEF HasChunk, ChunkInText
  <2>6. /\ LexerSound(there) /\ NotDecoded(there) /\ there.text = new.text
        /\ HasChunk(there) => HasChunk(new)
        /\ RangesOnText(new.text, new.ranges) /\ OnText(new.text, self.pos) => LexerOnText(there)
    BY <1>t, <2>1, <2>4, <2>5, GotoSound
  <2>7. HasChunk(there) => HasChunk(self)
    BY <2>3, <2>6 DEF HasChunk
  <2>. QED BY <1>1, <2>3, <2>6, <2>7 DEF LexerOnText
<1>2. CASE ranges = << >>
  <2>1. there = ts_lexer_goto([self EXCEPT !.ranges = << DEFAULT_RANGE >>], self.pos)
    BY <1>2 DEF ts_lexer_set_included_ranges
  <2>2. RangesOnText(text, << DEFAULT_RANGE >>)
    BY DEF RangesOnText
  <2> HIDE DEF there
  <2>3. /\ LexerSound(there) /\ NotDecoded(there) /\ there.text = self.text
        /\ HasChunk(there) => HasChunk(self)
        /\ self.text = text /\ LexerOnText(self) => LexerOnText(there)
    BY <1>1, <2>1, <2>2, DefaultProper
  <2>. QED BY <2>3 DEF there
<1>3. CASE ranges # << >> /\ RangesValid(ranges)
  <2>1. there = ts_lexer_goto([self EXCEPT !.ranges = ranges], self.pos)
    BY <1>3 DEF ts_lexer_set_included_ranges
  <2>2. ProperRanges(ranges) /\ RangesOnText(text, ranges)
    BY <1>3, RangeListsProper
  <2> HIDE DEF there
  <2>3. /\ LexerSound(there) /\ NotDecoded(there) /\ there.text = self.text
        /\ HasChunk(there) => HasChunk(self)
        /\ self.text = text /\ LexerOnText(self) => LexerOnText(there)
    BY <1>1, <1>3, <2>1, <2>2
  <2>. QED BY <2>3 DEF there
<1>4. CASE ranges # << >> /\ ~RangesValid(ranges)
  BY <1>4 DEF ts_lexer_set_included_ranges
<1>. QED BY <1>2, <1>3, <1>4

(* ts_lexer_set_input.                                                     *)
LEMMA SetInputSound ==
  ASSUME NEW self, LexerSound(self), NEW text \in Seq(Bytes), Len(text) < UINT32_MAX
  PROVE  LET there == ts_lexer_set_input(self, text) IN
         /\ LexerSound(there) /\ NotDecoded(there) /\ ~HasChunk(there)
         /\ there.text = text /\ there.ranges = self.ranges
         /\ RangesOnText(text, self.ranges) /\ OnText(text, self.pos) => LexerOnText(there)
<1> DEFINE there == ts_lexer_set_input(self, text)
           new == WithText(self, text)
           clear == ts_lexer__clear_chunk(new)
<1>t. self \in LexerRecord /\ LexerTyped(self) /\ self.pos \in Place
  BY LexerFields DEF LexerSound, Positioned, LexerTyped
<1>1. there = ts_lexer_goto(clear, self.pos)
  BY DEF ts_lexer_set_input, WithText
<1> HIDE DEF there
<1>2. new \in LexerRecord /\ new.text = text /\ new.ranges = self.ranges /\ new.pos = self.pos
  BY <1>t, SetText
<1> HIDE DEF new
<1>3. /\ clear \in LexerRecord /\ clear.chunk_size = 0
      /\ clear.text = text /\ clear.ranges = self.ranges /\ clear.pos = self.pos
  BY <1>2, SetNoChunk
<1> HIDE DEF clear
<1>4. LexerTyped(clear) /\ ~HasChunk(clear)
  BY <1>3, <1>t DEF LexerTyped, HasChunk
<1>5. /\ LexerSound(there) /\ NotDecoded(there) /\ ~HasChunk(there)
      /\ there.text = clear.text /\ there.ranges = clear.ranges
      /\ RangesOnText(clear.text, clear.ranges) /\ OnText(clear.text, self.pos) => LexerOnText(there)
  BY <1>1, <1>4, <1>t, GotoSound
<1>. QED BY <1>3, <1>5 DEF there

(* ts_lexer_init.                                                          *)
LEMMA InitSound ==
  /\ LexerSound(ts_lexer_init) /\ NotDecoded(ts_lexer_init)
  /\ ts_lexer_init.ranges = << DEFAULT_RANGE >> /\ ts_lexer_init.pos = length_zero
<1> DEFINE blank == [text |-> << >>, pos |-> length_zero, token_start |-> length_zero,
                     token_end |-> length_zero, ranges |-> << >>, range_index |-> 1,
                     chunk_start |-> 0, chunk_size |-> 0, lookahead |-> NUL,
                     lookahead_size |-> 0, did_get_column |-> FALSE]
           new == WithRanges(blank, << DEFAULT_RANGE >>)
           there == ts_lexer_init
<1>1. there = ts_lexer_goto(new, length_zero)
  BY DEF ts_lexer_init, ts_lexer_set_included_ranges, WithRanges
<1>2. length_zero \in Place /\ length_zero.bytes = 0
  BY Widths DEF length_zero, Len3, POINT_ZERO, Point, Place
<1>3. << >> \in Seq(Bytes) /\ << >> \in Seq(Span) /\ << DEFAULT_RANGE >> \in Seq(Span)
      /\ Len(<< >>) = 0 /\ NUL \in Characters
  BY DefaultProper DEF ProperRanges, Characters
<1>4. blank \in LexerRecord /\ blank.text = << >> /\ blank.chunk_size = 0
  BY <1>2, <1>3 DEF LexerRecord
<1> HIDE DEF blank
<1>5. /\ new \in LexerRecord /\ new.ranges = << DEFAULT_RANGE >>
      /\ new.text = << >> /\ new.chunk_size = 0
  BY <1>3, <1>4, SetRanges
<1> HIDE DEF new, there
<1>6. LexerTyped(new) /\ ~HasChunk(new)
  BY <1>3, <1>5, DefaultProper, Widths DEF LexerTyped, HasChunk
<1>7. RangesOnText(new.text, new.ranges) /\ OnText(new.text, length_zero)
  <2>1. OnText(<< >>, length_zero)
    BY <1>2, <1>3, TextStart, BoundaryInText DEF OnText
  <2>. QED BY <2>1, <1>5 DEF RangesOnText
<1>8. /\ LexerSound(there) /\ NotDecoded(there) /\ LexerOnText(there)
      /\ there.text = << >> /\ there.ranges = << DEFAULT_RANGE >>
  BY <1>1, <1>2, <1>5, <1>6, <1>7, GotoSound
<1>9. there.pos = length_zero
  <2>1. there.pos.bytes \in 0..Len(<< >>) /\ there.pos = PositionOf(<< >>, there.pos.bytes)
    BY <1>3, <1>8, OnTextByte DEF LexerOnText
  <2>2. there.pos.bytes = 0
    BY <2>1, <1>3
  <2>. QED BY <2>1, <2>2, TextStart
<1>. QED BY <1>8, <1>9 DEF there

(* ts_lexer_reset, between tokens.                                         *)
LEMMA ResetSound ==
  ASSUME NEW self, LexerSound(self), NotDecoded(self), NEW position \in Place
  PROVE  LET there == ts_lexer_reset(self, position) IN
         /\ LexerSound(there) /\ NotDecoded(there) /\ (HasChunk(there) => HasChunk(self))
         /\ there.text = self.text /\ there.ranges = self.ranges
         /\ LexerOnText(self) /\ OnText(self.text, position) => LexerOnText(there)
<1> DEFINE there == ts_lexer_reset(self, position)
<1>1. CASE position.bytes # self.pos.bytes
  <2>1. there = ts_lexer_goto(self, position)
    BY <1>1 DEF ts_lexer_reset
  <2>2. LexerTyped(self) /\ (HasChunk(self) => ChunkInText(self))
    BY DEF LexerSound, Positioned
  <2> HIDE DEF there
  <2>3. /\ LexerSound(there) /\ NotDecoded(there) /\ (HasChunk(there) => HasChunk(self))
        /\ there.text = self.text /\ there.ranges = self.ranges
        /\ RangesOnText(self.text, self.ranges) /\ OnText(self.text, position)
             => LexerOnText(there)
    BY <2>1, <2>2, GotoSound
  <2>. QED BY <2>3 DEF LexerOnText, there
<1>2. CASE position.bytes = self.pos.bytes
  BY <1>2 DEF ts_lexer_reset
<1>. QED BY <1>1, <1>2

-----------------------------------------------------------------------------
(* The client's steps.                                                     *)

(* An edit of a text: what results is a text, one that the counters hold,  *)
(* and the places of the edit are in order.                                *)
LEMMA EditShape ==
  ASSUME lexer.text \in Seq(Bytes), Len(lexer.text) <= MaxEdited,
         NEW start \in Boundaries(lexer.text), NEW old_end \in Boundaries(lexer.text),
         start <= old_end, NEW inserted \in {<< >>, <<"n", "a">>}
  PROVE  LET edit == Edit(start, old_end, inserted) IN
         /\ edit.text \in Seq(Bytes) /\ Len(edit.text) < UINT32_MAX
         /\ ProperEdit(edit)
         /\ edit.start.bytes = start /\ edit.old_end.bytes = old_end
         /\ edit.new_end.bytes \in Nat /\ start <= edit.new_end.bytes
         /\ Len(edit.text) = edit.new_end.bytes + (Len(lexer.text) - old_end)
<1> DEFINE text == lexer.text
           edit == Edit(start, old_end, inserted)
           left == SubSeq(text, 1, start)
           right == SubSeq(text, old_end + 1, Len(text))
           new_end == start + Len(inserted)
           edited == left \o inserted \o right
<1>1. /\ Len(text) \in Nat /\ start \in 0..Len(text) /\ old_end \in 0..Len(text)
      /\ start \in Nat /\ old_end \in Nat /\ text \in Seq(Bytes)
  BY DEF Boundaries
<1>2. inserted \in Seq(Bytes) /\ Len(inserted) \in 0..2
  <2>1. <<"n", "a">> \in Seq(Bytes) /\ Len(<<"n", "a">>) = 2
    BY DEF Bytes
  <2>2. << >> \in Seq(Bytes) /\ Len(<< >>) = 0
    OBVIOUS
  <2>3. CASE inserted = << >>
    BY <2>2, <2>3
  <2>4. CASE inserted = <<"n", "a">>
    BY <2>1, <2>4
  <2>. QED BY <2>3, <2>4
<1> HIDE DEF text
<1>3. left \in Seq(Bytes) /\ Len(left) = start
  <2>1. \A i \in 1..start : text[i] \in Bytes
    BY <1>1
  <2>2. left \in Seq(Bytes) /\ Len(left) = IF 1 <= start THEN start - 1 + 1 ELSE 0
    BY <1>1, <2>1, SubSeqProperties
  <2>. QED BY <1>1, <2>2
<1>4. right \in Seq(Bytes) /\ Len(right) = Len(text) - old_end
  <2>1. \A i \in (old_end + 1)..Len(text) : text[i] \in Bytes
    BY <1>1
  <2>2. /\ right \in Seq(Bytes)
        /\ Len(right) = IF old_end + 1 <= Len(text) THEN Len(text) - (old_end + 1) + 1 ELSE 0
    BY <1>1, <2>1, SubSeqProperties
  <2>. QED BY <1>1, <2>2
<1> HIDE DEF left, right
<1>5. /\ edited \in Seq(Bytes)
      /\ Len(edited) = (start + Len(inserted)) + (Len(text) - old_end)
  <2> DEFINE front == left \o inserted
  <2>1. front \in Seq(Bytes) /\ Len(front) = start + Len(inserted)
    BY <1>2, <1>3, ConcatProperties
  <2> HIDE DEF front
  <2>2. front \o right \in Seq(Bytes) /\ Len(front \o right) = Len(front) + Len(right)
    BY <2>1, <1>4, ConcatProperties
  <2>. QED BY <2>1, <2>2, <1>4 DEF front
<1>6. /\ edit.text = edited /\ edit.start = PositionOf(text, start)
      /\ edit.old_end = PositionOf(text, old_end) /\ edit.new_end = PositionOf(edited, new_end)
  BY DEF Edit, text, left, right
<1>7. /\ Len(edited) <= MaxEdited + 2 /\ MaxEdited + 2 < UINT32_MAX
      /\ MaxEdited \in Nat /\ UINT32_MAX \in Nat /\ Len(text) <= MaxEdited
      /\ Len(inserted) \in 0..2
  <2>1. MaxEdited + 2 < UINT32_MAX /\ MaxEdited \in Nat /\ UINT32_MAX \in Nat
    BY TextAssumption, Widths
  <2>2. Len(text) <= MaxEdited
    BY DEF text
  <2> DEFINE a == Len(inserted)
             c == Len(text)
             d == Len(edited)
  <2>3. d = (start + a) + (c - old_end) /\ a \in 0..2 /\ c \in Nat /\ c <= MaxEdited
    BY <1>1, <1>2, <1>5, <2>2
  <2> HIDE DEF edited, a, c, d
  <2>4. d <= MaxEdited + 2
    BY <2>1, <2>3, <1>1
  <2>. QED BY <2>1, <2>2, <2>4, <1>2 DEF d
<1> HIDE DEF edited, edit
<1>8. /\ Len(edited) < UINT32_MAX /\ new_end \in Nat /\ new_end \in 0..UINT32_MAX
      /\ start \in 0..UINT32_MAX /\ old_end \in 0..UINT32_MAX /\ start <= new_end
  BY <1>1, <1>2, <1>5, <1>7
<1>9. /\ edit.start.bytes = start /\ edit.old_end.bytes = old_end
      /\ edit.new_end.bytes = new_end
      /\ edit.start \in Place /\ edit.old_end \in Place /\ edit.new_end \in Place
  <2> HIDE DEF new_end
  <2>. QED BY <1>1, <1>6, <1>8, PositionFields, PositionPlace
<1>10. ProperEdit(edit)
  <2> HIDE DEF new_end
  <2>. QED BY <1>8, <1>9 DEF ProperEdit
<1>. QED BY <1>5, <1>6, <1>8, <1>9, <1>10 DEF edit, text

(* A byte of an edited text, and where the edit moves the start of a range.*)
LEMMA EditBytes ==
  ASSUME NEW l \in Nat, NEW start \in 0..l, NEW old_end \in 0..l, start <= old_end,
         NEW edit, edit.start.bytes = start, edit.old_end.bytes = old_end,
         NEW n, n = edit.new_end.bytes, n \in Nat, start <= n,
         NEW max \in Nat, l < max, n + (l - old_end) < max
  PROVE  /\ \A b \in 0..l : MovedByte(b, edit) < max
         /\ \A b \in n..(n + (l - old_end)) :
              /\ b \in Nat /\ b < max /\ b - (n - old_end) < max /\ b - (n - old_end) \in Nat
BY DEF MovedByte

(* Everything Init and the actions do to the lexer keeps its invariant.    *)
LEMMA LexerInvInit == Init => LexerInv
<1> SUFFICES ASSUME Init PROVE LexerInv
  OBVIOUS
<1>1. PICK text \in Texts : \E ranges \in RangeLists(text) :
        lexer = ts_lexer_set_included_ranges(ts_lexer_set_input(ts_lexer_init, text), ranges)
  BY DEF Init
<1>2. PICK ranges \in RangeLists(text) :
        lexer = ts_lexer_set_included_ranges(ts_lexer_set_input(ts_lexer_init, text), ranges)
  BY <1>1
<1> DEFINE given == ts_lexer_set_input(ts_lexer_init, text)
<1>3. text \in Seq(Bytes) /\ Len(text) < UINT32_MAX /\ Len(text) \in Nat
  BY TextAssumption
<1>4. LexerSound(given) /\ NotDecoded(given) /\ given.text = text /\ LexerOnText(given)
  <2>1. RangesOnText(text, ts_lexer_init.ranges) /\ OnText(text, ts_lexer_init.pos)
    <3>1. length_zero.bytes = 0
      BY DEF length_zero, Len3
    <3>. QED BY <1>3, <3>1, InitSound, TextStart, BoundaryInText DEF RangesOnText, OnText
  <2>. QED BY <1>3, <2>1, InitSound, SetInputSound
<1> HIDE DEF given
<1>5. LexerSound(lexer) /\ NotDecoded(lexer) /\ LexerOnText(lexer)
  BY <1>2, <1>3, <1>4, SetIncludedRangesSound DEF given
<1>6. phase = "idle" /\ tree = NoTree
  BY DEF Init
<1>. QED BY <1>5, <1>6 DEF LexerInv

(* ts_parser_parse on an edited text: the lexer is sound, the tree's       *)
(* ranges have followed the edit, and the differences are exact.           *)
LEMMA ReparseStep ==
  ASSUME LexerInv, Reparse
  PROVE  /\ LexerSound(lexer') /\ NotDecoded(lexer') /\ tree'.edited = TRUE
         /\ ~HasChunk(lexer') /\ DifferencesExact' /\ RangesFollowEdit'
<1>1. /\ phase = "idle" /\ tree.ranges # << >> /\ ~tree.edited /\ tree # NoTree
  <2>1. NoTree.ranges = << >>
    BY DEF NoTree
  <2>. QED BY <2>1 DEF Reparse
<1>2. /\ LexerSound(lexer) /\ NotDecoded(lexer) /\ ProperRanges(tree.ranges)
      /\ RangesOnText(lexer.text, tree.ranges) /\ Len(lexer.text) <= MaxEdited
  BY <1>1 DEF LexerInv
<1>3. lexer.text \in Seq(Bytes) /\ Len(lexer.text) \in Nat /\ Len(lexer.text) < UINT32_MAX
  BY <1>2, LexerFields DEF LexerSound, Positioned, LexerTyped
<1>4. PICK start \in Boundaries(lexer.text), old_end \in Boundaries(lexer.text),
           inserted \in {<< >>, <<"n", "a">>} :
        /\ start <= old_end
        /\ LET edit == Edit(start, old_end, inserted)
               moved == EditIncludedRanges(tree.ranges, edit)
           IN  \E ranges \in RangeLists(edit.text) :
                 LET next == ts_lexer_set_input(ts_lexer_set_included_ranges(lexer, ranges),
                                                edit.text)
                 IN  /\ lexer' = next
                     /\ tree' = [ranges |-> moved, edited |-> TRUE, before |-> tree.ranges,
                                 edit |-> edit,
                                 differences |-> ts_range_array_get_changed_ranges(
                                                   moved, next.ranges)]
  BY DEF Reparse
<1> DEFINE edit == Edit(start, old_end, inserted)
           moved == EditIncludedRanges(tree.ranges, edit)
           n == edit.new_end.bytes
           shift == edit.new_end.bytes - edit.old_end.bytes
<1>5. PICK ranges \in RangeLists(edit.text) :
        /\ lexer' = ts_lexer_set_input(ts_lexer_set_included_ranges(lexer, ranges), edit.text)
        /\ tree' = [ranges |-> moved, edited |-> TRUE, before |-> tree.ranges, edit |-> edit,
                    differences |-> ts_range_array_get_changed_ranges(moved, lexer'.ranges)]
  BY <1>4
<1>6. /\ edit.text \in Seq(Bytes) /\ Len(edit.text) < UINT32_MAX /\ ProperEdit(edit)
      /\ edit.start.bytes = start /\ edit.old_end.bytes = old_end
      /\ edit.new_end.bytes \in Nat /\ start <= edit.new_end.bytes
      /\ Len(edit.text) = edit.new_end.bytes + (Len(lexer.text) - old_end)
  BY <1>2, <1>3, <1>4, EditShape
<1> HIDE DEF edit
<1>7. /\ LexerSound(lexer') /\ NotDecoded(lexer') /\ lexer'.text = edit.text
      /\ ~HasChunk(lexer')
  <2> DEFINE other == ts_lexer_set_included_ranges(lexer, ranges)
  <2>1. LexerSound(other)
    BY <1>2, <1>6, SetIncludedRangesSound
  <2> HIDE DEF other
  <2>2. lexer' = ts_lexer_set_input(other, edit.text)
    BY <1>5 DEF other
  <2>. QED BY <1>6, <2>1, <2>2, SetInputSound
<1>8. /\ start \in 0..Len(lexer.text) /\ old_end \in 0..Len(lexer.text)
      /\ n + (Len(lexer.text) - old_end) < UINT32_MAX /\ UINT32_MAX \in Nat
  BY <1>6, Widths DEF Boundaries
<1>9. /\ \A b \in 0..Len(lexer.text) : MovedByte(b, edit) < UINT32_MAX
      /\ \A b \in n..Len(edit.text) :
           b \in Nat /\ b < UINT32_MAX /\ b - shift < UINT32_MAX
  <2> HIDE DEF n
  <2>1. n \in Nat /\ n = edit.new_end.bytes /\ start <= n
    BY <1>6 DEF n
  <2>2. /\ \A b \in 0..Len(lexer.text) : MovedByte(b, edit) < UINT32_MAX
        /\ \A b \in n..(n + (Len(lexer.text) - old_end)) :
             b \in Nat /\ b < UINT32_MAX /\ b - (n - old_end) < UINT32_MAX
    BY <1>3, <1>4, <1>6, <1>8, <2>1, EditBytes
  <2>3. shift = n - old_end /\ Len(edit.text) = n + (Len(lexer.text) - old_end)
    BY <1>6, <2>1
  <2> HIDE DEF shift
  <2>. QED BY <2>2, <2>3
<1>10. \A i \in DOMAIN tree.ranges : MovedByte(tree.ranges[i].start.bytes, edit) < UINT32_MAX
  <2>1. \A i \in DOMAIN tree.ranges : tree.ranges[i].start.bytes \in 0..Len(lexer.text)
    BY <1>2, <1>3, RangePlaces, OnTextByte
  <2>. QED BY <1>9, <2>1
<1>11. /\ ProperRanges(moved)
       /\ \A b \in Nat : b < edit.start.bytes =>
            (InRanges(b, tree.ranges) <=> InRanges(b, moved))
       /\ \A b \in Nat : /\ edit.new_end.bytes <= b
                         /\ b < UINT32_MAX /\ b - shift < UINT32_MAX
                         => (InRanges(b - shift, tree.ranges) <=> InRanges(b, moved))
  BY <1>2, <1>6, <1>10, EditKeepsRanges
<1> HIDE DEF moved
<1>12. /\ tree'.ranges = moved /\ tree'.edited = TRUE /\ tree'.before = tree.ranges
       /\ tree'.edit = edit
       /\ tree'.differences = ts_range_array_get_changed_ranges(moved, lexer'.ranges)
  BY <1>5
<1>13. RangesFollowEdit'
  <2>1. RangesValid(moved)
    BY <1>11 DEF ProperRanges
  <2>2. \A b \in 0..(edit.start.bytes - 1) : InRanges(b, tree.ranges) = InRanges(b, moved)
    <3> TAKE b \in 0..(edit.start.bytes - 1)
    <3>1. b \in Nat /\ b < edit.start.bytes
      BY <1>6, <1>8
    <3>2. InRanges(b, tree.ranges) <=> InRanges(b, moved)
      BY <1>11, <3>1
    <3>. QED BY <3>2 DEF InRanges
  <2>3. \A b \in n..Len(edit.text) : InRanges(b - shift, tree.ranges) = InRanges(b, moved)
    <3> TAKE b \in n..Len(edit.text)
    <3>1. b \in Nat /\ edit.new_end.bytes <= b /\ b < UINT32_MAX /\ b - shift < UINT32_MAX
      BY <1>6, <1>9
    <3> HIDE DEF shift
    <3>2. InRanges(b - shift, tree.ranges) <=> InRanges(b, moved)
      BY <1>11, <3>1
    <3>. QED BY <3>2 DEF InRanges
  <2>. QED BY <1>12, <2>1, <2>2, <2>3 DEF RangesFollowEdit
<1>14. DifferencesExact'
  <2>1. ProperRanges(lexer'.ranges)
    BY <1>7 DEF LexerSound, Positioned, LexerTyped
  <2>2. \A b \in Nat : InRanges(b, tree'.differences) <=> Differ(b, moved, lexer'.ranges)
    BY <1>11, <1>12, <2>1, ChangedRangesExact
  <2>3. \A b \in 0..Len(lexer'.text) :
          InRanges(b, tree'.differences) = (InRanges(b, moved) # InRanges(b, lexer'.ranges))
    <3> TAKE b \in 0..Len(lexer'.text)
    <3>1. b \in Nat
      BY <1>6, <1>7
    <3>2. InRanges(b, tree'.differences) <=> Differ(b, moved, lexer'.ranges)
      BY <2>2, <3>1
    <3>3. /\ InRanges(b, tree'.differences) \in BOOLEAN /\ InRanges(b, moved) \in BOOLEAN
          /\ InRanges(b, lexer'.ranges) \in BOOLEAN
      BY DEF InRanges
    <3>. QED BY <3>2, <3>3 DEF Differ
  <2>. QED BY <1>12, <2>3 DEF DifferencesExact
<1>. QED BY <1>7, <1>12, <1>13, <1>14

(* What ts_lexer__get_column leaves, in either case.                       *)
LEMMA ColumnLeaves ==
  ASSUME NEW self, LexerSound(self), LexerOnText(self), TokenOnText(self), Decoded(self)
  PROVE  LET result == ts_lexer__get_column(self)
             there == result.lexer
             row == self.pos.bytes - self.pos.col
         IN  /\ LexerOnText(there) /\ TokenOnText(there)
             /\ there.text = self.text /\ there.ranges = self.ranges
             /\ there.pos = self.pos /\ there.range_index = self.range_index
             /\ there.lookahead = self.lookahead
             /\ IF Stranded(there) THEN Positioned(there) ELSE LexerSound(there) /\ Decoded(there)
             /\ Stranded(there) => ~RangeLeft(self.ranges, row) /\ self.pos.bytes < Len(self.text)
             /\ result.column = Cardinality(CharactersFrom(self, row, self.pos.bytes))
<1> DEFINE result == ts_lexer__get_column(self)
           there == result.lexer
           row == self.pos.bytes - self.pos.col
           End == ts_lexer__eof(ts_lexer_goto(self, Len3(self.pos.bytes - self.pos.col,
                                                         Point(self.pos.row, 0))))
<1>1. CASE End
  <2>1. /\ Positioned(there) /\ LexerOnText(there) /\ TokenOnText(there)
        /\ there.text = self.text /\ there.ranges = self.ranges
        /\ there.pos = self.pos /\ there.range_index = self.range_index
        /\ there.lookahead = self.lookahead
        /\ ts_lexer__eof(there) /\ (HasChunk(there) <=> self.pos.bytes < Len(self.text))
        /\ ~HasChunk(there) => LexerSound(there) /\ Decoded(there)
        /\ ~RangeLeft(self.ranges, row)
        /\ result.column = Cardinality(CharactersFrom(self, row, self.pos.bytes))
    BY <1>1, GetColumnAtEnd
  <2> HIDE DEF result, row
  <2>. QED BY <2>1 DEF Stranded, row, result
<1>2. CASE ~End
  <2>1. /\ LexerSound(there) /\ Decoded(there) /\ LexerOnText(there) /\ TokenOnText(there)
        /\ there.text = self.text /\ there.ranges = self.ranges
        /\ there.pos.bytes = self.pos.bytes
        /\ result.column = Cardinality(CharactersFrom(self, row, self.pos.bytes))
    BY <1>2, GetColumnSound
  <2> HIDE DEF result, row
  <2>2. /\ there.pos = self.pos /\ there.range_index = self.range_index
        /\ there.lookahead = self.lookahead
    BY <2>1, StandingUnique
  <2>3. ~Stranded(there)
    BY <2>1 DEF Stranded, LexerSound
  <2>. QED BY <2>1, <2>2, <2>3 DEF row, result
<1>. QED BY <1>1, <1>2

(* Nothing follows the call that strands the lexer.                        *)
LEMMA StrandedStops ==
  ASSUME [Next]_vars, phase = "stranded"
  PROVE  UNCHANGED vars
BY DEF Next, EndParse, Reparse, Reset, Start, Advance, MarkEnd, GetColumn, Finish, Scan

(* Every action keeps the lexer's invariant.                               *)
LEMMA LexerInvStep == LexerInv /\ [Next]_vars => LexerInv'
<1> SUFFICES ASSUME LexerInv, [Next]_vars, phase # "stranded" PROVE LexerInv'
  BY StrandedStops DEF vars, LexerInv
<1>s. LexerSound(lexer) /\ phase \in {"idle", "ready", "scanning", "finished"}
  BY DEF LexerInv
<1>t. LexerTyped(lexer) /\ lexer.text \in Seq(Bytes) /\ Len(lexer.text) < UINT32_MAX
      /\ Len(lexer.text) \in Nat
  BY <1>s, LexerFields DEF LexerSound, Positioned, LexerTyped
<1>z. length_zero \in Place /\ OnText(lexer.text, length_zero)
  <2>1. length_zero \in Place /\ length_zero.bytes = 0
    BY Widths DEF length_zero, Len3, POINT_ZERO, Point, Place
  <2>. QED BY <2>1, <1>t, TextStart, BoundaryInText DEF OnText
<1>1. CASE EndParse
  <2>1. /\ phase = "idle" /\ phase' = "idle" /\ tree = NoTree /\ Len(lexer.text) <= MaxEdited
        /\ tree' = [tree EXCEPT !.ranges = lexer.ranges]
        /\ lexer' = ts_lexer_reset(lexer, length_zero)
    BY <1>1 DEF EndParse
  <2>2. LexerOnText(lexer) /\ NotDecoded(lexer)
    BY <2>1 DEF LexerInv
  <2>3. /\ LexerSound(lexer') /\ NotDecoded(lexer') /\ LexerOnText(lexer')
        /\ lexer'.text = lexer.text
    BY <1>s, <1>z, <2>1, <2>2, ResetSound
  <2>4. tree'.ranges = lexer.ranges
    BY <2>1 DEF NoTree
  <2>5. ProperRanges(lexer.ranges) /\ RangesOnText(lexer.text, lexer.ranges)
    BY <1>t, <2>2 DEF LexerTyped, LexerOnText
  <2>. QED BY <2>1, <2>3, <2>4, <2>5 DEF LexerInv
<1>2. CASE Reparse
  <2>1. LexerSound(lexer') /\ NotDecoded(lexer') /\ tree'.edited = TRUE
    BY <1>2, ReparseStep
  <2>2. phase' = "idle"
    BY <1>2 DEF Reparse
  <2>3. tree' # NoTree
    BY <2>1 DEF NoTree
  <2>. QED BY <2>1, <2>2, <2>3 DEF LexerInv
<1>3. ASSUME NEW b \in Boundaries(lexer.text), Reset(PositionOf(lexer.text, b))
      PROVE  LexerInv'
  <2> DEFINE position == PositionOf(lexer.text, b)
  <2>1. /\ phase = "idle" /\ phase' = "ready" /\ tree = NoTree /\ tree' = tree
        /\ lexer' = ts_lexer_reset(lexer, position)
    BY <1>3 DEF Reset
  <2>2. LexerOnText(lexer) /\ NotDecoded(lexer)
    BY <2>1 DEF LexerInv
  <2>3. position \in Place /\ OnText(lexer.text, position)
    <3>1. b \in Nat /\ b \in 0..Len(lexer.text) /\ b \in 0..UINT32_MAX
      BY <1>t, Widths DEF Boundaries
    <3>. QED BY <3>1, PositionFields, PositionPlace DEF OnText
  <2> HIDE DEF position
  <2>4. LexerSound(lexer') /\ NotDecoded(lexer') /\ LexerOnText(lexer')
    BY <1>s, <2>1, <2>2, <2>3, ResetSound
  <2>. QED BY <2>1, <2>4 DEF LexerInv
<1>4. CASE Start
  <2>1. /\ phase = "ready" /\ phase' = "scanning" /\ tree' = tree
        /\ lexer' = ts_lexer_start(lexer)
    BY <1>4 DEF Start
  <2>2. LexerOnText(lexer) /\ NotDecoded(lexer) /\ tree = NoTree
    BY <2>1 DEF LexerInv
  <2>3. LexerSound(lexer') /\ Decoded(lexer') /\ LexerOnText(lexer') /\ TokenOnText(lexer')
    BY <1>s, <2>1, <2>2, StartSound
  <2>. QED BY <2>1, <2>2, <2>3 DEF LexerInv
<1>5. ASSUME NEW call, NEW after, Scan(call, after), phase' = "scanning",
             LexerSound(after), Decoded(after), LexerOnText(after), TokenOnText(after)
      PROVE  LexerInv'
  <2>1. phase = "scanning" /\ phase' = "scanning" /\ tree' = tree /\ lexer' = after
    BY <1>5 DEF Scan
  <2>. QED BY <1>5, <2>1 DEF LexerInv
<1>6. ASSUME phase = "scanning"
      PROVE  Decoded(lexer) /\ LexerOnText(lexer) /\ TokenOnText(lexer)
  BY <1>6 DEF LexerInv
<1>7. ASSUME NEW skip \in BOOLEAN, Advance(skip)
      PROVE  LexerInv'
  <2> DEFINE call == IF skip THEN "skip" ELSE "advance"
             after == ts_lexer__advance(lexer, skip)
  <2>1. Scan(call, after) /\ phase = "scanning" /\ phase' = "scanning"
    BY <1>7 DEF Advance, Scan
  <2>2. LexerSound(after) /\ Decoded(after) /\ LexerOnText(after) /\ TokenOnText(after)
    BY <1>s, <1>6, <2>1, AdvanceSound
  <2> HIDE DEF call, after
  <2>. QED BY <1>5, <2>1, <2>2
<1>8. CASE MarkEnd
  <2> DEFINE after == ts_lexer__mark_end(lexer)
  <2>1. Scan("mark_end", after) /\ phase = "scanning" /\ phase' = "scanning"
    BY <1>8 DEF MarkEnd, Scan
  <2>2. LexerSound(after) /\ Decoded(after) /\ LexerOnText(after) /\ TokenOnText(after)
    BY <1>s, <1>6, <2>1, MarkEndSound DEF TokenOnText
  <2> HIDE DEF after
  <2>. QED BY <1>5, <2>1, <2>2
<1>9. CASE GetColumn
  <2> DEFINE after == ts_lexer__get_column(lexer).lexer
  <2>1. /\ Scan("get_column", after) /\ phase = "scanning" /\ lexer' = after /\ tree' = tree
        /\ phase' = IF Stranded(after) THEN "stranded" ELSE "scanning"
    BY <1>9 DEF GetColumn, Scan
  <2>2. /\ LexerOnText(after) /\ TokenOnText(after)
        /\ IF Stranded(after) THEN Positioned(after) ELSE LexerSound(after) /\ Decoded(after)
    BY <1>s, <1>6, <2>1, ColumnLeaves
  <2> HIDE DEF after
  <2>3. CASE Stranded(after)
    <3>1. tree = NoTree
      BY <2>1 DEF LexerInv
    <3>. QED BY <2>1, <2>2, <2>3, <3>1 DEF LexerInv
  <2>4. CASE ~Stranded(after)
    BY <1>5, <2>1, <2>2, <2>4
  <2>. QED BY <2>3, <2>4
<1>10. CASE Finish
  <2>1. /\ phase = "scanning" /\ phase' = "finished" /\ tree' = tree
        /\ lexer' = ts_lexer_finish(lexer)
    BY <1>10 DEF Finish
  <2>2. /\ LexerSound(lexer') /\ LexerOnText(lexer')
        /\ OnText(lexer'.text, lexer'.token_start) /\ OnText(lexer'.text, lexer'.token_end)
    BY <1>s, <1>6, <2>1, FinishSound
  <2>3. tree = NoTree
    BY <2>1 DEF LexerInv
  <2>. QED BY <2>1, <2>2, <2>3 DEF LexerInv
<1>11. CASE UNCHANGED vars
  BY <1>11 DEF vars, LexerInv
<1>. QED BY <1>1, <1>2, <1>3, <1>4, <1>7, <1>8, <1>9, <1>10, <1>11 DEF Next

(* Wherever the lexer is sent and whatever it passes, it stands in an      *)
(* included range, knows its row and column, and looks at the character    *)
(* that is there: for every text, list of ranges, size of chunk and        *)
(* sequence of calls (ts_lexer_goto, ts_lexer__do_advance,                 *)
(* ts_lexer__get_lookahead, ts_lexer__get_column).                         *)
THEOREM LexerStandsOnText == Spec => []StandsOnText
<1>1. LexerInv => StandsOnText
  <2> SUFFICES ASSUME LexerInv PROVE StandsOnText
    OBVIOUS
  <2>0. Positioned(lexer)
    BY DEF LexerInv, LexerSound
  <2>1. lexer.text \in Seq(Bytes) /\ Len(lexer.text) \in Nat
    BY <2>0, LexerFields DEF Positioned
  <2>2. InsideRanges
    BY <2>0 DEF InsideRanges, Positioned
  <2>3. PositionsTrue
    <3>1. phase # "idle" => OnText(lexer.text, lexer.pos)
      BY DEF LexerInv, LexerOnText
    <3>2. phase = "finished" => /\ OnText(lexer.text, lexer.token_start)
                                /\ OnText(lexer.text, lexer.token_end)
      BY DEF LexerInv
    <3>3. ASSUME NEW p, OnText(lexer.text, p)
          PROVE  p.bytes <= Len(lexer.text) /\ p = PositionOf(lexer.text, p.bytes)
      BY <3>3, <2>1, OnTextByte
    <3>. QED BY <3>1, <3>2, <3>3 DEF PositionsTrue
  <2>4. LookaheadTrue
    BY DEF LexerInv, Decoded, LookaheadTrue
  <2>. QED BY <2>2, <2>3, <2>4 DEF StandsOnText
<1>. QED BY <1>1, LexerInvInit, LexerInvStep, PTL DEF Spec

(* While a token is scanned, or before a parse, nothing was edited yet; an *)
(* edit is the last step of the client.                                    *)
LEMMA OtherStepsBefore ==
  ASSUME LexerInv, [Next]_vars, ~Reparse
  PROVE  \/ tree'.edited = FALSE
         \/ UNCHANGED <<lexer, tree>>
<1>1. NoTree.edited = FALSE
  BY DEF NoTree
<1>2. CASE tree = NoTree
  <2>1. CASE EndParse
    <3>1. tree' = [tree EXCEPT !.ranges = lexer.ranges]
      BY <2>1 DEF EndParse
    <3>. QED BY <1>2, <3>1 DEF NoTree
  <2>2. CASE ~EndParse
    <3>1. tree' = tree
      BY <2>2 DEF Next, Reset, Start, Advance, MarkEnd, GetColumn, Finish, Scan, vars
    <3>. QED BY <1>1, <1>2, <3>1
  <2>. QED BY <2>1, <2>2
<1>3. CASE tree # NoTree
  <2>1. phase = "idle"
    BY <1>3 DEF LexerInv
  <2>. QED BY <1>3, <2>1 DEF Next, EndParse, Reset, Start, Advance, MarkEnd, GetColumn,
                            Finish, Scan, vars
<1>. QED BY <1>2, <1>3

(* What the lexer compares and moves between two parses.                   *)
RangesInv == LexerInv /\ DifferencesExact /\ RangesFollowEdit

(* It holds at first, and every action keeps it.                           *)
LEMMA RangesInvInductive == (Init => RangesInv) /\ (RangesInv /\ [Next]_vars => RangesInv')
<1>1. ASSUME Init PROVE RangesInv
  <2>1. tree.edited = FALSE
    BY <1>1 DEF Init, NoTree
  <2>. QED BY <1>1, <2>1, LexerInvInit DEF RangesInv, DifferencesExact, RangesFollowEdit
<1>2. ASSUME RangesInv, [Next]_vars PROVE RangesInv'
  <2>1. LexerInv /\ LexerInv'
    BY <1>2, LexerInvStep DEF RangesInv
  <2>2. CASE Reparse
    BY <2>1, <2>2, ReparseStep DEF RangesInv
  <2>3. CASE ~Reparse
    <3>1. CASE tree'.edited = FALSE
      BY <2>1, <3>1 DEF RangesInv, DifferencesExact, RangesFollowEdit
    <3>2. CASE UNCHANGED <<lexer, tree>>
      <4>1. DifferencesExact' <=> DifferencesExact
        BY <3>2 DEF DifferencesExact
      <4>2. RangesFollowEdit' <=> RangesFollowEdit
        BY <3>2 DEF RangesFollowEdit
      <4>. QED BY <1>2, <2>1, <4>1, <4>2 DEF RangesInv
    <3>. QED BY <1>2, <2>1, <2>3, <3>1, <3>2, OtherStepsBefore
  <2>. QED BY <2>2, <2>3
<1>. QED BY <1>1, <1>2

(* The differences that a parse is given are the bytes that exactly one of *)
(* the two lists of ranges includes (ts_range_array_get_changed_ranges).   *)
THEOREM DifferencesAreExact == Spec => []DifferencesExact
<1>1. RangesInv => DifferencesExact
  BY DEF RangesInv
<1>. QED BY <1>1, RangesInvInductive, PTL DEF Spec

(* The included ranges of a tree move with the text that is edited         *)
(* (ts_tree_edit).                                                         *)
THEOREM RangesDoFollowEdit == Spec => []RangesFollowEdit
<1>1. RangesInv => RangesFollowEdit
  BY DEF RangesInv
<1>. QED BY <1>1, RangesInvInductive, PTL DEF Spec

(* Asking for the column leaves the lexer where it was, in the same range  *)
(* and with the same lookahead, and answers with the number of characters  *)
(* of the row that are included and before it.  It leaves a chunk at the   *)
(* end of the input, which the next advance does not expect, at most where *)
(* no included range is left after the start of the row and the text goes  *)
(* on (ts_lexer__get_column).                                              *)
THEOREM ColumnQueriesHarmless == Spec => ColumnQueryHarmless
<1> DEFINE row == lexer.pos.bytes - lexer.pos.col
           Counted == {b \in Boundaries(lexer.text) :
                         row <= b /\ b < lexer.pos.bytes /\ InRanges(b, lexer.ranges)}
           Harmless ==
             /\ lexer'.pos = lexer.pos
             /\ lexer'.range_index = lexer.range_index
             /\ lexer'.lookahead = lexer.lookahead
             /\ ts_lexer__get_column(lexer).column = Cardinality(Counted)
             /\ RangeLeft(lexer.ranges, row) \/ lexer.pos.bytes = Len(lexer.text) =>
                  ~Stranded(lexer')
<1>1. ASSUME LexerInv, GetColumn PROVE Harmless
  <2> DEFINE result == ts_lexer__get_column(lexer)
  <2>1. phase = "scanning" /\ lexer' = result.lexer
    BY <1>1 DEF GetColumn, Scan
  <2>2. LexerSound(lexer) /\ Decoded(lexer) /\ LexerOnText(lexer) /\ TokenOnText(lexer)
    BY <1>1, <2>1 DEF LexerInv
  <2>3. /\ result.lexer.pos = lexer.pos /\ result.lexer.range_index = lexer.range_index
        /\ result.lexer.lookahead = lexer.lookahead
        /\ Stranded(result.lexer) =>
             ~RangeLeft(lexer.ranges, row) /\ lexer.pos.bytes < Len(lexer.text)
        /\ result.column = Cardinality(CharactersFrom(lexer, row, lexer.pos.bytes))
    BY <2>2, ColumnLeaves
  <2>4. CharactersFrom(lexer, row, lexer.pos.bytes) = Counted
    BY DEF CharactersFrom
  <2>5. lexer.pos.bytes \in Nat /\ Len(lexer.text) \in Nat
    BY <2>2, LexerFields DEF LexerSound, Positioned
  <2> HIDE DEF result, Counted, row
  <2>. QED BY <2>1, <2>3, <2>4, <2>5 DEF result
<1>2. ASSUME LexerInv PROVE [GetColumn => Harmless]_vars
  BY <1>1, <1>2
<1>. QED BY <1>2, LexerInvInit, LexerInvStep, PTL DEF Spec, ColumnQueryHarmless
=============================================================================
