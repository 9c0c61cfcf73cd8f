-------------------------- MODULE RangeArraysProofs --------------------------
(***************************************************************************)
(* Proofs about lists of ranges: what is added is included and nothing     *)
(* else, the differences of two lists are the bytes that exactly one of    *)
(* them includes, and an edit moves the ranges of a tree with the text.    *)
(***************************************************************************)
EXTENDS RangeArrays, LoopTheorems

(* The width of the counters, which is all that is used of it.             *)
LEMMA Widths == UINT32_MAX \in Nat /\ UINT_MOD = UINT32_MAX + 1 /\ UINT32_MAX > 0
BY SMT DEF UINT32_MAX, UINT_MOD

(* The byte of a place is a number in the width of the counters.           *)
LEMMA PlaceBytes == \A p \in Place : p.bytes \in Nat /\ p.bytes <= UINT32_MAX
BY Widths DEF Place

(* The ranges of a list, and the bytes they begin and end with.            *)
LEMMA SpanBytes ==
  ASSUME NEW ranges, ranges \in Seq(Span)
  PROVE  /\ DOMAIN ranges = 1..Len(ranges) /\ Len(ranges) \in Nat
         /\ \A i \in DOMAIN ranges :
              /\ ranges[i] \in Span
              /\ ranges[i].start.bytes \in Nat /\ ranges[i].end.bytes \in Nat
              /\ ranges[i].end.bytes <= UINT32_MAX
<1>1. DOMAIN ranges = 1..Len(ranges) /\ Len(ranges) \in Nat
  OBVIOUS
<1>2. \A i \in DOMAIN ranges : ranges[i] \in Span
  OBVIOUS
<1>3. \A i \in DOMAIN ranges : ranges[i].start \in Place /\ ranges[i].end \in Place
  BY <1>2 DEF Span
<1>. QED BY <1>1, <1>2, <1>3, PlaceBytes

(* The ranges of a list are in order, neighbours or not.                   *)
LEMMA RangesOrdered ==
  ASSUME NEW ranges, ranges \in Seq(Span), RangesValid(ranges)
  PROVE  \A i, j \in DOMAIN ranges : i < j => ranges[i].end.bytes <= ranges[j].start.bytes
<1> DEFINE S == {k \in Nat : \A i \in DOMAIN ranges :
                   i + 1 + k \in DOMAIN ranges => ranges[i].end.bytes <= ranges[i + 1 + k].start.bytes}
<1>t. /\ DOMAIN ranges = 1..Len(ranges) /\ Len(ranges) \in Nat
      /\ \A i \in DOMAIN ranges : ranges[i].start.bytes \in Nat /\ ranges[i].end.bytes \in Nat
  BY SpanBytes
<1>1. 0 \in S
  BY <1>t DEF RangesValid
<1>2. ASSUME NEW k \in Nat, k \in S PROVE k + 1 \in S
  <2> SUFFICES ASSUME NEW i \in DOMAIN ranges, i + 1 + (k + 1) \in DOMAIN ranges
               PROVE  ranges[i].end.bytes <= ranges[i + 1 + (k + 1)].start.bytes
    OBVIOUS
  <2> DEFINE j == i + 1 + k
  <2>1. j \in DOMAIN ranges /\ j + 1 = i + 1 + (k + 1) /\ j \in 1..Len(ranges) - 1
    BY <1>t
  <2>2. ranges[i].end.bytes <= ranges[j].start.bytes
    BY <1>2, <2>1
  <2> HIDE DEF j
  <2>3. /\ ranges[j].start.bytes <= ranges[j].end.bytes
        /\ ranges[j].end.bytes <= ranges[j + 1].start.bytes
    BY <2>1 DEF RangesValid
  <2>4. j + 1 \in DOMAIN ranges
    BY <2>1
  <2>5. ranges[i].end.bytes <= ranges[j + 1].start.bytes
    BY <2>1, <2>2, <2>3, <2>4, <1>t
  <2>. QED BY <2>1, <2>5
<1>3. Nat \subseteq S
  <2> HIDE DEF S
  <2>. QED BY <1>1, <1>2, NatSetInduction
<1>4. ASSUME NEW i \in DOMAIN ranges, NEW j \in DOMAIN ranges, i < j
      PROVE  ranges[i].end.bytes <= ranges[j].start.bytes
  <2>1. j - i - 1 \in S /\ i + 1 + (j - i - 1) = j
    BY <1>3, <1>4, <1>t
  <2>. QED BY <2>1
<1>. QED BY <1>4

(* ts_range_array_add, called with a range behind the others, includes the *)
(* bytes of that range and leaves the others as they were.                 *)
LEMMA AddExact ==
  ASSUME NEW ranges, ranges \in Seq(Span), NEW start \in Place, NEW end \in Place,
         start.bytes <= end.bytes,
         \A i \in DOMAIN ranges : /\ ranges[i].start.bytes <= ranges[i].end.bytes
                                  /\ ranges[i].end.bytes <= start.bytes
  PROVE  LET added == ts_range_array_add(ranges, start, end) IN
         /\ added \in Seq(Span)
         /\ \A i \in DOMAIN added : /\ added[i].start.bytes <= added[i].end.bytes
                                    /\ added[i].end.bytes <= end.bytes
         /\ \A b \in Nat : InRanges(b, added) <=>
              InRanges(b, ranges) \/ (start.bytes <= b /\ b < end.bytes)
<1> DEFINE added == ts_range_array_add(ranges, start, end)
<1>t. /\ DOMAIN ranges = 1..Len(ranges) /\ Len(ranges) \in Nat
      /\ start.bytes \in Nat /\ end.bytes \in Nat
      /\ \A i \in DOMAIN ranges : /\ ranges[i] \in Span
                                  /\ ranges[i].start.bytes \in Nat /\ ranges[i].end.bytes \in Nat
  BY SpanBytes, PlaceBytes
<1>1. CASE ranges # << >> /\ start.bytes <= Last(ranges).end.bytes
  <2>1. Len(ranges) \in DOMAIN ranges /\ Last(ranges) = ranges[Len(ranges)]
    BY <1>1, <1>t DEF Last
  <2>2. ranges[Len(ranges)].end.bytes = start.bytes
    BY <1>1, <2>1, <1>t
  <2>3. added = [ranges EXCEPT ![Len(ranges)].end = end]
    BY <1>1 DEF ts_range_array_add
  <2>4. /\ added \in Seq(Span) /\ DOMAIN added = DOMAIN ranges
        /\ added[Len(ranges)].start = ranges[Len(ranges)].start
        /\ added[Len(ranges)].end = end
        /\ \A i \in DOMAIN ranges : i # Len(ranges) => added[i] = ranges[i]
    BY <2>1, <2>3, <1>t DEF Span
  <2> HIDE DEF added
  <2>5. \A i \in DOMAIN added : /\ added[i].start.bytes <= added[i].end.bytes
                                /\ added[i].end.bytes <= end.bytes
    BY <2>1, <2>4, <1>t
  <2>6. ASSUME NEW b \in Nat, InRanges(b, added)
        PROVE InRanges(b, ranges) \/ (start.bytes <= b /\ b < end.bytes)
    BY <2>1, <2>2, <2>4, <2>6, <1>t DEF InRanges
  <2>7. ASSUME NEW b \in Nat, InRanges(b, ranges) PROVE InRanges(b, added)
    BY <2>1, <2>2, <2>4, <2>7, <1>t DEF InRanges
  <2>8. ASSUME NEW b \in Nat, start.bytes <= b, b < end.bytes PROVE InRanges(b, added)
    BY <2>1, <2>2, <2>4, <2>8, <1>t DEF InRanges
  <2>. QED BY <2>4, <2>5, <2>6, <2>7, <2>8 DEF added
<1>2. CASE ~(ranges # << >> /\ start.bytes <= Last(ranges).end.bytes) /\ start.bytes < end.bytes
  <2> DEFINE r == [start |-> start, end |-> end]
  <2>1. added = Append(ranges, r)
    BY <1>2 DEF ts_range_array_add
  <2>2. r \in Span
    BY DEF Span
  <2>3. /\ added \in Seq(Span) /\ DOMAIN added = 1..Len(ranges) + 1
        /\ added[Len(ranges) + 1] = r
        /\ \A i \in DOMAIN ranges : added[i] = ranges[i]
    BY <2>1, <2>2, <1>t
  <2> HIDE DEF added
  <2>4. \A i \in DOMAIN added : i \in DOMAIN ranges \/ i = Len(ranges) + 1
    BY <2>3, <1>t
  <2>5. \A i \in DOMAIN added : /\ added[i].start.bytes <= added[i].end.bytes
                                /\ added[i].end.bytes <= end.bytes
    BY <2>3, <2>4, <1>2, <1>t
  <2>6. ASSUME NEW b \in Nat, InRanges(b, added)
        PROVE InRanges(b, ranges) \/ (start.bytes <= b /\ b < end.bytes)
    BY <2>3, <2>4, <2>6, <1>t DEF InRanges
  <2>7. ASSUME NEW b \in Nat, InRanges(b, ranges) PROVE InRanges(b, added)
    BY <2>3, <2>7, <1>t DEF InRanges
  <2>8. ASSUME NEW b \in Nat, start.bytes <= b, b < end.bytes PROVE InRanges(b, added)
    BY <2>3, <2>8, <1>t DEF InRanges
  <2>. QED BY <2>3, <2>5, <2>6, <2>7, <2>8 DEF added
<1>3. CASE ~(ranges # << >> /\ start.bytes <= Last(ranges).end.bytes) /\ ~(start.bytes < end.bytes)
  <2>1. added = ranges
    BY <1>3 DEF ts_range_array_add
  <2>2. \A b \in Nat : ~(start.bytes <= b /\ b < end.bytes)
    BY <1>3, <1>t
  <2> HIDE DEF added
  <2>. QED BY <2>1, <2>2, <1>3, <1>t DEF added
<1>. QED BY <1>1, <1>2, <1>3
(* The loop of ts_range_array_get_changed_ranges.  Where the walk is in    *)
(* one list: the ranges before `index` are behind position p, and p is in  *)
(* range `index` or before it.                                             *)
Standing(ranges) == [index : 1..Len(ranges) + 1, inside : BOOLEAN]
SideInv(ranges, v, p) ==
  /\ v \in Standing(ranges)
  /\ v.index <= Len(ranges) =>
       /\ v.inside => /\ ranges[v.index].start.bytes <= p
                      /\ p <= ranges[v.index].end.bytes
       /\ ~v.inside => p <= ranges[v.index].start.bytes
  /\ \A i \in 1..(v.index - 1) : ranges[i].end.bytes <= p

(* The walk is inside a range of the list.  It is not only in the round    *)
(* that ends the loop, when the other list ends with the greatest byte,    *)
(* which is also what stands for the boundary behind an exhausted list.    *)
OnList(ranges, v) == v.inside => v.index <= Len(ranges)

Differ(b, olds, news) ==
  \/ InRanges(b, olds) /\ ~InRanges(b, news)
  \/ ~InRanges(b, olds) /\ InRanges(b, news)

WalkInv(olds, news, w) ==
  /\ w \in [old : Standing(olds), new : Standing(news), position : Place,
            differences : Seq(Span)]
  /\ SideInv(olds, w.old, w.position.bytes)
  /\ SideInv(news, w.new, w.position.bytes)
  /\ AllCompared(olds, news, w) \/ (OnList(olds, w.old) /\ OnList(news, w.new))
  /\ \A i \in DOMAIN w.differences :
       /\ w.differences[i].start.bytes <= w.differences[i].end.bytes
       /\ w.differences[i].end.bytes <= w.position.bytes
  /\ \A b \in Nat : b < w.position.bytes =>
       (InRanges(b, w.differences) <=> Differ(b, olds, news))

(* Up to the next boundary of a list, the bytes are in the list if and     *)
(* only if the walk is inside one of its ranges.                           *)
LEMMA UpToBoundary ==
  ASSUME NEW ranges, ProperRanges(ranges), NEW v, NEW p \in Nat,
         SideInv(ranges, v, p), OnList(ranges, v), p <= UINT32_MAX
  PROVE  LET next == NextBoundary(ranges, v) IN
         /\ next \in Place
         /\ p <= next.bytes
         /\ \A b \in Nat : p <= b /\ b < next.bytes => (InRanges(b, ranges) <=> v.inside)
         /\ next.bytes = UINT32_MAX /\ v.index <= Len(ranges) => v.inside /\ v.index = Len(ranges)
<1> DEFINE next == NextBoundary(ranges, v)
<1>t. /\ DOMAIN ranges = 1..Len(ranges) /\ Len(ranges) \in Nat
      /\ \A i \in DOMAIN ranges :
           /\ ranges[i].start.bytes \in Nat /\ ranges[i].end.bytes \in Nat
           /\ ranges[i].start \in Place /\ ranges[i].end \in Place
           /\ ranges[i].start.bytes <= ranges[i].end.bytes
           /\ ranges[i].start.bytes < UINT32_MAX
           /\ ranges[i].end.bytes = UINT32_MAX => i = Len(ranges)
  <2>1. ranges \in Seq(Span)
    BY DEF ProperRanges
  <2>2. \A i \in DOMAIN ranges : ranges[i].start \in Place /\ ranges[i].end \in Place
    BY <2>1, SpanBytes DEF Span
  <2>. QED BY <2>1, <2>2, SpanBytes DEF ProperRanges, RangesValid
<1>v. v.index \in 1..(Len(ranges) + 1) /\ v.inside \in BOOLEAN
  BY DEF SideInv, Standing
<1>o. \A i, j \in DOMAIN ranges : i < j => ranges[i].end.bytes <= ranges[j].start.bytes
  BY RangesOrdered DEF ProperRanges
<1>before. \A i \in DOMAIN ranges : i < v.index => ranges[i].end.bytes <= p
  BY <1>t, <1>v DEF SideInv
<1>1. CASE v.inside
  <2>1. v.index \in DOMAIN ranges /\ next = ranges[v.index].end
    BY <1>1, <1>t, <1>v DEF OnList, NextBoundary
  <2>2. ranges[v.index].start.bytes <= p /\ p <= ranges[v.index].end.bytes
    BY <1>1, <2>1, <1>t DEF SideInv
  <2> HIDE DEF next
  <2>3. \A b \in Nat : p <= b /\ b < next.bytes => InRanges(b, ranges)
    BY <2>1, <2>2, <1>t DEF InRanges
  <2>. QED BY <1>1, <2>1, <2>2, <2>3, <1>t DEF next
<1>2. CASE ~v.inside /\ v.index <= Len(ranges)
  <2>1. v.index \in DOMAIN ranges /\ next = ranges[v.index].start
    BY <1>2, <1>t, <1>v DEF NextBoundary
  <2>2. p <= ranges[v.index].start.bytes
    BY <1>2 DEF SideInv
  <2> HIDE DEF next
  <2>3. ASSUME NEW b \in Nat, p <= b, b < next.bytes, NEW i \in DOMAIN ranges
        PROVE  ~(ranges[i].start.bytes <= b /\ b < ranges[i].end.bytes)
    <3>1. CASE i < v.index
      BY <3>1, <2>3, <1>before, <1>t
    <3>2. CASE i = v.index
      BY <3>2, <2>1, <2>3, <1>t
    <3>3. CASE i > v.index
      <4>1. ranges[v.index].end.bytes <= ranges[i].start.bytes
        BY <3>3, <2>1, <1>o, <1>v, <1>t
      <4>. QED BY <4>1, <2>1, <2>3, <1>t
    <3>. QED BY <3>1, <3>2, <3>3, <1>v, <1>t
  <2>4. \A b \in Nat : p <= b /\ b < next.bytes => ~InRanges(b, ranges)
    BY <2>3 DEF InRanges
  <2>. QED BY <1>2, <2>1, <2>2, <2>4, <1>t DEF next
<1>3. CASE ~v.inside /\ ~(v.index <= Len(ranges))
  <2>1. next = LENGTH_MAX
    BY <1>3 DEF NextBoundary
  <2>2. next \in Place /\ next.bytes = UINT32_MAX
    BY <2>1, Widths DEF LENGTH_MAX, Len3, Point, Place
  <2>3. ASSUME NEW b \in Nat, p <= b, NEW i \in DOMAIN ranges
        PROVE  ~(b < ranges[i].end.bytes)
    BY <1>3, <2>3, <1>before, <1>v, <1>t
  <2>4. \A b \in Nat : p <= b => ~InRanges(b, ranges)
    BY <2>3 DEF InRanges
  <2> HIDE DEF next
  <2>. QED BY <1>3, <2>2, <2>4 DEF next
<1>. QED BY <1>1, <1>2, <1>3, <1>v

(* Going on to a place that is not behind the next boundary.               *)
LEMMA SideStays ==
  ASSUME NEW ranges, ProperRanges(ranges), NEW v, NEW p \in Nat, SideInv(ranges, v, p),
         OnList(ranges, v), NEW q \in Nat, p <= q, q <= NextBoundary(ranges, v).bytes
  PROVE  SideInv(ranges, v, q)
<1>t. /\ Len(ranges) \in Nat /\ DOMAIN ranges = 1..Len(ranges)
      /\ \A i \in 1..Len(ranges) : ranges[i].start.bytes \in Nat /\ ranges[i].end.bytes \in Nat
  BY SpanBytes DEF ProperRanges
<1>v. v.index \in 1..(Len(ranges) + 1) /\ v.inside \in BOOLEAN
  BY DEF SideInv, Standing
<1>1. \A i \in 1..(v.index - 1) : ranges[i].end.bytes <= q
  BY <1>t, <1>v DEF SideInv
<1>2. v.index <= Len(ranges) =>
        /\ v.inside => ranges[v.index].start.bytes <= q /\ q <= ranges[v.index].end.bytes
        /\ ~v.inside => q <= ranges[v.index].start.bytes
  BY <1>t, <1>v DEF SideInv, NextBoundary
<1>. QED BY <1>1, <1>2 DEF SideInv

(* Crossing the next boundary.                                             *)
LEMMA SideCrosses ==
  ASSUME NEW ranges, ProperRanges(ranges), NEW v, NEW p \in Nat, SideInv(ranges, v, p),
         OnList(ranges, v), v.index <= Len(ranges), p <= NextBoundary(ranges, v).bytes
  PROVE  /\ SideInv(ranges, Cross(v), NextBoundary(ranges, v).bytes)
         /\ OnList(ranges, Cross(v))
<1> DEFINE q == NextBoundary(ranges, v).bytes
           c == Cross(v)
<1>t. /\ Len(ranges) \in Nat /\ DOMAIN ranges = 1..Len(ranges)
      /\ \A i \in 1..Len(ranges) : /\ ranges[i].start.bytes \in Nat /\ ranges[i].end.bytes \in Nat
                                   /\ ranges[i].start.bytes <= ranges[i].end.bytes
  BY SpanBytes DEF ProperRanges, RangesValid
<1>v. v.index \in 1..Len(ranges) /\ v.inside \in BOOLEAN
  BY <1>t DEF SideInv, Standing
<1>o. \A i, j \in DOMAIN ranges : i < j => ranges[i].end.bytes <= ranges[j].start.bytes
  BY RangesOrdered DEF ProperRanges
<1>1. CASE v.inside
  <2>1. c.index = v.index + 1 /\ c.inside = FALSE /\ c \in Standing(ranges)
    <3>0. v.inside = TRUE
      BY <1>1, <1>v
    <3>1. c = [inside |-> FALSE, index |-> v.index + 1]
      BY <3>0 DEF Cross
    <3>2. v.index + 1 \in 1..(Len(ranges) + 1)
      BY <1>v, <1>t
    <3>. QED BY <3>1, <3>2 DEF Standing
  <2>2. q = ranges[v.index].end.bytes
    BY <1>1 DEF NextBoundary
  <2>3. \A i \in 1..(c.index - 1) : ranges[i].end.bytes <= q
    <3>1. \A i \in 1..Len(ranges) : i < v.index => ranges[i].end.bytes <= p
      BY <1>v, <1>t DEF SideInv
    <3> HIDE DEF q, c
    <3>2. p <= q
      BY DEF q
    <3>. QED BY <2>1, <2>2, <3>1, <3>2, <1>v, <1>t
  <2>4. c.index <= Len(ranges) => q <= ranges[c.index].start.bytes
    <3> HIDE DEF q, c
    <3>. QED BY <2>1, <2>2, <1>o, <1>v, <1>t
  <2> HIDE DEF q, c
  <2>5. SideInv(ranges, c, q) /\ OnList(ranges, c)
    BY <2>1, <2>3, <2>4 DEF SideInv, OnList
  <2>. QED BY <2>5 DEF q, c
<1>2. CASE ~v.inside
  <2>1. c.index = v.index /\ c.inside = TRUE /\ c \in Standing(ranges)
    <3>0. v.inside = FALSE
      BY <1>2, <1>v
    <3>1. c = [inside |-> TRUE, index |-> v.index]
      BY <3>0 DEF Cross
    <3>2. v.index \in 1..(Len(ranges) + 1)
      BY <1>v, <1>t
    <3>. QED BY <3>1, <3>2 DEF Standing
  <2>2. q = ranges[v.index].start.bytes
    BY <1>2, <1>v DEF NextBoundary
  <2>3. \A i \in 1..(c.index - 1) : ranges[i].end.bytes <= q
    <3>1. \A i \in 1..Len(ranges) : i < v.index => ranges[i].end.bytes <= p
      BY <1>v, <1>t DEF SideInv
    <3> HIDE DEF q, c
    <3>2. p <= q
      BY DEF q
    <3>. QED BY <2>1, <2>2, <3>1, <3>2, <1>v, <1>t
  <2> HIDE DEF q, c
  <2>4. ranges[c.index].start.bytes <= q /\ q <= ranges[c.index].end.bytes
    BY <2>1, <2>2, <1>v, <1>t
  <2>5. SideInv(ranges, c, q) /\ OnList(ranges, c)
    BY <2>1, <2>3, <2>4, <1>v DEF SideInv, OnList
  <2>. QED BY <2>5 DEF q, c
<1>. QED BY <1>1, <1>2, <1>v
(* One round of the comparison keeps what is known of the walk.            *)
LEMMA WalkStep ==
  ASSUME NEW olds, NEW news, ProperRanges(olds), ProperRanges(news), NEW w,
         WalkInv(olds, news, w)
  PROVE  WalkInv(olds, news, CompareNext(olds, news, w))
<1>1. CASE AllCompared(olds, news, w)
  BY <1>1 DEF CompareNext
<1>2. CASE ~AllCompared(olds, news, w)
  <2> DEFINE next_old == NextBoundary(olds, w.old)
             next_new == NextBoundary(news, w.new)
             next == IF next_old.bytes < next_new.bytes THEN next_old ELSE next_new
             p == w.position.bytes
             q == next.bytes
             old == IF next_old.bytes <= next_new.bytes THEN Cross(w.old) ELSE w.old
             new == IF next_new.bytes <= next_old.bytes THEN Cross(w.new) ELSE w.new
             found == IF w.old.inside # w.new.inside
                      THEN ts_range_array_add(w.differences, w.position, next)
                      ELSE w.differences
             after == [old |-> old, new |-> new, position |-> next, differences |-> found]
  <2>1. CompareNext(olds, news, w) = after
    BY <1>2 DEF CompareNext
  <2>2. /\ w.old \in Standing(olds) /\ w.new \in Standing(news)
        /\ w.position \in Place /\ w.differences \in Seq(Span)
        /\ SideInv(olds, w.old, p) /\ SideInv(news, w.new, p)
        /\ OnList(olds, w.old) /\ OnList(news, w.new)
    BY <1>2 DEF WalkInv
  <2>3. p \in Nat /\ p <= UINT32_MAX
    BY <2>2, PlaceBytes
  <2> HIDE DEF p
  <2>4. /\ next_old \in Place /\ p <= next_old.bytes
        /\ \A b \in Nat : p <= b /\ b < next_old.bytes => (InRanges(b, olds) <=> w.old.inside)
        /\ next_old.bytes = UINT32_MAX /\ w.old.index <= Len(olds) => w.old.index = Len(olds) /\ w.old.inside
    BY <2>2, <2>3, UpToBoundary
  <2>5. /\ next_new \in Place /\ p <= next_new.bytes
        /\ \A b \in Nat : p <= b /\ b < next_new.bytes => (InRanges(b, news) <=> w.new.inside)
        /\ next_new.bytes = UINT32_MAX /\ w.new.index <= Len(news) => w.new.index = Len(news) /\ w.new.inside
    BY <2>2, <2>3, UpToBoundary
  <2>6. next_old.bytes \in Nat /\ next_new.bytes \in Nat
        /\ next_old.bytes <= UINT32_MAX /\ next_new.bytes <= UINT32_MAX
    BY <2>4, <2>5, PlaceBytes
  <2>7. /\ w.old.index \in 1..(Len(olds) + 1) /\ w.new.index \in 1..(Len(news) + 1)
        /\ w.old.inside \in BOOLEAN /\ w.new.inside \in BOOLEAN
        /\ Len(olds) \in Nat /\ Len(news) \in Nat
    BY <2>2 DEF Standing, ProperRanges
  <2>8. /\ w.old.index > Len(olds) => next_old.bytes = UINT32_MAX
        /\ w.new.index > Len(news) => next_new.bytes = UINT32_MAX
    BY <2>2, <2>7 DEF OnList, NextBoundary, LENGTH_MAX, Len3
  <2> HIDE DEF next_old, next_new
  <2>9. /\ next \in Place /\ q \in Nat /\ p <= q
        /\ q <= next_old.bytes /\ q <= next_new.bytes
        /\ next_old.bytes <= next_new.bytes => q = next_old.bytes
        /\ next_new.bytes <= next_old.bytes => q = next_new.bytes
    BY <2>3, <2>4, <2>5, <2>6
  <2> HIDE DEF next, q
  <2>10. /\ SideInv(olds, old, q)
         /\ w.old.index <= Len(olds) \/ ~(next_old.bytes <= next_new.bytes) => OnList(olds, old)
    <3>1. CASE ~(next_old.bytes <= next_new.bytes)
      BY <3>1, <2>2, <2>3, <2>9, SideStays DEF next_old
    <3>2. CASE next_old.bytes <= next_new.bytes /\ w.old.index <= Len(olds)
      <4>1. old = Cross(w.old) /\ q = next_old.bytes
        BY <3>2, <2>9
      <4>. QED BY <3>2, <4>1, <2>2, <2>3, <2>4, SideCrosses DEF next_old
    <3>3. CASE next_old.bytes <= next_new.bytes /\ w.old.index > Len(olds)
      <4>1. old = Cross(w.old)
        BY <3>3
      <4> HIDE DEF old
      <4>2. w.old.inside = FALSE /\ w.old.index = Len(olds) + 1
        BY <3>3, <2>2, <2>7 DEF OnList
      <4>3. old = [inside |-> TRUE, index |-> Len(olds) + 1]
        BY <4>1, <4>2 DEF Cross
      <4>4. old \in Standing(olds) /\ old.index = Len(olds) + 1
        BY <4>3, <2>7 DEF Standing
      <4>5. \A i \in 1..(old.index - 1) : olds[i].end.bytes <= q
        <5>1. \A i \in 1..Len(olds) : olds[i].end.bytes <= p /\ olds[i].end.bytes \in Nat
          BY <4>2, <2>2, <2>7, SpanBytes DEF SideInv, ProperRanges
        <5>. QED BY <4>4, <5>1, <2>3, <2>7, <2>9
      <4>6. ~(old.index <= Len(olds))
        BY <4>4, <2>7
      <4>. QED BY <3>3, <4>4, <4>5, <4>6, <2>7 DEF SideInv
    <3>. QED BY <3>1, <3>2, <3>3, <2>7
  <2>11. /\ SideInv(news, new, q)
         /\ w.new.index <= Len(news) \/ ~(next_new.bytes <= next_old.bytes) => OnList(news, new)
    <3>1. CASE ~(next_new.bytes <= next_old.bytes)
      BY <3>1, <2>2, <2>3, <2>9, SideStays DEF next_new
    <3>2. CASE next_new.bytes <= next_old.bytes /\ w.new.index <= Len(news)
      <4>1. new = Cross(w.new) /\ q = next_new.bytes
        BY <3>2, <2>9
      <4>. QED BY <3>2, <4>1, <2>2, <2>3, <2>5, SideCrosses DEF next_new
    <3>3. CASE next_new.bytes <= next_old.bytes /\ w.new.index > Len(news)
      <4>1. new = Cross(w.new)
        BY <3>3
      <4> HIDE DEF new
      <4>2. w.new.inside = FALSE /\ w.new.index = Len(news) + 1
        BY <3>3, <2>2, <2>7 DEF OnList
      <4>3. new = [inside |-> TRUE, index |-> Len(news) + 1]
        BY <4>1, <4>2 DEF Cross
      <4>4. new \in Standing(news) /\ new.index = Len(news) + 1
        BY <4>3, <2>7 DEF Standing
      <4>5. \A i \in 1..(new.index - 1) : news[i].end.bytes <= q
        <5>1. \A i \in 1..Len(news) : news[i].end.bytes <= p /\ news[i].end.bytes \in Nat
          BY <4>2, <2>2, <2>7, SpanBytes DEF SideInv, ProperRanges
        <5>. QED BY <4>4, <5>1, <2>3, <2>7, <2>9
      <4>6. ~(new.index <= Len(news))
        BY <4>4, <2>7
      <4>. QED BY <3>3, <4>4, <4>5, <4>6, <2>7 DEF SideInv
    <3>. QED BY <3>1, <3>2, <3>3, <2>7
  \* If one list is exhausted and crossed nevertheless, the other one ends in
  \* the same round.
  <2>12. AllCompared(olds, news, after) \/ (OnList(olds, old) /\ OnList(news, new))
    <3>1. CASE next_old.bytes <= next_new.bytes /\ w.old.index > Len(olds)
      <4>1. w.new.index <= Len(news)
        BY <1>2, <3>1, <2>7 DEF AllCompared
      <4>2. next_new.bytes = UINT32_MAX /\ next_old.bytes = UINT32_MAX
        BY <3>1, <2>6, <2>8
      <4>3. w.new.index = Len(news) /\ w.new.inside
        BY <4>1, <4>2, <2>5
      <4>4. new.index = Len(news) + 1
        BY <4>2, <4>3, <2>6 DEF Cross
      <4>5. old.index >= w.old.index
        BY <2>7 DEF Cross
      <4>6. after.old.index = old.index /\ after.new.index = new.index
        OBVIOUS
      <4> HIDE DEF old, new, after
      <4>7. old.index > Len(olds)
        BY <3>1, <4>5, <2>7, <2>10 DEF SideInv, Standing
      <4>8. new.index > Len(news)
        BY <4>4, <2>7
      <4>. QED BY <4>6, <4>7, <4>8 DEF AllCompared
    <3>2. CASE next_new.bytes <= next_old.bytes /\ w.new.index > Len(news)
      <4>1. w.old.index <= Len(olds)
        BY <1>2, <3>2, <2>7 DEF AllCompared
      <4>2. next_new.bytes = UINT32_MAX /\ next_old.bytes = UINT32_MAX
        BY <3>2, <2>6, <2>8
      <4>3. w.old.index = Len(olds) /\ w.old.inside
        BY <4>1, <4>2, <2>4
      <4>4. old.index = Len(olds) + 1
        BY <4>2, <4>3, <2>6 DEF Cross
      <4>5. new.index >= w.new.index
        BY <2>7 DEF Cross
      <4>6. after.old.index = old.index /\ after.new.index = new.index
        OBVIOUS
      <4> HIDE DEF old, new, after
      <4>7. new.index > Len(news)
        BY <3>2, <4>5, <2>7, <2>11 DEF SideInv, Standing
      <4>8. old.index > Len(olds)
        BY <4>4, <2>7
      <4>. QED BY <4>6, <4>7, <4>8 DEF AllCompared
    <3>3. CASE /\ w.old.index <= Len(olds) \/ ~(next_old.bytes <= next_new.bytes)
               /\ w.new.index <= Len(news) \/ ~(next_new.bytes <= next_old.bytes)
      BY <3>3, <2>10, <2>11
    <3>. QED BY <3>1, <3>2, <3>3, <2>7
  <2>13. \A b \in Nat : p <= b /\ b < q =>
           (Differ(b, olds, news) <=> w.old.inside # w.new.inside)
    <3> SUFFICES ASSUME NEW b \in Nat, p <= b, b < q
                 PROVE  Differ(b, olds, news) <=> w.old.inside # w.new.inside
      OBVIOUS
    <3>1. b < next_old.bytes /\ b < next_new.bytes
      BY <2>6, <2>9
    <3>2. (InRanges(b, olds) <=> w.old.inside) /\ (InRanges(b, news) <=> w.new.inside)
      BY <3>1, <2>4, <2>5
    <3>. QED BY <3>2, <2>7, Zenon DEF Differ
  <2>14. /\ found \in Seq(Span)
         /\ \A i \in DOMAIN found : /\ found[i].start.bytes <= found[i].end.bytes
                                    /\ found[i].end.bytes <= q
         /\ \A b \in Nat : b < q => (InRanges(b, found) <=> Differ(b, olds, news))
    <3>1. /\ \A i \in DOMAIN w.differences :
               /\ w.differences[i].start.bytes <= w.differences[i].end.bytes
               /\ w.differences[i].end.bytes <= p
          /\ \A b \in Nat : b < p => (InRanges(b, w.differences) <=> Differ(b, olds, news))
      BY DEF WalkInv, p
    <3>2. \A i \in DOMAIN w.differences : /\ w.differences[i].start.bytes \in Nat
                                          /\ w.differences[i].end.bytes \in Nat
      BY <2>2, SpanBytes
    <3>3. \A b \in Nat : p <= b => ~InRanges(b, w.differences)
      BY <3>1, <3>2, <2>3 DEF InRanges
    <3>4. CASE w.old.inside # w.new.inside
      <4>1. found = ts_range_array_add(w.differences, w.position, next)
        BY <3>4
      <4> HIDE DEF found
      <4>2. /\ found \in Seq(Span)
            /\ \A i \in DOMAIN found : /\ found[i].start.bytes <= found[i].end.bytes
                                       /\ found[i].end.bytes <= q
            /\ \A b \in Nat : InRanges(b, found) <=>
                 InRanges(b, w.differences) \/ (p <= b /\ b < q)
        BY <4>1, <3>1, <2>2, <2>9, AddExact DEF p, q
      <4>3. ASSUME NEW b \in Nat, b < q PROVE InRanges(b, found) <=> Differ(b, olds, news)
        <5>1. CASE b < p
          BY <5>1, <4>2, <3>1, <2>3
        <5>2. CASE p <= b
          BY <5>2, <4>3, <4>2, <3>4, <2>13
        <5>. QED BY <5>1, <5>2, <2>3
      <4>. QED BY <4>2, <4>3
    <3>5. CASE ~(w.old.inside # w.new.inside)
      <4>1. found = w.differences
        BY <3>5
      <4> HIDE DEF found
      <4>2. ASSUME NEW b \in Nat, b < q PROVE InRanges(b, found) <=> Differ(b, olds, news)
        <5>1. CASE b < p
          BY <5>1, <4>1, <3>1
        <5>2. CASE p <= b
          BY <5>2, <4>1, <4>2, <3>3, <3>5, <2>13
        <5>. QED BY <5>1, <5>2, <2>3
      <4>3. \A i \in DOMAIN found : /\ found[i].start.bytes <= found[i].end.bytes
                                    /\ found[i].end.bytes <= q
        BY <4>1, <3>1, <3>2, <2>3, <2>9
      <4>. QED BY <4>1, <4>2, <4>3, <2>2
    <3>. QED BY <3>4, <3>5
  <2>15. old \in Standing(olds) /\ new \in Standing(news)
    BY <2>10, <2>11 DEF SideInv
  <2>16. WalkInv(olds, news, after)
    <3> HIDE DEF old, new, found
    <3>1. /\ after.old = old /\ after.new = new /\ after.position = next
          /\ after.differences = found
      OBVIOUS
    <3>2. after \in [old : Standing(olds), new : Standing(news), position : Place,
                     differences : Seq(Span)]
      BY <2>9, <2>14, <2>15
    <3> HIDE DEF after
    <3>. QED BY <3>1, <3>2, <2>10, <2>11, <2>12, <2>14 DEF WalkInv, q
  <2>. QED BY <2>1, <2>16
<1>. QED BY <1>1, <1>2

(* The boundaries of one list, and of both, that the walk has crossed.     *)
CrossedOf(v) == IF v.inside THEN 2 * v.index - 1 ELSE 2 * v.index - 2
Crossed(w) == CrossedOf(w.old) + CrossedOf(w.new)

(* Crossing a boundary counts one, and there are two for every range.      *)
LEMMA CrossingCounts ==
  ASSUME NEW ranges, NEW v, Len(ranges) \in Nat, v \in Standing(ranges), OnList(ranges, v)
  PROVE  /\ CrossedOf(v) \in Nat /\ CrossedOf(v) <= 2 * Len(ranges)
         /\ v.index <= Len(ranges) => CrossedOf(v) < 2 * Len(ranges)
         /\ CrossedOf(Cross(v)) = CrossedOf(v) + 1
<1>1. v.index \in 1..(Len(ranges) + 1) /\ v.inside \in BOOLEAN
  BY DEF Standing
<1>2. CASE v.inside = TRUE
  <2>1. CrossedOf(v) = 2 * v.index - 1 /\ v.index <= Len(ranges)
    BY <1>2 DEF CrossedOf, OnList
  <2>2. Cross(v) = [inside |-> FALSE, index |-> v.index + 1]
    BY <1>2 DEF Cross
  <2>3. CrossedOf(Cross(v)) = 2 * (v.index + 1) - 2
    BY <2>2 DEF CrossedOf
  <2>. QED BY <1>1, <2>1, <2>3
<1>3. CASE v.inside = FALSE
  <2>1. CrossedOf(v) = 2 * v.index - 2
    BY <1>3 DEF CrossedOf
  <2>2. Cross(v) = [inside |-> TRUE, index |-> v.index]
    BY <1>3 DEF Cross
  <2>3. CrossedOf(Cross(v)) = 2 * v.index - 1
    BY <2>2 DEF CrossedOf
  <2>. QED BY <1>1, <2>1, <2>3
<1>. QED BY <1>1, <1>2, <1>3

(* A round that does not find the loop ended crosses a boundary.           *)
LEMMA WalkProgress ==
  ASSUME NEW olds, NEW news, ProperRanges(olds), ProperRanges(news), NEW w,
         WalkInv(olds, news, w), ~AllCompared(olds, news, w)
  PROVE  /\ Crossed(w) \in Nat /\ Crossed(w) < BoundaryCount(olds, news)
         /\ Crossed(CompareNext(olds, news, w)) >= Crossed(w) + 1
<1>1. /\ w.old \in Standing(olds) /\ w.new \in Standing(news)
      /\ Len(olds) \in Nat /\ Len(news) \in Nat
      /\ OnList(olds, w.old) /\ OnList(news, w.new)
  BY DEF WalkInv, ProperRanges
<1>2. /\ CrossedOf(w.old) \in Nat /\ CrossedOf(w.old) <= 2 * Len(olds)
      /\ w.old.index <= Len(olds) => CrossedOf(w.old) < 2 * Len(olds)
      /\ CrossedOf(Cross(w.old)) = CrossedOf(w.old) + 1
      /\ CrossedOf(w.new) \in Nat /\ CrossedOf(w.new) <= 2 * Len(news)
      /\ w.new.index <= Len(news) => CrossedOf(w.new) < 2 * Len(news)
      /\ CrossedOf(Cross(w.new)) = CrossedOf(w.new) + 1
  BY <1>1, CrossingCounts
<1>3. w.old.index <= Len(olds) \/ w.new.index <= Len(news)
  BY <1>1 DEF AllCompared, Standing
<1> DEFINE after == CompareNext(olds, news, w)
<1>4. \/ after.old = Cross(w.old) /\ after.new = w.new
      \/ after.old = w.old /\ after.new = Cross(w.new)
      \/ after.old = Cross(w.old) /\ after.new = Cross(w.new)
  <2>1. /\ NextBoundary(olds, w.old).bytes \in Nat
        /\ NextBoundary(news, w.new).bytes \in Nat
    <3>1. w.position.bytes \in Nat /\ w.position.bytes <= UINT32_MAX
      BY PlaceBytes DEF WalkInv
    <3>2. NextBoundary(olds, w.old) \in Place /\ NextBoundary(news, w.new) \in Place
      BY <1>1, <3>1, UpToBoundary DEF WalkInv
    <3>. QED BY <3>2, PlaceBytes
  <2>. QED BY <2>1 DEF CompareNext
<1> HIDE DEF after
<1>5. Crossed(after) >= Crossed(w) + 1
  BY <1>2, <1>4 DEF Crossed
<1>. QED BY <1>1, <1>2, <1>3, <1>5 DEF Crossed, BoundaryCount, after

(* The rounds of the loop, all of which keep what is known of the walk.    *)
LEMMA CompareRoundsDef ==
  ASSUME NEW olds, NEW news, ProperRanges(olds), ProperRanges(news)
  PROVE  LET at == CompareRounds(olds, news) IN
         /\ at[0] = WalkStart
         /\ \A n \in Nat : at[n + 1] = CompareNext(olds, news, at[n])
         /\ \A n \in Nat : WalkInv(olds, news, at[n])
<1> DEFINE W == {w \in [old : Standing(olds), new : Standing(news), position : Place,
                        differences : Seq(Span)] : WalkInv(olds, news, w)}
           F == [w \in W |-> CompareNext(olds, news, w)]
           Body(at) == [n \in Nat |-> IF n = 0 THEN WalkStart
                                      ELSE CompareNext(olds, news, at[n - 1])]
           at == CompareRounds(olds, news)
<1>1. WalkStart \in W
  <2>1. Len(olds) \in Nat /\ Len(news) \in Nat
        /\ DOMAIN olds = 1..Len(olds) /\ DOMAIN news = 1..Len(news)
    BY DEF ProperRanges
  <2>2. length_zero \in Place /\ length_zero.bytes = 0
    BY Widths DEF length_zero, Len3, POINT_ZERO, Point, Place
  <2>3. [index |-> 1, inside |-> FALSE] \in Standing(olds) /\ [index |-> 1, inside |-> FALSE] \in Standing(news)
    BY <2>1 DEF Standing
  <2>4. WalkStart \in [old : Standing(olds), new : Standing(news), position : Place,
                       differences : Seq(Span)]
    BY <2>2, <2>3 DEF WalkStart
  <2>5. SideInv(olds, WalkStart.old, 0)
    <3>1. 1 <= Len(olds) => 0 <= olds[1].start.bytes
      BY <2>1, SpanBytes DEF ProperRanges
    <3>. QED BY <2>3, <3>1 DEF SideInv, WalkStart
  <2>6. SideInv(news, WalkStart.new, 0)
    <3>1. 1 <= Len(news) => 0 <= news[1].start.bytes
      BY <2>1, SpanBytes DEF ProperRanges
    <3>. QED BY <2>3, <3>1 DEF SideInv, WalkStart
  <2>7. WalkStart.position.bytes = 0 /\ WalkStart.differences = << >>
        /\ OnList(olds, WalkStart.old) /\ OnList(news, WalkStart.new)
    BY <2>2 DEF WalkStart, OnList
  <2>8. WalkInv(olds, news, WalkStart)
    BY <2>4, <2>5, <2>6, <2>7 DEF WalkInv
  <2>. QED BY <2>4, <2>8
<1>2. \A w \in W : CompareNext(olds, news, w) \in W
  BY WalkStep DEF WalkInv
<1>3. F \in [W -> W]
  BY <1>2
<1>4. PICK f \in [Nat -> W] : f[0] = WalkStart /\ \A n \in Nat : f[n + 1] = F[f[n]]
  <2> HIDE DEF W, F
  <2>. QED BY <1>1, <1>3, LoopExists
<1>5. f = Body(f)
  <2>1. \A n \in Nat : f[n + 1] = CompareNext(olds, news, f[n])
    <3> HIDE DEF W
    <3>. QED BY <1>4
  <2>2. ASSUME NEW n \in Nat PROVE f[n] = Body(f)[n]
    <3>1. CASE n = 0
      BY <3>1, <1>4
    <3>2. CASE n # 0
      <4>1. n - 1 \in Nat /\ (n - 1) + 1 = n
        BY <3>2
      <4>. QED BY <3>2, <4>1, <2>1
    <3>. QED BY <3>1, <3>2
  <2>3. f = [n \in Nat |-> f[n]] /\ Body(f) = [n \in Nat |-> Body(f)[n]]
    BY <1>4
  <2> HIDE DEF Body
  <2>. QED BY <2>2, <2>3
<1> HIDE DEF Body
<1>6. at = Body(at)
  <2>1. at = CHOOSE g : g = Body(g)
    BY DEF CompareRounds, Body
  <2>. QED BY <1>5, <2>1
<1> HIDE DEF at
<1>7. /\ at[0] = WalkStart
      /\ \A n \in Nat : at[n + 1] = CompareNext(olds, news, at[n])
  <2>1. \A n \in Nat : at[n] = IF n = 0 THEN WalkStart ELSE CompareNext(olds, news, at[n - 1])
    BY <1>6 DEF Body
  <2>2. \A n \in Nat : n + 1 \in Nat /\ n + 1 # 0 /\ (n + 1) - 1 = n
    OBVIOUS
  <2>. QED BY <2>1, <2>2
<1>8. \A n \in Nat : WalkInv(olds, news, at[n])
  <2> DEFINE S == {n \in Nat : at[n] \in W}
  <2>1. 0 \in S
    BY <1>1, <1>7
  <2>2. \A n \in Nat : n \in S => n + 1 \in S
    <3> HIDE DEF W
    <3>. QED BY <1>2, <1>7
  <2>3. Nat \subseteq S
    <3> HIDE DEF S
    <3>. QED BY <2>1, <2>2, NatSetInduction
  <2>. QED BY <2>3
<1>. QED BY <1>7, <1>8 DEF at

(* ts_range_array_get_changed_ranges compares both lists to their ends,    *)
(* and what it returns are the bytes that exactly one of them includes.    *)
THEOREM ChangedRangesExact ==
  ASSUME NEW olds, NEW news, ProperRanges(olds), ProperRanges(news)
  PROVE  /\ AllCompared(olds, news, CompareRounds(olds, news)[BoundaryCount(olds, news)])
         /\ \A b \in Nat :
              InRanges(b, ts_range_array_get_changed_ranges(olds, news)) <=> Differ(b, olds, news)
<1> DEFINE at == CompareRounds(olds, news)
           N == BoundaryCount(olds, news)
           w == at[N]
           Ended(n) == AllCompared(olds, news, at[n])
<1>1. /\ at[0] = WalkStart
      /\ \A n \in Nat : at[n + 1] = CompareNext(olds, news, at[n])
      /\ \A n \in Nat : WalkInv(olds, news, at[n])
  BY CompareRoundsDef
<1> HIDE DEF at
<1>2. N \in Nat
  BY DEF BoundaryCount, ProperRanges
<1> HIDE DEF N
<1>3. Ended(N)
  <2> DEFINE S == {n \in Nat : Ended(n) \/ Crossed(at[n]) >= n}
  <2>1. 0 \in S
    BY <1>1 DEF Crossed, CrossedOf, WalkStart
  <2>2. ASSUME NEW n \in Nat, n \in S PROVE n + 1 \in S
    <3>1. CASE Ended(n)
      <4>1. at[n + 1] = at[n]
        BY <3>1, <1>1 DEF CompareNext
      <4>. QED BY <3>1, <4>1
    <3>2. CASE ~Ended(n)
      <4>1. Crossed(at[n]) \in Nat /\ Crossed(at[n + 1]) >= Crossed(at[n]) + 1
        BY <3>2, <1>1, WalkProgress
      <4>2. Crossed(at[n]) >= n
        BY <2>2, <3>2
      <4>3. Crossed(at[n + 1]) \in Int
        <5>1. WalkInv(olds, news, at[n + 1])
          BY <1>1
        <5>2. at[n + 1].old.index \in Int /\ at[n + 1].new.index \in Int
          BY <5>1 DEF WalkInv, Standing
        <5>. QED BY <5>2 DEF Crossed, CrossedOf
      <4>. QED BY <4>1, <4>2, <4>3
    <3>. QED BY <3>1, <3>2
  <2>3. Nat \subseteq S
    <3> HIDE DEF S
    <3>. QED BY <2>1, <2>2, NatSetInduction
  <2>4. SUFFICES ASSUME ~Ended(N) PROVE FALSE
    OBVIOUS
  <2>5. Crossed(at[N]) \in Nat /\ Crossed(at[N]) < N
    BY <2>4, <1>1, <1>2, WalkProgress DEF N
  <2>6. Crossed(at[N]) >= N
    BY <2>3, <2>4, <1>2
  <2>. QED BY <2>5, <2>6, <1>2
<1>4. WalkInv(olds, news, w)
  BY <1>1, <1>2
<1> HIDE DEF w
<1>5. w.position.bytes \in Nat /\ w.differences \in Seq(Span)
  BY <1>4, PlaceBytes DEF WalkInv
<1>6. \A b \in Nat : w.position.bytes <= b => ~InRanges(b, w.differences)
  BY <1>4, <1>5, SpanBytes DEF WalkInv, InRanges
<1>7. \A i \in DOMAIN olds : olds[i].end.bytes <= w.position.bytes /\ olds[i].end.bytes \in Nat
  <2>1. w.old.index > Len(olds) /\ w.old.index \in Nat
    BY <1>3, <1>4 DEF AllCompared, WalkInv, Standing, w
  <2>2. /\ DOMAIN olds = 1..Len(olds) /\ Len(olds) \in Nat
        /\ \A i \in DOMAIN olds : olds[i].end.bytes \in Nat
    BY SpanBytes DEF ProperRanges
  <2>3. \A i \in 1..(w.old.index - 1) : olds[i].end.bytes <= w.position.bytes
    BY <1>4 DEF WalkInv, SideInv
  <2>. QED BY <2>1, <2>2, <2>3
<1>8. \A i \in DOMAIN news : news[i].end.bytes <= w.position.bytes /\ news[i].end.bytes \in Nat
  <2>1. w.new.index > Len(news) /\ w.new.index \in Nat
    BY <1>3, <1>4 DEF AllCompared, WalkInv, Standing, w
  <2>2. /\ DOMAIN news = 1..Len(news) /\ Len(news) \in Nat
        /\ \A i \in DOMAIN news : news[i].end.bytes \in Nat
    BY SpanBytes DEF ProperRanges
  <2>3. \A i \in 1..(w.new.index - 1) : news[i].end.bytes <= w.position.bytes
    BY <1>4 DEF WalkInv, SideInv
  <2>. QED BY <2>1, <2>2, <2>3
<1>9. ASSUME NEW b \in Nat PROVE InRanges(b, w.differences) <=> Differ(b, olds, news)
  <2>1. CASE b < w.position.bytes
    BY <2>1, <1>4 DEF WalkInv
  <2>2. CASE w.position.bytes <= b
    <3>1. ~InRanges(b, olds) /\ ~InRanges(b, news)
      BY <2>2, <1>5, <1>7, <1>8 DEF InRanges
    <3>. QED BY <2>2, <3>1, <1>6 DEF Differ
  <2>. QED BY <2>1, <2>2, <1>5
<1>. QED BY <1>3, <1>9 DEF ts_range_array_get_changed_ranges, at, w, N
(* An edit as ts_tree_edit is given it: the bytes from start to old_end    *)
(* are replaced by those from start to new_end.                            *)
ProperEdit(edit) ==
  /\ edit.start \in Place /\ edit.old_end \in Place /\ edit.new_end \in Place
  /\ edit.start.bytes <= edit.old_end.bytes
  /\ edit.start.bytes <= edit.new_end.bytes

(* Where a byte is after an edit, when the counters do not wrap.           *)
MovedByte(b, edit) ==
  IF b >= edit.old_end.bytes THEN edit.new_end.bytes + (b - edit.old_end.bytes)
  ELSE IF b > edit.start.bytes THEN edit.start.bytes ELSE b

(* The unsigned sum of ts_tree_edit either is the true one, or has wrapped *)
(* and is then less than new_end, which is how the code finds out.         *)
LEMMA WrappedSum ==
  ASSUME NEW x \in Nat, NEW n \in Nat, x <= UINT32_MAX, n <= UINT32_MAX
  PROVE  /\ (n + x) % UINT_MOD \in 0..UINT32_MAX
         /\ n + x <= UINT32_MAX => (n + x) % UINT_MOD = n + x
         /\ n + x > UINT32_MAX => (n + x) % UINT_MOD < n
<1>1. (n + x) % UINT_MOD \in 0..UINT32_MAX
  <2>1. (n + x) % UINT_MOD \in Nat /\ (n + x) % UINT_MOD < UINT_MOD
    BY SMT DEF UINT_MOD
  <2>. QED BY <2>1, Widths
<1>2. n + x <= UINT32_MAX => (n + x) % UINT_MOD = n + x
  BY SMT DEF UINT_MOD, UINT32_MAX
<1>3. n + x > UINT32_MAX => (n + x) % UINT_MOD < n
  BY SMT DEF UINT_MOD, UINT32_MAX
<1>. QED BY <1>1, <1>2, <1>3

(* A boundary that an edit moves is a place again.                         *)
LEMMA MovedPlace ==
  ASSUME NEW place \in Place, NEW edit, ProperEdit(edit), NEW fixed \in BOOLEAN
  PROVE  LET moved == MoveBoundary(place, edit, fixed) IN
         /\ moved \in Place
         /\ fixed /\ place.bytes = UINT32_MAX => moved.bytes = UINT32_MAX
         /\ ~(fixed /\ place.bytes = UINT32_MAX) =>
              \/ moved.bytes = MovedByte(place.bytes, edit)
              \/ moved.bytes = UINT32_MAX /\ MovedByte(place.bytes, edit) > UINT32_MAX
<1>1. /\ place.bytes \in Nat /\ place.bytes <= UINT32_MAX /\ place.row \in Nat /\ place.col \in Nat
      /\ edit.start.bytes \in Nat /\ edit.start.bytes <= UINT32_MAX
      /\ edit.old_end.bytes \in Nat /\ edit.old_end.bytes <= UINT32_MAX
      /\ edit.new_end.bytes \in Nat /\ edit.new_end.bytes <= UINT32_MAX
  BY PlaceBytes DEF ProperEdit, Place
<1> DEFINE b == place.bytes
           o == edit.old_end.bytes
           n == edit.new_end.bytes
           point == point_add(Extent(edit.new_end),
                              point_sub(Extent(place), Extent(edit.old_end)))
           sum == Len3((n + (b - o)) % UINT_MOD, point)
<1>2. CASE b >= o /\ ~(fixed /\ b = UINT32_MAX)
  <2>1. b - o \in Nat /\ b - o <= UINT32_MAX
    BY <1>1, <1>2, Widths
  <2>2. /\ (n + (b - o)) % UINT_MOD \in 0..UINT32_MAX
        /\ n + (b - o) <= UINT32_MAX => (n + (b - o)) % UINT_MOD = n + (b - o)
        /\ n + (b - o) > UINT32_MAX => (n + (b - o)) % UINT_MOD < n
    BY <1>1, <2>1, WrappedSum
  <2>3. sum \in Place /\ sum.bytes = (n + (b - o)) % UINT_MOD
    <3>1. /\ edit.new_end.row \in Nat /\ edit.new_end.col \in Nat
          /\ edit.old_end.row \in Nat /\ edit.old_end.col \in Nat
      BY DEF ProperEdit, Place
    <3>2. \A i \in Int : i % UINT_MOD \in Nat
      BY SMT DEF UINT_MOD
    <3> DEFINE rest == point_sub(Extent(place), Extent(edit.old_end))
    <3>3. rest.row \in Nat /\ rest.col \in Nat
      BY <1>1, <3>1, <3>2 DEF point_sub, Extent, Point
    <3> HIDE DEF rest
    <3>4. point.row \in Nat /\ point.col \in Nat
      BY <3>1, <3>3 DEF point_add, Extent, Point, rest
    <3> HIDE DEF point
    <3>. QED BY <2>2, <3>4 DEF Len3, Place
  <2>4. MoveBoundary(place, edit, fixed) = IF sum.bytes < n THEN LENGTH_MAX ELSE sum
    BY <1>2 DEF MoveBoundary
  <2>5. LENGTH_MAX \in Place /\ LENGTH_MAX.bytes = UINT32_MAX
    BY Widths DEF LENGTH_MAX, Len3, Point, Place
  <2>6. MovedByte(b, edit) = n + (b - o)
    BY <1>2 DEF MovedByte
  <2> HIDE DEF sum
  <2>7. CASE n + (b - o) <= UINT32_MAX
    <3>1. sum.bytes = n + (b - o) /\ ~(sum.bytes < n)
      BY <2>1, <2>2, <2>3, <2>7, <1>1
    <3>. QED BY <3>1, <2>3, <2>4, <2>6, <1>2
  <2>8. CASE n + (b - o) > UINT32_MAX
    <3>1. sum.bytes < n
      BY <2>2, <2>3, <2>8
    <3>. QED BY <3>1, <2>4, <2>5, <2>6, <2>8, <1>2
  <2>. QED BY <2>1, <2>7, <2>8, <1>1, Widths
<1>3. CASE b >= o /\ fixed /\ b = UINT32_MAX
  BY <1>3 DEF MoveBoundary
<1>4. CASE ~(b >= o)
  <2>0. b # UINT32_MAX
    BY <1>1, <1>4, Widths
  <2>1. MoveBoundary(place, edit, fixed) = IF b > edit.start.bytes THEN edit.start ELSE place
    BY <1>4 DEF MoveBoundary
  <2>2. MovedByte(b, edit) = IF b > edit.start.bytes THEN edit.start.bytes ELSE b
    BY <1>4 DEF MovedByte
  <2>. QED BY <1>4, <2>0, <2>1, <2>2 DEF ProperEdit
<1>. QED BY <1>2, <1>3, <1>4

(* Bytes keep their order.                                                 *)
LEMMA MovedMonotone ==
  ASSUME NEW edit, ProperEdit(edit), NEW x \in Nat, NEW y \in Nat, x <= y
  PROVE  /\ MovedByte(x, edit) \in Nat /\ MovedByte(y, edit) \in Nat
         /\ MovedByte(x, edit) <= MovedByte(y, edit)
<1>1. /\ edit.start.bytes \in Nat /\ edit.old_end.bytes \in Nat /\ edit.new_end.bytes \in Nat
      /\ edit.start.bytes <= edit.old_end.bytes /\ edit.start.bytes <= edit.new_end.bytes
  BY PlaceBytes DEF ProperEdit
<1>. QED BY <1>1 DEF MovedByte

(* An index that is not the last, and the one after it.                    *)
LEMMA Neighbours == \A n \in Nat : \A i \in 1..(n - 1) : i \in 1..n /\ i + 1 \in 1..n /\ i # n
OBVIOUS

(* ts_tree_edit moves the included ranges of a tree with the text: a list  *)
(* the lexer accepts stays one, and a byte before the edit or behind what  *)
(* it inserted is included after it if and only if it was before.          *)
THEOREM EditKeepsRanges ==
  ASSUME NEW ranges, ProperRanges(ranges), NEW edit, ProperEdit(edit),
         \A i \in DOMAIN ranges : MovedByte(ranges[i].start.bytes, edit) < UINT32_MAX
  PROVE  LET after == EditIncludedRanges(ranges, edit)
             shift == edit.new_end.bytes - edit.old_end.bytes
         IN  /\ ProperRanges(after)
             /\ \A b \in Nat : b < edit.start.bytes => (InRanges(b, ranges) <=> InRanges(b, after))
             /\ \A b \in Nat : /\ edit.new_end.bytes <= b
                               /\ b < UINT32_MAX /\ b - shift < UINT32_MAX
                               => (InRanges(b - shift, ranges) <=> InRanges(b, after))
<1> DEFINE after == EditIncludedRanges(ranges, edit)
           shift == edit.new_end.bytes - edit.old_end.bytes
<1>t. /\ DOMAIN ranges = 1..Len(ranges) /\ Len(ranges) \in Nat
      /\ \A i \in DOMAIN ranges :
           /\ ranges[i].start.bytes \in Nat /\ ranges[i].end.bytes \in Nat
           /\ ranges[i].start \in Place /\ ranges[i].end \in Place
           /\ ranges[i].start.bytes <= ranges[i].end.bytes
           /\ ranges[i].start.bytes < UINT32_MAX /\ ranges[i].end.bytes <= UINT32_MAX
           /\ ranges[i].end.bytes = UINT32_MAX => i = Len(ranges)
  <2>1. ranges \in Seq(Span)
    BY DEF ProperRanges
  <2>2. \A i \in DOMAIN ranges : ranges[i].start \in Place /\ ranges[i].end \in Place
    BY <2>1, SpanBytes DEF Span
  <2>. QED BY <2>1, <2>2, SpanBytes DEF ProperRanges, RangesValid
<1>e. /\ edit.start.bytes \in Nat /\ edit.old_end.bytes \in Nat /\ edit.new_end.bytes \in Nat
      /\ edit.start.bytes <= edit.old_end.bytes /\ edit.start.bytes <= edit.new_end.bytes
      /\ edit.old_end.bytes <= UINT32_MAX
  BY PlaceBytes DEF ProperEdit
<1>1. after \in Seq(Span) /\ DOMAIN after = DOMAIN ranges /\ Len(after) = Len(ranges)
  <2>1. \A i \in DOMAIN ranges : /\ MoveBoundary(ranges[i].start, edit, FALSE) \in Place
                                 /\ MoveBoundary(ranges[i].end, edit, TRUE) \in Place
    BY <1>t, MovedPlace
  <2>2. after \in [1..Len(ranges) -> Span]
    BY <1>t, <2>1 DEF EditIncludedRanges, Span
  <2> HIDE DEF after
  <2>. QED BY <1>t, <2>2
<1>2. ASSUME NEW i \in DOMAIN ranges
      PROVE  /\ after[i].start.bytes \in Nat /\ after[i].end.bytes \in Nat
             /\ after[i].start.bytes = MovedByte(ranges[i].start.bytes, edit)
             /\ IF ranges[i].end.bytes = UINT32_MAX THEN after[i].end.bytes = UINT32_MAX
                ELSE \/ after[i].end.bytes = MovedByte(ranges[i].end.bytes, edit)
                     \/ /\ after[i].end.bytes = UINT32_MAX
                        /\ MovedByte(ranges[i].end.bytes, edit) > UINT32_MAX
  <2>1. /\ after[i].start = MoveBoundary(ranges[i].start, edit, FALSE)
        /\ after[i].end = MoveBoundary(ranges[i].end, edit, TRUE)
    BY DEF EditIncludedRanges
  <2>2. MovedByte(ranges[i].start.bytes, edit) \in Nat /\ MovedByte(ranges[i].end.bytes, edit) \in Nat
    BY <1>t, <1>e DEF MovedByte
  <2>3. /\ after[i].start \in Place
        /\ \/ after[i].start.bytes = MovedByte(ranges[i].start.bytes, edit)
           \/ /\ after[i].start.bytes = UINT32_MAX
              /\ MovedByte(ranges[i].start.bytes, edit) > UINT32_MAX
    <3>1. LET moved == MoveBoundary(ranges[i].start, edit, FALSE) IN
          /\ moved \in Place
          /\ \/ moved.bytes = MovedByte(ranges[i].start.bytes, edit)
             \/ moved.bytes = UINT32_MAX /\ MovedByte(ranges[i].start.bytes, edit) > UINT32_MAX
      BY <1>t, MovedPlace, Zenon
    <3>. QED BY <2>1, <3>1
  <2>4. /\ after[i].end \in Place
        /\ ranges[i].end.bytes = UINT32_MAX => after[i].end.bytes = UINT32_MAX
        /\ ranges[i].end.bytes # UINT32_MAX =>
              \/ after[i].end.bytes = MovedByte(ranges[i].end.bytes, edit)
              \/ /\ after[i].end.bytes = UINT32_MAX
                 /\ MovedByte(ranges[i].end.bytes, edit) > UINT32_MAX
    <3>1. LET moved == MoveBoundary(ranges[i].end, edit, TRUE) IN
          /\ moved \in Place
          /\ ranges[i].end.bytes = UINT32_MAX => moved.bytes = UINT32_MAX
          /\ ranges[i].end.bytes # UINT32_MAX =>
                \/ moved.bytes = MovedByte(ranges[i].end.bytes, edit)
                \/ moved.bytes = UINT32_MAX /\ MovedByte(ranges[i].end.bytes, edit) > UINT32_MAX
      BY <1>t, MovedPlace, Zenon
    <3>. QED BY <2>1, <3>1
  <2> HIDE DEF after
  <2>5. ~(MovedByte(ranges[i].start.bytes, edit) > UINT32_MAX)
    BY <2>2, Widths
  <2>6. after[i].start.bytes \in Nat /\ after[i].end.bytes \in Nat
    BY <2>3, <2>4, PlaceBytes
  <2>. QED BY <2>3, <2>4, <2>5, <2>6, <1>t, <1>e
<1> HIDE DEF after
<1>3. ProperRanges(after)
  <2>1. ASSUME NEW i \in DOMAIN ranges PROVE after[i].start.bytes <= after[i].end.bytes
    <3>1. MovedByte(ranges[i].start.bytes, edit) <= MovedByte(ranges[i].end.bytes, edit)
      BY <1>t, MovedMonotone
    <3>. QED BY <3>1, <1>2, Widths
  <2>2. ASSUME NEW i \in 1..(Len(ranges) - 1) PROVE after[i].end.bytes <= after[i + 1].start.bytes
    <3>0. Len(ranges) \in Nat /\ DOMAIN ranges = 1..Len(ranges)
      BY <1>t
    <3>a. i \in 1..Len(ranges) /\ i + 1 \in 1..Len(ranges) /\ i # Len(ranges)
      BY <3>0, Neighbours
    <3>1. i \in DOMAIN ranges /\ i + 1 \in DOMAIN ranges /\ i # Len(ranges)
      BY <3>0, <3>a
    <3>2. ranges[i].end.bytes <= ranges[i + 1].start.bytes /\ ranges[i].end.bytes # UINT32_MAX
      BY <3>1, <1>t, Widths DEF ProperRanges, RangesValid
    <3>3. /\ MovedByte(ranges[i].end.bytes, edit) <= MovedByte(ranges[i + 1].start.bytes, edit)
          /\ MovedByte(ranges[i].end.bytes, edit) \in Nat
          /\ MovedByte(ranges[i + 1].start.bytes, edit) \in Nat
      BY <3>1, <3>2, <1>t, MovedMonotone
    <3>5. MovedByte(ranges[i + 1].start.bytes, edit) < UINT32_MAX
      BY <3>1
    <3>6. after[i].end.bytes = MovedByte(ranges[i].end.bytes, edit)
      BY <3>1, <3>2, <3>3, <3>5, <1>2, Widths
    <3>. QED BY <3>1, <3>3, <3>6, <1>2
  <2>3. ASSUME NEW i \in DOMAIN ranges, after[i].end.bytes = UINT32_MAX PROVE i = Len(ranges)
    <3> SUFFICES ASSUME i # Len(ranges) PROVE FALSE
      OBVIOUS
    <3>1. i \in 1..(Len(ranges) - 1) /\ i + 1 \in DOMAIN ranges
      BY <1>t
    <3>2. after[i].end.bytes <= after[i + 1].start.bytes
      BY <2>2, <3>1
    <3>3. after[i + 1].start.bytes < UINT32_MAX /\ after[i + 1].start.bytes \in Nat
      BY <3>1, <1>2
    <3>. QED BY <2>3, <3>2, <3>3, Widths
  <2>4. RangesValid(after)
    BY <2>1, <2>2, <1>1 DEF RangesValid
  <2>. QED BY <2>3, <2>4, <1>1, <1>2 DEF ProperRanges
<1>4. ASSUME NEW b \in Nat, b < edit.start.bytes PROVE InRanges(b, ranges) <=> InRanges(b, after)
  <2>1. ASSUME NEW i \in DOMAIN ranges
        PROVE  /\ ranges[i].start.bytes <= b <=> after[i].start.bytes <= b
               /\ b < ranges[i].end.bytes <=> b < after[i].end.bytes
    <3>1. /\ ranges[i].start.bytes <= b <=> MovedByte(ranges[i].start.bytes, edit) <= b
          /\ b < ranges[i].end.bytes <=> b < MovedByte(ranges[i].end.bytes, edit)
      BY <1>4, <1>t, <1>e DEF MovedByte
    <3>2. b < UINT32_MAX
      BY <1>4, <1>e, Widths
    <3>3. MovedByte(ranges[i].end.bytes, edit) \in Nat
      BY <1>t, <1>e DEF MovedByte
    <3>. QED BY <3>1, <3>2, <3>3, <1>2, Widths
  <2>. QED BY <2>1, <1>1 DEF InRanges
<1>5. ASSUME NEW b \in Nat, edit.new_end.bytes <= b, b < UINT32_MAX, b - shift < UINT32_MAX
      PROVE  InRanges(b - shift, ranges) <=> InRanges(b, after)
  <2>1. ASSUME NEW i \in DOMAIN ranges
        PROVE  /\ ranges[i].start.bytes <= b - shift <=> after[i].start.bytes <= b
               /\ b - shift < ranges[i].end.bytes <=> b < after[i].end.bytes
    <3>1. ranges[i].start.bytes <= b - shift <=> MovedByte(ranges[i].start.bytes, edit) <= b
      BY <1>5, <1>t, <1>e DEF MovedByte
    <3>2. b - shift < ranges[i].end.bytes <=> b < MovedByte(ranges[i].end.bytes, edit)
      BY <1>5, <1>t, <1>e DEF MovedByte
    <3>3. MovedByte(ranges[i].end.bytes, edit) \in Nat /\ b - shift \in Int
      BY <1>t, <1>e DEF MovedByte
    <3> HIDE DEF shift
    <3>. QED BY <3>1, <3>2, <3>3, <1>2, <1>5, Widths
  <2> HIDE DEF shift
  <2>. QED BY <2>1, <1>1 DEF InRanges
<1>. QED BY <1>3, <1>4, <1>5 DEF after
=============================================================================
