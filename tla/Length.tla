------------------------------- MODULE Length -------------------------------
(* Byte counts with their row and column extents (length.h, point.h).  A      *)
(* Length is the distance between two places of the text: the bytes, the      *)
(* newlines crossed and, after the last of them, the columns.                 *)
EXTENDS Integers

\* The modulus of the unsigned counters.  The code's is 2^32, TLC's integers
\* stop short of it; a difference that wraps is huge under either modulus.
UINT_MOD == 1073741824
UINT32_MAX == UINT_MOD - 1

Point(r, c) == [row |-> r, col |-> c]
POINT_ZERO == Point(0, 0)

point_add(a, b) ==
    IF b.row > 0 THEN Point(a.row + b.row, b.col) ELSE Point(a.row, a.col + b.col)

point_sub(a, b) ==
    IF a.row > b.row THEN Point(a.row - b.row, a.col)
                     ELSE Point(0, (a.col - b.col) % UINT_MOD)

point_lt(a, b) == a.row < b.row \/ (a.row = b.row /\ a.col < b.col)
point_lte(a, b) == a.row < b.row \/ (a.row = b.row /\ a.col <= b.col)

Extent(l) == Point(l.row, l.col)
Len3(n, p) == [bytes |-> n, row |-> p.row, col |-> p.col]

LENGTH_UNDEFINED == Len3(0, Point(0, 1))
LENGTH_MAX == Len3(UINT32_MAX, Point(UINT32_MAX, UINT32_MAX))
length_zero == Len3(0, POINT_ZERO)

length_is_undefined(l) == l.bytes = 0 /\ l.col # 0
length_min(a, b) == IF a.bytes < b.bytes THEN a ELSE b
length_add(a, b) == Len3(a.bytes + b.bytes, point_add(Extent(a), Extent(b)))
length_sub(a, b) ==
    Len3((a.bytes - b.bytes) % UINT_MOD, point_sub(Extent(a), Extent(b)))
length_saturating_sub(a, b) ==
    IF a.bytes > b.bytes THEN length_sub(a, b) ELSE length_zero
=============================================================================
