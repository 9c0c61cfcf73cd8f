------------------------------ MODULE RangeArrays ------------------------------
(* Lists of ranges of the text: how they are built, which bytes are in only   *)
(* one of two lists (get_changed_ranges.c), and what an edit does to the      *)
(* included ranges of a tree (tree.c).  A range is a record of two Lengths,   *)
(* start and end.                                                             *)
EXTENDS Length, SequencesExt

\* A place of a text, and a range of it.
Place == [bytes : 0 .. UINT32_MAX, row : Nat, col : Nat]
Span == [start : Place, end : Place]

\* The bytes that a list of ranges includes.
InRanges(b, ranges) ==
    \E i \in DOMAIN ranges : ranges[i].start.bytes <= b /\ b < ranges[i].end.bytes

\* The lists that ts_lexer_set_included_ranges accepts: no range runs backwards or
\* begins before the end of the one in front of it.
RangesValid(ranges) ==
    /\ \A i \in DOMAIN ranges : ranges[i].start.bytes <= ranges[i].end.bytes
    /\ \A i \in 1 .. Len(ranges) - 1 : ranges[i].end.bytes <= ranges[i + 1].start.bytes

\* The lists that come about: only the default range and what edits make of it
\* reach the end of all texts, so that at most the last range of a list does.
ProperRanges(ranges) ==
    /\ ranges \in Seq(Span)
    /\ RangesValid(ranges)
    /\ \A i \in DOMAIN ranges :
          /\ ranges[i].start.bytes < UINT32_MAX
          /\ ranges[i].end.bytes = UINT32_MAX => i = Len(ranges)

\* Mutant of ts_range_array_add: the last range is extended over a gap.
RangeAddAlwaysExtends(ranges, start, end) ==
    IF ranges # << >> THEN [ranges EXCEPT ![Len(ranges)].end = end]
    ELSE IF start.bytes < end.bytes THEN Append(ranges, [start |-> start, end |-> end])
    ELSE ranges

\* Adds a range after the others; one that starts inside the last extends it.
ts_range_array_add(ranges, start, end) ==
    IF ranges # << >> /\ start.bytes <= Last(ranges).end.bytes
    THEN [ranges EXCEPT ![Len(ranges)].end = end]
    ELSE IF start.bytes < end.bytes THEN Append(ranges, [start |-> start, end |-> end])
    ELSE ranges

\* Whether one of the ranges from `index` on meets the bytes from start to end.
ts_range_array_intersects(ranges, index, start, end) ==
    LET after == {i \in index .. Len(ranges) : ranges[i].end.bytes > start}
    IN  after # {} /\ ranges[Min(after)].start.bytes < end

\* One list being walked: the index of its next range, and whether the walk is
\* inside that range.
NextBoundary(ranges, w) ==
    IF w.inside THEN ranges[w.index].end
    ELSE IF w.index <= Len(ranges) THEN ranges[w.index].start ELSE LENGTH_MAX
Cross(w) == [inside |-> ~w.inside, index |-> IF w.inside THEN w.index + 1 ELSE w.index]

\* The walk along both lists: where it stands in each, the position up to which
\* they are compared, and the differences found before it.
WalkStart == LET before == [index |-> 1, inside |-> FALSE]
             IN  [old |-> before, new |-> before, position |-> length_zero, differences |-> << >>]
AllCompared(olds, news, w) == w.old.index > Len(olds) /\ w.new.index > Len(news)

\* One round of the loop: to the next boundary of either list, or over both.
CompareNext(olds, news, w) ==
    LET next_old == NextBoundary(olds, w.old)
        next_new == NextBoundary(news, w.new)
        next == IF next_old.bytes < next_new.bytes THEN next_old ELSE next_new
    IN  IF AllCompared(olds, news, w) THEN w
        ELSE [old |-> IF next_old.bytes <= next_new.bytes THEN Cross(w.old) ELSE w.old,
              new |-> IF next_new.bytes <= next_old.bytes THEN Cross(w.new) ELSE w.new,
              position |-> next,
              differences |-> IF w.old.inside # w.new.inside
                              THEN ts_range_array_add(w.differences, w.position, next)
                              ELSE w.differences]
CompareRounds(olds, news) ==
    LET at[n \in Nat] == IF n = 0 THEN WalkStart ELSE CompareNext(olds, news, at[n - 1]) IN at

\* Every round crosses a boundary, so that the loop has ended when there have been
\* as many rounds as there are boundaries.
BoundaryCount(olds, news) == 2 * (Len(olds) + Len(news))
ts_range_array_get_changed_ranges(olds, news) ==
    CompareRounds(olds, news)[BoundaryCount(olds, news)].differences

\* Mutant of MoveBoundary: the inserted text is not counted.
MoveBoundaryDeletes(boundary, edit, fixed_at_max) ==
    IF boundary.bytes >= edit.old_end.bytes
    THEN IF fixed_at_max /\ boundary.bytes = UINT32_MAX THEN boundary
         ELSE length_add(edit.start, length_sub(boundary, edit.old_end))
    ELSE IF boundary.bytes > edit.start.bytes THEN edit.start
    ELSE boundary

\* A boundary of an included range moves with the text after an edit, or back
\* to the start of the edit; one at the end of all texts stays there.
MoveBoundary(boundary, edit, fixed_at_max) ==
    LET moved == Len3((edit.new_end.bytes + (boundary.bytes - edit.old_end.bytes)) % UINT_MOD,
                      point_add(Extent(edit.new_end),
                                point_sub(Extent(boundary), Extent(edit.old_end))))
    IN  IF boundary.bytes >= edit.old_end.bytes
        THEN IF fixed_at_max /\ boundary.bytes = UINT32_MAX THEN boundary
             ELSE IF moved.bytes < edit.new_end.bytes THEN LENGTH_MAX ELSE moved
        ELSE IF boundary.bytes > edit.start.bytes THEN edit.start
        ELSE boundary
EditIncludedRanges(ranges, edit) ==
    [i \in DOMAIN ranges |-> [start |-> MoveBoundary(ranges[i].start, edit, FALSE),
                              end |-> MoveBoundary(ranges[i].end, edit, TRUE)]]
=============================================================================
