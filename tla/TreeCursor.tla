------------------------------ MODULE TreeCursor ------------------------------
(* The tree cursor (tree_cursor.c): the path from the node it was made for to *)
(* the current node, hidden nodes included.  A cursor is the record of its    *)
(* stack and of root_alias_symbol.  An entry of the stack has the fields of   *)
(* TreeCursorEntry; its indices count from 0 as in the code.                  *)
EXTENDS Subtree

CursorEntry(t, position, child_index, structural, descendant) ==
    [subtree |-> t, position |-> position, child_index |-> child_index,
     structural_child_index |-> structural, descendant_index |-> descendant]

ts_tree_cursor_init(t, position, alias) ==
    [stack |-> << CursorEntry(t, position, 0, 0, 0) >>, root_alias_symbol |-> alias]

ProductionOf(t) == IF t.children = << >> THEN 0 ELSE t.production_id

\* Whether entry i of the stack is visible; the first always is.
ts_tree_cursor_is_entry_visible(self, i) ==
    LET entry == self.stack[i] IN
    \/ i = 1
    \/ entry.subtree.visible
    \/ /\ ~entry.subtree.extra
       /\ ts_language_alias_at(ProductionOf(self.stack[i - 1].subtree),
                               entry.structural_child_index) # 0

AliasedAt(parent, t, structural) ==
    ~t.extra /\ ts_language_alias_at(ProductionOf(parent), structural) # 0

\* The next entry among the children of `parent`, after one that is given.
ts_tree_cursor_child_iterator_next(parent, entry) ==
    LET t == entry.subtree
        next == parent.children[entry.child_index + 2]
        visible == t.visible \/ AliasedAt(parent, t, entry.structural_child_index)
    IN  CursorEntry(next,
            length_add(length_add(entry.position, t.size), next.padding),
            entry.child_index + 1,
            entry.structural_child_index + (IF t.extra THEN 0 ELSE 1),
            entry.descendant_index + t.visible_descendant_count + (IF visible THEN 1 ELSE 0))

\* The children of the current node, from the first to the last.
ts_tree_cursor_iterate_children(self) ==
    LET here == Last(self.stack)
        t == here.subtree
        first == CursorEntry(t.children[1], here.position, 0, 0,
                    here.descendant_index
                        + (IF ts_tree_cursor_is_entry_visible(self, Len(self.stack)) THEN 1 ELSE 0))
    IN  IF t.children = << >> THEN << >>
        ELSE FoldLeft(LAMBDA acc, i : Append(acc, ts_tree_cursor_child_iterator_next(t, Last(acc))),
                      <<first>>, [i \in 1 .. Len(t.children) - 1 |-> i])

\* The position from which b leads to a, when b does not cross rows.
length_backtrack(a, b) ==
    IF length_is_undefined(a) \/ b.row # 0 THEN LENGTH_UNDEFINED
    ELSE Len3((a.bytes - b.bytes) % UINT_MOD, Point(a.row, (a.col - b.col) % UINT_MOD))

\* The entry before one that is given.  Its descendant index is not computed, and
\* its structural index changes only below a production that has aliases.
ts_tree_cursor_child_iterator_previous(parent, entry) ==
    LET t == entry.subtree
        previous == parent.children[entry.child_index]
        back == length_backtrack(length_backtrack(entry.position, t.padding), previous.size)
        counted == ~t.extra /\ parent.production_id # 0
    IN  CursorEntry(previous, back, entry.child_index - 1,
            (entry.structural_child_index - (IF counted THEN 1 ELSE 0)) % UINT_MOD, 0)

\* The entries after one that is given, and those before it, nearest first.  The
\* way back compares the index with -1 as a signed byte, so that 255 ends it too.
RECURSIVE EntriesAfter(_, _), EntriesBefore(_, _)
EntriesAfter(parent, entry) ==
    IF entry.child_index + 1 = Len(parent.children) THEN << >>
    ELSE LET next == ts_tree_cursor_child_iterator_next(parent, entry)
         IN  << next >> \o EntriesAfter(parent, next)
EntriesBefore(parent, entry) ==
    IF entry.child_index % 256 \in {0, 255} THEN << >>
    ELSE LET previous == ts_tree_cursor_child_iterator_previous(parent, entry)
         IN  << previous >> \o EntriesBefore(parent, previous)

-----------------------------------------------------------------------------
(* Moving.  A move that fails leaves the cursor as it was; `moved` tells.     *)

Moved(self) == [cursor |-> self, moved |-> TRUE]
NotMoved(self) == [cursor |-> self, moved |-> FALSE]
PushEntry(self, entry) == [self EXCEPT !.stack = Append(@, entry)]
Pop(self, n) == [self EXCEPT !.stack = SubSeq(@, 1, Len(@) - n)]

EntryVisible(parent, entry) ==
    entry.subtree.visible \/ AliasedAt(parent, entry.subtree, entry.structural_child_index)

\* Mutant of Shown: hidden entries are passed over.
ShownVisible(parent, entries) == SelectSeq(entries, LAMBDA e : EntryVisible(parent, e))

\* The first of some entries that is visible or has something visible below.
Shown(parent, entries) ==
    SelectSeq(entries, LAMBDA e : EntryVisible(parent, e) \/ e.subtree.visible_child_count > 0)

\* One step down, to an entry that may be hidden.
ts_tree_cursor_goto_first_child_internal(self) ==
    LET shown == Shown(Last(self.stack).subtree, ts_tree_cursor_iterate_children(self))
    IN  IF shown = << >> THEN << >> ELSE << PushEntry(self, Head(shown)) >>
ts_tree_cursor_goto_last_child_internal(self) ==
    LET shown == Shown(Last(self.stack).subtree, ts_tree_cursor_iterate_children(self))
    IN  IF shown = << >> THEN << >> ELSE << PushEntry(self, Last(shown)) >>

CurrentShown(self) ==
    EntryVisible(self.stack[Len(self.stack) - 1].subtree, Last(self.stack))

\* Steps down until the entry is visible.
RECURSIVE ts_tree_cursor_goto_first_child(_), ts_tree_cursor_goto_last_child(_)
ts_tree_cursor_goto_first_child(self) ==
    LET down == ts_tree_cursor_goto_first_child_internal(self)
    IN  IF down = << >> THEN NotMoved(self)
        ELSE IF CurrentShown(down[1]) THEN Moved(down[1])
        ELSE ts_tree_cursor_goto_first_child(down[1])
ts_tree_cursor_goto_last_child(self) ==
    LET down == ts_tree_cursor_goto_last_child_internal(self)
    IN  IF down = << >> THEN NotMoved(self)
        ELSE IF CurrentShown(down[1]) THEN Moved(down[1])
        ELSE ts_tree_cursor_goto_last_child(down[1])

\* Up through hidden nodes until there is a sibling on the side that is asked
\* for; a visible node on the way up ends the search.
RECURSIVE ts_tree_cursor_goto_sibling_internal(_, _, _)
ts_tree_cursor_goto_sibling_internal(self, size, forward) ==
    LET entry == Last(self.stack)
        up == Pop(self, 1)
        parent == Last(up.stack).subtree
        beside == IF forward THEN EntriesAfter(parent, entry) ELSE EntriesBefore(parent, entry)
        shown == Shown(parent, beside)
        seen == EntryVisible(parent, entry) /\ (forward \/ entry.child_index % 256 # 255)
    IN  IF Len(self.stack) = 1 THEN << >>
        ELSE IF seen /\ Len(self.stack) < size THEN << >>
        ELSE IF shown = << >> THEN ts_tree_cursor_goto_sibling_internal(up, size, forward)
        ELSE << PushEntry(up, Head(shown)) >>

ts_tree_cursor_goto_next_sibling_internal(self) ==
    ts_tree_cursor_goto_sibling_internal(self, Len(self.stack), TRUE)

\* The sibling that was found, or what shows in it nearest to where it was left.
SettleOn(self, found, forward) ==
    IF found = << >> THEN NotMoved(self)
    ELSE IF CurrentShown(found[1]) THEN Moved(found[1])
    ELSE Moved((IF forward THEN ts_tree_cursor_goto_first_child(found[1])
                ELSE ts_tree_cursor_goto_last_child(found[1])).cursor)

ts_tree_cursor_goto_next_sibling(self) ==
    SettleOn(self, ts_tree_cursor_goto_next_sibling_internal(self), TRUE)

\* Mutant of RestorePosition: the position is left undefined.
KeepUndefined(self) == self

\* Where rows were crossed the position is computed again from the parent.
RestorePosition(self) ==
    LET parent == self.stack[Len(self.stack) - 1]
        entry == Last(self.stack)
        kids == parent.subtree.children
        i == entry.child_index
        before == FoldLeft(LAMBDA p, k : length_add(p, ts_subtree_total_size(k)),
                           length_add(parent.position, kids[1].size), SubSeq(kids, 2, i))
        position == IF i = 0 THEN parent.position ELSE length_add(before, kids[i + 1].padding)
    IN  IF ~length_is_undefined(entry.position) THEN self
        ELSE [self EXCEPT !.stack[Len(self.stack)].position = position]

RestoreIn(found) == IF found = << >> THEN << >> ELSE << RestorePosition(found[1]) >>

ts_tree_cursor_goto_previous_sibling_internal(self) ==
    RestoreIn(ts_tree_cursor_goto_sibling_internal(self, Len(self.stack), FALSE))

ts_tree_cursor_goto_previous_sibling(self) ==
    SettleOn(self, ts_tree_cursor_goto_previous_sibling_internal(self), FALSE)

VisibleAbove(self) ==
    {i \in 1 .. Len(self.stack) - 1 : ts_tree_cursor_is_entry_visible(self, i)}

ts_tree_cursor_goto_parent(self) ==
    LET above == VisibleAbove(self) IN
    IF above = {} THEN NotMoved(self)
    ELSE Moved([self EXCEPT !.stack = SubSeq(@, 1, Max(above))])

\* How many visible children of its parent an entry stands for.
VisibleWeight(parent, entry) ==
    IF EntryVisible(parent, entry) THEN 1 ELSE entry.subtree.visible_child_count

\* Down to the first child that ends after the goal; the answer is its index
\* among the visible children, -1 when there is none.
RECURSIVE FirstChildFrom(_, _, _, _)
FirstChildFrom(self, goal_byte, goal_point, index) ==
    LET here == Last(self.stack).subtree
        entries == ts_tree_cursor_iterate_children(self)
        End(e) == length_add(e.position, e.subtree.size)
        Weight(e) == VisibleWeight(here, e)
        hits == {i \in DOMAIN entries :
                    /\ End(entries[i]).bytes > goal_byte
                    /\ point_lt(goal_point, Extent(End(entries[i])))
                    /\ Weight(entries[i]) > 0}
        i == Min(hits)
        passed == index + SumOf(Weight, SubSeq(entries, 1, i - 1))
    IN  IF hits = {} THEN [cursor |-> << >>, index |-> -1]
        ELSE IF EntryVisible(here, entries[i])
        THEN [cursor |-> << PushEntry(self, entries[i]) >>, index |-> passed]
        ELSE FirstChildFrom(PushEntry(self, entries[i]), goal_byte, goal_point, passed)
OrStay(self, found) ==
    IF found.cursor = << >> THEN [found EXCEPT !.cursor = self]
    ELSE [found EXCEPT !.cursor = @[1]]
ts_tree_cursor_goto_first_child_for_byte_and_point(self, goal_byte, goal_point) ==
    OrStay(self, FirstChildFrom(self, goal_byte, goal_point, 0))

\* Up to the lowest entry that has the goal in or below it, then down to it.
RECURSIVE AscendAround(_, _), DescendTo(_, _)
AscendAround(self, goal) ==
    LET entry == Last(self.stack)
        visible == ts_tree_cursor_is_entry_visible(self, Len(self.stack))
        next == entry.descendant_index + (IF visible THEN 1 ELSE 0)
                    + entry.subtree.visible_descendant_count
    IN  IF entry.descendant_index <= goal /\ goal < next THEN << self >>
        ELSE IF Len(self.stack) = 1 THEN << >> ELSE AscendAround(Pop(self, 1), goal)
DescendTo(self, goal) ==
    LET here == Last(self.stack).subtree
        entries == ts_tree_cursor_iterate_children(self)
        After(e) == e.descendant_index + e.subtree.visible_descendant_count
                        + (IF EntryVisible(here, e) THEN 1 ELSE 0)
        past == SelectSeq(entries, LAMBDA e : After(e) > goal)
        down == PushEntry(self, Head(past))
    IN  IF entries = << >> \/ past = << >> THEN self
        ELSE IF entries[1].descendant_index > goal THEN self
        ELSE IF EntryVisible(here, Head(past)) /\ Head(past).descendant_index = goal THEN down
        ELSE DescendTo(down, goal)
ts_tree_cursor_goto_descendant(self, goal) ==
    LET around == AscendAround(self, goal)
    IN  IF around = << >> THEN Pop(self, Len(self.stack) - 1) ELSE DescendTo(around[1], goal)

-----------------------------------------------------------------------------
(* The current node.                                                          *)

ts_tree_cursor_current_descendant_index(self) == Last(self.stack).descendant_index

ts_tree_cursor_current_alias(self) ==
    LET entry == Last(self.stack) IN
    IF entry.subtree.extra THEN 0
    ELSE IF Len(self.stack) = 1 THEN self.root_alias_symbol
    ELSE ts_language_alias_at(ProductionOf(self.stack[Len(self.stack) - 1].subtree),
                              entry.structural_child_index)

\* The visible node above the current one: its place in the stack and its alias.
\* An alias counts whatever the node is, an extra one too.
ts_tree_cursor_parent_node(self) ==
    LET Alias(i) == IF i = 1 THEN 0
                    ELSE ts_language_alias_at(ProductionOf(self.stack[i - 1].subtree),
                                              self.stack[i].structural_child_index)
        above == {i \in 1 .. Len(self.stack) - 1 :
                    i = 1 \/ Alias(i) # 0 \/ self.stack[i].subtree.visible}
    IN  IF above = {} THEN << >> ELSE << [index |-> Max(above), alias |-> Alias(Max(above))] >>

ts_tree_cursor_current_depth(self) ==
    Cardinality({i \in 2 .. Len(self.stack) : ts_tree_cursor_is_entry_visible(self, i)})

\* Mutant of WrappersOf: the hidden ancestors are left out.
WrappersNone(self) == IF Len(self.stack) = 1 THEN << >> ELSE << Len(self.stack) >>

\* The current node and its hidden ancestors, from the inside: the entries whose
\* fields may name the current node.
WrappersOf(self) ==
    LET n == Len(self.stack)
        Inside(i) == \A j \in i .. n - 1 : ~ts_tree_cursor_is_entry_visible(self, j)
        inside == {i \in 2 .. n : Inside(i)}
    IN  Reverse(SetToSortSeq(inside, <))

\* The fields that the parent's production gives to entry i directly.
OwnFields(self, i) ==
    SelectSeq(ts_language_field_map(ProductionOf(self.stack[i - 1].subtree)),
              LAMBDA m : ~m.inherited /\ m.child = self.stack[i].structural_child_index)

ts_tree_cursor_current_field_id(self) ==
    LET wrappers == WrappersOf(self)
        extra == {i \in DOMAIN wrappers : self.stack[wrappers[i]].subtree.extra}
        asked == IF extra = {} THEN wrappers ELSE SubSeq(wrappers, 1, Min(extra) - 1)
        named == SelectSeq(asked, LAMBDA i : OwnFields(self, i) # << >>)
    IN  IF named = << >> THEN 0 ELSE OwnFields(self, named[1])[1].field

-----------------------------------------------------------------------------
(* What a query needs to know of the current node.                            *)

EntrySymbol(parent, t, structural) ==
    IF AliasedAt(parent, t, structural)
    THEN ts_language_alias_at(ProductionOf(parent), structural) ELSE t.symbol

\* The room that the query cursor has for supertypes.
max_supertypes == 8

\* What one wrapper adds: the siblings after it, unless some were already found,
\* its field, unless one was found, and whether that field may come again.
StatusOf(self, status, i) ==
    LET entry == self.stack[i]
        parent == self.stack[i - 1].subtree
        symbol == EntrySymbol(parent, entry.subtree, entry.structural_child_index)
        after == EntriesAfter(parent, entry)
        Metadata(e) == ts_language_symbol_metadata(
                          EntrySymbol(parent, e.subtree, e.structural_child_index))
        later == {j \in DOMAIN after : Metadata(after[j]).visible
                                       \/ after[j].subtree.visible_child_count > 0}
        named == {j \in later : IF Metadata(after[j]).visible THEN Metadata(after[j]).named
                                ELSE after[j].subtree.named_child_count > 0}
        map == IF entry.subtree.extra THEN << >> ELSE ts_language_field_map(ProductionOf(parent))
        field == IF status.field # 0 \/ entry.subtree.extra \/ OwnFields(self, i) = << >>
                 THEN status.field ELSE OwnFields(self, i)[1].field
    IN  [field |-> field,
         has_later |-> status.has_later \/ later # {},
         has_later_named |-> status.has_later_named \/ (~status.has_later /\ named # {}),
         can_repeat |-> status.can_repeat
                        \/ (field # 0 /\ \E j \in DOMAIN map :
                                /\ map[j].field = field
                                /\ map[j].child > entry.structural_child_index),
         supertypes |-> IF /\ ts_language_symbol_metadata(symbol).supertype
                           /\ Len(status.supertypes) < max_supertypes
                        THEN Append(status.supertypes, symbol) ELSE status.supertypes]

ts_tree_cursor_current_status(self) ==
    FoldLeft(LAMBDA status, i : StatusOf(self, status, i),
             [field |-> 0, has_later |-> FALSE, has_later_named |-> FALSE,
              can_repeat |-> FALSE, supertypes |-> << >>],
             WrappersOf(self))
=============================================================================
