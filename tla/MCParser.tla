------------------------------- MODULE MCParser -------------------------------
(* Documents of the small language, valid and not, with edits of each.        *)
EXTENDS ParserClient, MCLanguage

\* Calls that may also be two statements, sums that group two ways, a keyword
\* and a word that starts like it, comments, the external token, and texts with
\* errors: an unclosed parenthesis, a token out of place, an unknown character.
MCDocuments ==
    { <<"a", "(", "a", ")">>, <<"a", "+", "a", "+", "a">>, <<"k", " ", "a", "\n", "!">>,
      <<"a", " ", "a", "#", "a", " ", "a">>, <<"!", "a", "!">>, <<"(", "a", "(", "a">>,
      <<"a", ")", "a">>, <<"a", "?", "+", "a">>, << >> }

\* In the middle of the text, at its start and at its end: a character of some
\* kind inserted, or one removed.
MCEditsOf(text) ==
    LET mid == Len(text) \div 2
        Insert(i, ch) == [start |-> i, old_end |-> i, text |-> << ch >>]
    IN  {Insert(mid, ch) : ch \in {"a", " ", "(", "+", "#", "\n"}}
        \cup {Insert(0, "k"), Insert(0, "!"), Insert(Len(text), ")")}
        \cup {[start |-> i, old_end |-> i + 1, text |-> << >>] :
                 i \in {mid} \cap 0 .. Len(text) - 1}
=============================================================================
