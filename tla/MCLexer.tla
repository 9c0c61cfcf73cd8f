------------------------------- MODULE MCLexer -------------------------------
(* Texts with newlines, characters of two bytes, invalid bytes and a byte     *)
(* order mark, each with every list of at most two ranges that begin and end  *)
(* with a character: empty, adjoining, overlapping and backward ones.         *)
EXTENDS LexerClient

MCTexts == {<< >>, <<"n">>, <<"a", "n", "a">>, <<"a", "L", "C", "n">>, <<"a", "L", "C", "a">>,
            <<"L", "C", "L", "a">>, <<"L", "C", "L">>, <<"L", "C", "L", "C">>,
            <<"B", "C", "a", "n">>, <<"a", "n", "L", "C", "a">>, <<"a", "n", "a", "a">>}
=============================================================================
