------------------------------ MODULE Language ------------------------------
(* Look-ups in the tables of a generated parser (language.h, language.c).     *)
(*                                                                            *)
(* The tables themselves are the constant Lang, a record with the fields of   *)
(* TSLanguage that the runtime reads.  Symbols are numbered as in the code: 0 *)
(* is the end of the text, then the tokens (the external ones first), then    *)
(* the non-terminals.  States are numbered from 0, the error state; a         *)
(* sequence of the tables holds the entry of state s at index s + 1.          *)
EXTENDS Length, Sequences, FiniteSets

CONSTANT Lang

ts_builtin_sym_end == 0
ts_builtin_sym_error == 65535
ts_builtin_sym_error_repeat == ts_builtin_sym_error - 1

ERROR_STATE == 0
START_STATE == 1

\* The symbols that exist beside the language's own.
IsErrorSymbol(sym) == sym \in {ts_builtin_sym_error, ts_builtin_sym_error_repeat}

ts_language_symbol_metadata(sym) ==
    CASE sym = ts_builtin_sym_error -> [visible |-> TRUE, named |-> TRUE, supertype |-> FALSE]
      [] sym = ts_builtin_sym_error_repeat -> [visible |-> FALSE, named |-> FALSE, supertype |-> FALSE]
      [] OTHER -> Lang.symbol_metadata[sym + 1]

ts_language_public_symbol(sym) ==
    IF sym = ts_builtin_sym_error THEN sym ELSE Lang.public_symbol_map[sym + 1]

ts_language_is_symbol_external(sym) == 0 < sym /\ sym < Lang.external_token_count + 1

\* A small state lists groups of symbols that share a value, the others have a
\* full row; 0 is the value of a symbol without an entry.
ts_language_lookup(state, sym) ==
    IF state >= Lang.large_state_count
    THEN LET groups == Lang.small_parse_table[state - Lang.large_state_count + 1]
             hits == {g \in DOMAIN groups : sym \in groups[g].symbols}
         IN  IF hits = {} THEN 0
             ELSE groups[CHOOSE g \in hits : \A h \in hits : g <= h].value
    ELSE Lang.parse_table[state + 1][sym + 1]

ts_language_has_actions(state, sym) == ts_language_lookup(state, sym) # 0

\* The symbols a lookahead iterator visits, with the value of each.
ts_language_lookaheads(state) ==
    IF state >= Lang.large_state_count
    THEN LET groups == Lang.small_parse_table[state - Lang.large_state_count + 1]
         IN  UNION {{<<sym, groups[g].value>> : sym \in groups[g].symbols} :
                    g \in DOMAIN groups}
    ELSE LET row == Lang.parse_table[state + 1]
         IN  {<<i - 1, row[i]>> : i \in {j \in DOMAIN row : row[j] # 0}}

NoEntry == [actions |-> << >>, reusable |-> FALSE]

ts_language_table_entry(state, sym) ==
    IF IsErrorSymbol(sym) THEN NoEntry
    ELSE Lang.parse_actions[ts_language_lookup(state, sym) + 1]

ts_language_actions(state, sym) == ts_language_table_entry(state, sym).actions

ts_language_has_reduce_action(state, sym) ==
    LET actions == ts_language_actions(state, sym)
    IN  actions # << >> /\ actions[1].type = "Reduce"

\* The state that the last of some actions shifts to.
ShiftState(actions, state) ==
    IF actions = << >> THEN 0
    ELSE LET last == actions[Len(actions)]
         IN  IF last.type # "Shift" THEN 0 ELSE IF last.extra THEN state ELSE last.state

ts_language_next_state(state, sym) ==
    IF IsErrorSymbol(sym) THEN 0
    ELSE IF sym < Lang.token_count THEN ShiftState(ts_language_actions(state, sym), state)
    ELSE ts_language_lookup(state, sym)

\* The alias of the structural child at index i (from 0) of a production.
ts_language_alias_at(production_id, i) ==
    IF production_id = 0 \/ i >= Len(Lang.alias_sequences[production_id]) THEN 0
    ELSE Lang.alias_sequences[production_id][i + 1]

\* The fields of a production, sorted by field: which structural child carries
\* which field, and whether it inherits the fields of a hidden child.
ts_language_field_map(production_id) ==
    IF Lang.field_count = 0 \/ production_id = 0 THEN << >>
    ELSE Lang.field_map[production_id]
=============================================================================
