----------------------------- MODULE JsonParser -----------------------------
(***************************************************************************)
(* The pull parser of json_parser.cuh.  Characters are their byte values,  *)
(* a text is a sequence of them.  A parser is                              *)
(*   [chars, beyond, pos, ctx, token, start, deep, comma, colon, matched]: *)
(* the text, the byte that follows it in memory, the next position, the    *)
(* open contexts ("object" or "array", the bits of context_stack), the     *)
(* current token with its first position, max_depth_exceeded, and the      *)
(* three results of parse_next_token_and_set_current.                      *)
(***************************************************************************)
EXTENDS Integers, Sequences, SequencesExt, FiniteSetsExt

CONSTANTS
    MAX_JSON_NESTING_DEPTH,
    max_num_len,
    double_normalization(_)   \* text of a float -> text of its double

QUOTE     == 34
APOS      == 39
BACKSLASH == 92
SLASH     == 47
LBRACE    == 123
RBRACE    == 125
LBRACKET  == 91
RBRACKET  == 93
COMMA     == 44
COLON     == 58
MINUS     == 45
PLUS      == 43
DOT       == 46

new_parser(chars, beyond) ==
    [chars |-> chars, beyond |-> beyond, pos |-> 1, ctx |-> << >>, token |-> "INIT", start |-> 1, deep |-> FALSE,
     comma |-> FALSE, colon |-> FALSE, matched |-> FALSE]

is_digit(c) == c \in 48 .. 57
is_hex_digit(c) == c \in 48 .. 57 \cup 65 .. 70 \cup 97 .. 102
is_whitespace(c) == c \in {32, 9, 10, 13}
is_control(c) == c < 32
hex_value(c) == IF c <= 57 THEN c - 48 ELSE IF c <= 70 THEN c - 55 ELSE c - 87

eof(p) == p.pos > Len(p.chars)
current(p) == IF eof(p) THEN p.beyond ELSE p.chars[p.pos]

\* The first position from pos on whose character is not in class.
end_of(chars, pos, class(_)) ==
    Min({k \in pos .. Len(chars) : ~class(chars[k])} \cup {Len(chars) + 1})

skip_whitespaces(p) == [p EXCEPT !.pos = end_of(p.chars, @, is_whitespace)]

\* try_skip for every character of a word.
try_skip_word(p, word) ==
    p.pos + Len(word) - 1 <= Len(p.chars) /\ SubSeq(p.chars, p.pos, p.pos + Len(word) - 1) = word

set_current_error(p) == [p EXCEPT !.token = "ERROR"]

-----------------------------------------------------------------------------
(* Strings.  A scan is [ok, pos, out]. *)

Scanned(ok, pos, out) == [ok |-> ok, pos |-> pos, out |-> out]

\* codepoint_to_utf8 and from_char_utf8.
utf8(cp) ==
    LET tail(n) == 128 + ((cp \div 2^(6 * n)) % 64)
    IN  IF cp < 128 THEN <<cp>>
        ELSE IF cp < 2048 THEN <<192 + (cp \div 64), tail(0)>>
        ELSE IF cp < 65536 THEN <<224 + (cp \div 4096), tail(1), tail(0)>>
        ELSE <<240 + (cp \div 262144), tail(2), tail(1), tail(0)>>

hex4(chars, pos) == FoldLeft(LAMBDA v, k : 16 * v + hex_value(chars[pos + k]), 0, <<0, 1, 2, 3>>)
has_hex4(chars, pos) == pos + 3 <= Len(chars) /\ \A k \in 0 .. 3 : is_hex_digit(chars[pos + k])

\* Four hex digits, and those of a low surrogate when they are a high one.
try_skip_unicode(chars, pos) ==
    LET skipped(high, low) ==
          IF high \in 55296 .. 56319 /\ low \in 56320 .. 57343
          THEN Scanned(TRUE, pos + 10, utf8(65536 + (high - 55296) * 1024 + (low - 56320)))
          ELSE Scanned(TRUE, pos + 4, utf8(high))
        follows == has_hex4(chars, pos + 6) /\ SubSeq(chars, pos + 4, pos + 5) = <<BACKSLASH, 117>>
    IN  IF ~has_hex4(chars, pos) THEN Scanned(FALSE, pos, << >>)
        ELSE skipped(hex4(chars, pos), IF follows THEN hex4(chars, pos + 6) ELSE 0)

\* The letters of escapes and the control characters they stand for.
escaped_control == [c \in {98, 102, 110, 114, 116} |->
    CASE c = 98 -> 8 [] c = 102 -> 12 [] c = 110 -> 10 [] c = 114 -> 13 [] c = 116 -> 9]

\* What follows a backslash.
try_skip_escape_part(chars, pos, w_style) ==
    LET c == chars[pos]
        kept == IF w_style = "ESCAPED" THEN <<BACKSLASH>> ELSE << >>
    IN  CASE pos > Len(chars)              -> Scanned(FALSE, pos, << >>)
          [] c \in {QUOTE, BACKSLASH}      -> Scanned(TRUE, pos + 1, kept \o <<c>>)
          [] c \in {APOS, SLASH}           -> Scanned(TRUE, pos + 1, <<c>>)
          [] c \in DOMAIN escaped_control  ->
               Scanned(TRUE, pos + 1, IF w_style = "ESCAPED" THEN <<BACKSLASH, c>> ELSE <<escaped_control[c]>>)
          [] c = 117                       -> try_skip_unicode(chars, pos + 1)
          [] OTHER                         -> Scanned(FALSE, pos, << >>)

\* A control character in an escaped string: \n and the like, or \u00XY.
escape_char(c) ==
    LET hex(v) == IF v < 10 THEN 48 + v ELSE 55 + v
        written(letters) == IF letters # {} THEN <<BACKSLASH, CHOOSE l \in letters : TRUE>>
                            ELSE <<BACKSLASH, 117, 48, 48, IF c >= 16 THEN 49 ELSE 48, hex(c % 16)>>
    IN  written({l \in DOMAIN escaped_control : escaped_control[l] = c})

\* The loop of try_parse_string and write_string, up to the closing quote.
RECURSIVE scan_string(_, _, _, _)
scan_string(chars, pos, quote, w_style) ==
    LET one(c) == CASE c = BACKSLASH -> try_skip_escape_part(chars, pos + 1, w_style)
                    [] is_control(c) /\ w_style = "ESCAPED" -> Scanned(TRUE, pos + 1, escape_char(c))
                    [] c = QUOTE /\ w_style = "ESCAPED" -> Scanned(TRUE, pos + 1, <<BACKSLASH, c>>)
                    [] OTHER -> Scanned(TRUE, pos + 1, <<c>>)
        more(part) == IF part.ok
                      THEN [scan_string(chars, part.pos, quote, w_style) EXCEPT !.out = part.out \o @]
                      ELSE part
    IN  IF pos > Len(chars) THEN Scanned(FALSE, pos, << >>)
        ELSE IF chars[pos] = quote THEN Scanned(TRUE, pos + 1, << >>)
        ELSE more(one(chars[pos]))

\* The first character is the quote, whatever it is.
try_parse_string(chars, pos) ==
    IF pos > Len(chars) THEN Scanned(FALSE, pos, << >>)
    ELSE scan_string(chars, pos + 1, chars[pos], "UNESCAPED")

write_string(text, w_style) ==
    LET quoted(body) == IF w_style = "ESCAPED" THEN <<QUOTE>> \o body \o <<QUOTE>> ELSE body
    IN  quoted(scan_string(text, 2, text[1], w_style).out)

parse_string_and_set_current(p) ==
    LET parsed(s) == IF s.ok THEN [p EXCEPT !.pos = s.pos, !.token = "VALUE_STRING"]
                     ELSE set_current_error(p)
    IN  parsed(try_parse_string(p.chars, p.pos))

\* The name of a field; matched says whether it is name, byte by byte.
parse_field_name_and_set_current(p, name) ==
    LET parsed(s, q) == IF s.ok
                        THEN [q EXCEPT !.pos = s.pos, !.token = "FIELD_NAME", !.matched = s.out = name]
                        ELSE set_current_error(q)
    IN  parsed(try_parse_string(p.chars, p.pos), [p EXCEPT !.start = p.pos])

-----------------------------------------------------------------------------
(* Numbers and words. *)

\* try_unsigned_number and what it calls: [ok, pos, digits, float].
try_skip_one_or_more_digits(chars, pos) ==
    LET skipped(end) == [ok |-> end > pos, pos |-> end, digits |-> end - pos]
    IN  skipped(end_of(chars, pos, is_digit))

try_parse_exp(chars, pos) ==
    try_skip_one_or_more_digits(chars, IF pos <= Len(chars) /\ chars[pos] \in {PLUS, MINUS} THEN pos + 1 ELSE pos)

is_at(chars, pos, class) == pos <= Len(chars) /\ chars[pos] \in class

parse_number_from_exponent(chars, fraction, digits, dotted) ==
    LET number(power, exponent) ==
          [ok |-> fraction.ok /\ power.ok, pos |-> power.pos, float |-> dotted \/ exponent,
           digits |-> digits + fraction.digits + power.digits]
    IN  IF is_at(chars, fraction.pos, {69, 101}) THEN number(try_parse_exp(chars, fraction.pos + 1), TRUE)
        ELSE number([fraction EXCEPT !.digits = 0], FALSE)

parse_number_from_fraction(chars, pos, digits) ==
    parse_number_from_exponent(chars,
        IF is_at(chars, pos, {DOT}) THEN try_skip_one_or_more_digits(chars, pos + 1)
        ELSE [ok |-> TRUE, pos |-> pos, digits |-> 0],
        digits, is_at(chars, pos, {DOT}))

\* A number does not begin with 0 and another digit.
try_unsigned_number(chars, pos) ==
    LET number(end) ==
          IF chars[pos] = 48 /\ is_at(chars, end, 48 .. 57)
          THEN [ok |-> FALSE, pos |-> pos, float |-> FALSE, digits |-> 0]
          ELSE parse_number_from_fraction(chars, end, end - pos)
    IN  IF ~is_at(chars, pos, 48 .. 57) THEN [ok |-> FALSE, pos |-> pos, float |-> FALSE, digits |-> 0]
        ELSE number(IF chars[pos] = 48 THEN pos + 1 ELSE end_of(chars, pos, is_digit))

parse_number_and_set_current(p) ==
    LET parsed(n) ==
          IF n.ok /\ (max_num_len <= 0 \/ n.digits <= max_num_len)
          THEN [p EXCEPT !.pos = n.pos, !.token = IF n.float THEN "VALUE_NUMBER_FLOAT" ELSE "VALUE_NUMBER_INT"]
          ELSE set_current_error(p)
    IN  parsed(try_unsigned_number(p.chars, IF ~eof(p) /\ current(p) = MINUS THEN p.pos + 1 ELSE p.pos))

parse_word_and_set_current(p, word, token) ==
    IF try_skip_word(p, word) THEN [p EXCEPT !.pos = @ + Len(word), !.token = token] ELSE set_current_error(p)

parse_true_and_set_current(p)  == parse_word_and_set_current(p, <<116, 114, 117, 101>>, "VALUE_TRUE")
parse_false_and_set_current(p) == parse_word_and_set_current(p, <<102, 97, 108, 115, 101>>, "VALUE_FALSE")
parse_null_and_set_current(p)  == parse_word_and_set_current(p, <<110, 117, 108, 108>>, "VALUE_NULL")

-----------------------------------------------------------------------------
(* Tokens. *)

push_context(p, kind, token) ==
    IF Len(p.ctx) < MAX_JSON_NESTING_DEPTH
    THEN [p EXCEPT !.ctx = Append(@, kind), !.pos = @ + 1, !.token = token]
    ELSE [set_current_error(p) EXCEPT !.deep = TRUE]

pop_context(p, token) == [p EXCEPT !.start = p.pos, !.pos = @ + 1, !.ctx = Front(@), !.token = token]

\* The end of the text has not been checked after a comma or a colon: then
\* the byte in memory after it decides.
parse_first_token_in_value_and_set_current(p) ==
    LET parse(c, q) ==
          CASE c = LBRACE           -> push_context(q, "object", "START_OBJECT")
            [] c = LBRACKET         -> push_context(q, "array", "START_ARRAY")
            [] c \in {QUOTE, APOS}  -> parse_string_and_set_current(q)
            [] c = 116              -> parse_true_and_set_current(q)
            [] c = 102              -> parse_false_and_set_current(q)
            [] c = 110              -> parse_null_and_set_current(q)
            [] OTHER                -> parse_number_and_set_current(q)
    IN  parse(current(p), [p EXCEPT !.start = p.pos])

\* What the next token has to be, behind which mark.
Due(what, mark) == [what |-> what, mark |-> mark]

after_mark(p, mark) ==
    IF mark = "none" THEN p
    ELSE [skip_whitespaces([p EXCEPT !.pos = @ + 1]) EXCEPT !.comma = mark = "comma", !.colon = mark = "colon"]

in_object(token, c) ==
    CASE token # "FIELD_NAME" /\ c = RBRACE -> Due("END_OBJECT", "none")
      [] token = "START_OBJECT" /\ c # RBRACE -> Due("name", "none")
      [] token = "FIELD_NAME" /\ c = COLON -> Due("value", "colon")
      [] token \notin {"START_OBJECT", "FIELD_NAME"} /\ c = COMMA -> Due("name", "comma")
      [] OTHER -> Due("error", "none")

in_array(token, c) ==
    CASE c = RBRACKET -> Due("END_ARRAY", "none")
      [] token = "START_ARRAY" /\ c # RBRACKET -> Due("value", "none")
      [] token # "START_ARRAY" /\ c = COMMA -> Due("value", "comma")
      [] OTHER -> Due("error", "none")

\* Outside of everything there is one value; text behind it is ignored.
in_root(p) == IF eof(p) /\ (p.ctx # << >> \/ p.token = "INIT") THEN Due("error", "none")
              ELSE IF p.token = "INIT" THEN Due("value", "none") ELSE Due("SUCCESS", "none")

parse_due(p, due, name) ==
    CASE due.what = "value" -> parse_first_token_in_value_and_set_current(after_mark(p, due.mark))
      [] due.what = "name" -> parse_field_name_and_set_current(after_mark(p, due.mark), name)
      [] due.what \in {"END_OBJECT", "END_ARRAY"} -> pop_context(p, due.what)
      [] due.what = "SUCCESS" -> [p EXCEPT !.token = "SUCCESS"]
      [] due.what = "error" -> set_current_error(p)

\* matched keeps what the caller's uninitialized flag held unless a field
\* name was parsed; no caller looks at it then.
parse_next_token_and_set_current(parser, name) ==
    LET next(p) == parse_due(p, IF eof(p) \/ p.ctx = << >> THEN in_root(p)
                                ELSE IF Last(p.ctx) = "object" THEN in_object(p.token, current(p))
                                ELSE in_array(p.token, current(p)), name)
    IN  next(skip_whitespaces([parser EXCEPT !.comma = FALSE, !.colon = FALSE, !.matched = FALSE]))

next_token(p) == parse_next_token_and_set_current(p, << >>)

\* [ok, p]: past the children of the current token.
RECURSIVE skip_until_closed(_, _)
skip_until_closed(p, open) ==
    LET still(q) == IF q.token \in {"START_OBJECT", "START_ARRAY"} THEN open + 1
                    ELSE IF q.token \in {"END_OBJECT", "END_ARRAY"} THEN open - 1 ELSE open
        after(q) == IF q.token \in {"ERROR", "SUCCESS"} THEN [ok |-> FALSE, p |-> q]
                    ELSE IF still(q) = 0 THEN [ok |-> TRUE, p |-> q] ELSE skip_until_closed(q, still(q))
    IN  after(next_token(p))

try_skip_children(p) ==
    IF p.token \in {"ERROR", "INIT", "SUCCESS"} THEN [ok |-> FALSE, p |-> p]
    ELSE IF p.token \in {"START_OBJECT", "START_ARRAY"} THEN skip_until_closed(p, 1)
    ELSE [ok |-> TRUE, p |-> p]

-----------------------------------------------------------------------------
(* Output. *)

current_range(p) == SubSeq(p.chars, p.start, p.pos - 1)

\* write_unescaped_text and write_escaped_text, which differ in strings.
\* -0 is written as 0.
write_text(p, w_style) ==
    LET write(text) ==
          CASE p.token \in {"VALUE_STRING", "FIELD_NAME"} -> write_string(text, w_style)
            [] p.token = "VALUE_NUMBER_INT"   -> IF text = <<MINUS, 48>> THEN <<48>> ELSE text
            [] p.token = "VALUE_NUMBER_FLOAT" -> double_normalization(text)
            [] p.token \in {"SUCCESS", "ERROR", "INIT"} -> << >>
            [] OTHER -> text
    IN  write(current_range(p))

write_unescaped_text(p) == write_text(p, "UNESCAPED")
write_escaped_text(p) == write_text(p, "ESCAPED")

\* [ok, p, out]: the current value, without white space; an error leaves
\* what was written before it.
Copy(ok, p, out) == [ok |-> ok, p |-> p, out |-> out]

RECURSIVE copy_until_closed(_, _, _)
copy_until_closed(p, depth, out) ==
    LET marked(q) == out \o (IF q.comma THEN <<COMMA>> ELSE << >>) \o (IF q.colon THEN <<COLON>> ELSE << >>)
                         \o write_escaped_text(q)
        after(q, more) == IF q.token = "ERROR" THEN Copy(FALSE, q, out)
                          ELSE IF Len(q.ctx) = depth - 1 THEN Copy(TRUE, q, more)
                          ELSE copy_until_closed(q, depth, more)
        next(q) == after(q, marked(q))
    IN  next(next_token(p))

copy_current_structure(p) ==
    LET copied(text) == IF p.token \in {"START_OBJECT", "START_ARRAY"}
                        THEN copy_until_closed(p, Len(p.ctx), text) ELSE Copy(TRUE, p, text)
    IN  IF p.token \in {"INIT", "ERROR", "SUCCESS", "FIELD_NAME", "END_ARRAY", "END_OBJECT"}
        THEN Copy(FALSE, p, << >>) ELSE copied(write_escaped_text(p))
=============================================================================
