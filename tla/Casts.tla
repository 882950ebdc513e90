------------------------------- MODULE Casts -------------------------------
(***************************************************************************)
(* cast_string.cu and number_converter.cu: strings to integers, strings to *)
(* decimals, and numbers from one base to another.                         *)
(*                                                                         *)
(* A string is a sequence of one-letter strings.  A type T of integers is  *)
(* [min, max]; the converter's numbers have LongBits bits (64).            *)
(***************************************************************************)
EXTENDS Integers, Sequences, SequencesExt, FiniteSets, FiniteSetsExt

CONSTANT LongBits

Letters == <<"0", "1", "2", "3", "4", "5", "6", "7", "8", "9", "A", "B", "C", "D", "E", "F", "G", "H", "I",
             "J", "K", "L", "M", "N", "O", "P", "Q", "R", "S", "T", "U", "V", "W", "X", "Y", "Z">>
SmallLetters == <<"a", "b", "c", "d", "e", "f", "g", "h", "i", "j", "k", "l", "m", "n", "o", "p", "q", "r",
                  "s", "t", "u", "v", "w", "x", "y", "z">>
DigitChars == {Letters[i] : i \in 1 .. 10}
DigitOf(chr) == (CHOOSE i \in 1 .. 10 : Letters[i] = chr) - 1

Magnitude(x) == IF x < 0 THEN -x ELSE x

is_whitespace_char(chr) == chr \in {" ", "\t", "\n"}

\* How many characters at the front are blank.
Blanks(text) ==
    LET solid == {i \in DOMAIN text : ~is_whitespace_char(text[i])}
    IN  IF solid = {} THEN Len(text) ELSE Min(solid) - 1

-----------------------------------------------------------------------------
(* Digits into a value of type T, up for positive and down for negative ones *)

IsSigned(T) == T.min < 0

tenfold_will_overflow(T, val, adding) ==
    IF IsSigned(T) /\ ~adding THEN val < -((-T.min) \div 10) ELSE val > T.max \div 10
will_overflow(T, lhs, rhs, adding) ==
    IF IsSigned(T) /\ ~adding THEN lhs < T.min + rhs ELSE lhs > T.max - rhs

\* A first value is not multiplied in the code: it is 0.
process_value(T, current, digit, adding) ==
    LET added(val) == IF will_overflow(T, val, digit, adding) THEN [success |-> FALSE, val |-> val]
                      ELSE [success |-> TRUE, val |-> IF adding THEN val + digit ELSE val - digit]
    IN  IF tenfold_will_overflow(T, current, adding) THEN [success |-> FALSE, val |-> current] ELSE added(current * 10)

-----------------------------------------------------------------------------
(* string_to_integer *)

\* One character of the march over what follows the sign.
integer_char(T, s, chr, adding, ansi, strip) ==
    LET digit(new) == [s EXCEPT !.valid = new.success, !.val = new.val, !.first = FALSE]
    IN  IF ~s.valid THEN s
        ELSE IF s.trailing THEN [s EXCEPT !.valid = is_whitespace_char(chr)]
        ELSE IF ~s.truncating /\ chr = "." /\ ~ansi THEN [s EXCEPT !.truncating = TRUE, !.first = FALSE]
        ELSE IF chr \notin DigitChars
             THEN IF is_whitespace_char(chr) /\ ~s.first /\ strip THEN [s EXCEPT !.trailing = TRUE]
                  ELSE [s EXCEPT !.valid = FALSE]
        ELSE IF s.truncating THEN s
        ELSE digit(process_value(T, s.val, DigitOf(chr), adding))

string_to_integer_kernel(T, text, ansi, strip, null) ==
    LET start == IF strip THEN Blanks(text) ELSE 0
        sign(rest) == IF IsSigned(T) /\ rest # <<>> /\ Head(rest) \in {"+", "-"} THEN Head(rest) ELSE ""
        march(rest, adding) ==
          FoldLeft(LAMBDA s, chr : integer_char(T, s, chr, adding, ansi, strip),
                   [valid |-> rest # <<>>, val |-> 0, first |-> TRUE, truncating |-> FALSE, trailing |-> FALSE], rest)
        row(s) == IF s.valid THEN s.val ELSE null
        signed(rest, sgn) == row(march(IF sgn = "" THEN rest ELSE Tail(rest), sgn # "-"))
        from(rest) == signed(rest, sign(rest))
    IN  IF text = null \/ text = <<>> THEN null ELSE from(SubSeq(text, start + 1, Len(text)))

\* The column, or in ANSI mode the first row that became null.
validate_ansi_column(column, texts, ansi, null) ==
    LET errors == {i \in DOMAIN column : column[i] = null /\ texts[i] # null}
    IN  IF ansi /\ errors # {} THEN [row |-> Min(errors), column |-> <<>>] ELSE [row |-> 0, column |-> column]

string_to_integer(T, texts, ansi, strip, null) ==
    validate_ansi_column([i \in DOMAIN texts |-> string_to_integer_kernel(T, texts[i], ansi, strip, null)],
                         texts, ansi, null)

-----------------------------------------------------------------------------
(* string_to_decimal *)

\* validate_char: the state after a character, the point and the sign of the exponent.
validate_char(s, chr, strip) ==
    LET to(state) == [s EXCEPT !.state = state]
        blank     == strip /\ is_whitespace_char(chr) /\ s.num # 0
    IN  CASE s.state = "TRAILING_WHITESPACE" -> IF is_whitespace_char(chr) THEN s ELSE to("INVALID")
          [] s.state \in {"DECIMAL_POINT", "DIGITS"} ->
                IF chr \in DigitChars THEN to("DIGITS")
                ELSE IF chr = "." /\ s.point = -1 THEN [to("DECIMAL_POINT") EXCEPT !.point = s.num]
                ELSE IF chr \in {"e", "E"} THEN to("EXPONENT_OR_SIGN")
                ELSE IF blank THEN to("TRAILING_WHITESPACE") ELSE to("INVALID")
          [] s.state = "EXPONENT_OR_SIGN" ->
                IF chr \in {"+", "-"} THEN [to("EXPONENT_SIGN") EXCEPT !.up = chr = "+"]
                ELSE IF blank THEN to("TRAILING_WHITESPACE")
                ELSE IF chr \in DigitChars THEN to("EXPONENT") ELSE to("INVALID")
          [] s.state \in {"EXPONENT_SIGN", "EXPONENT"} -> IF chr \in DigitChars THEN to("EXPONENT") ELSE to("INVALID")
          [] s.state = "INVALID" -> s

\* One character of the first pass: where the digits end, and the exponent.
exponent_char(T, s, chr, strip) ==
    LET exponent(s1, new) == [s1 EXCEPT !.exponent = new.val, !.state = IF new.success THEN @ ELSE "INVALID"]
        ended(s1) == IF s.state = "DIGITS" /\ s1.state \notin {"DIGITS", "DECIMAL_POINT"} THEN [s1 EXCEPT !.last = s.num] ELSE s1
        next(s1) == IF s1.state = "EXPONENT" THEN exponent(s1, process_value(T, s1.exponent, DigitOf(chr), s1.up)) ELSE s1
    IN  [next(ended(validate_char(s, chr, strip))) EXCEPT !.num = @ + 1]

\* The sign is read even where the text ends: there it is the next character of the column.
SignAt(text, i, next) == IF i < Len(text) THEN text[i + 1] ELSE next

\* The exponent has the decimal's type; the location it is added to is an int.
Narrowed(int, x) == ((x - int.min) % (int.max - int.min + 1)) + int.min

validate_and_exponent(T, int, text, next, strip) ==
    LET start == IF strip THEN Blanks(text) ELSE 0
        first(sign) == IF sign \in {"+", "-"} THEN start + 1 ELSE start
        pass(i) == FoldLeft(LAMBDA s, chr : exponent_char(T, s, chr, strip),
                            [state |-> "DIGITS", point |-> -1, up |-> TRUE, exponent |-> 0, num |-> 0, last |-> Len(text) - i],
                            SubSeq(text, i + 1, Len(text)))
        found(s, i, sign) == [valid |-> s.state # "INVALID", positive |-> sign # "-", first |-> i,
                              location |-> Narrowed(int, (IF s.point < 0 THEN s.last ELSE s.point) + s.exponent)]
        checked(i, sign) == IF i = Len(text) THEN [valid |-> FALSE] ELSE found(pass(i), i, sign)
        from(sign) == checked(first(sign), sign)
    IN  from(SignAt(text, start, next))

\* Digits among the first num_digits ones, without leading zeros.
count_significant_digits(text, num_digits) ==
    LET step(s, chr) == IF s.stop \/ s.found >= num_digits \/ chr \in {"e", "E"} THEN [s EXCEPT !.stop = TRUE]
                        ELSE IF chr = "." THEN s
                        ELSE [s EXCEPT !.found = @ + 1, !.count = IF @ # 0 \/ chr # "0" THEN @ + 1 ELSE @]
    IN  FoldLeft(step, [stop |-> FALSE, found |-> 0, count |-> 0], text).count

CountDigits(val) == IF val = 0 THEN 0 ELSE CHOOSE k \in 1 .. 10 : 10^(k - 1) <= Magnitude(val) /\ Magnitude(val) < 10^k

\* A digit beyond precision or scale only rounds; rounding may add a digit.
rounded_digit(T, s, digit, positive) ==
    LET grown(val) == IF s.val # 0 /\ CountDigits(val) > CountDigits(s.val)
                      THEN [s EXCEPT !.val = val, !.total = @ + 1, !.precise = @ + 1, !.location = @ + 1, !.rounding = @ + 1]
                      ELSE [s EXCEPT !.val = val]
    IN  [IF digit < 5 THEN s
         ELSE IF will_overflow(T, s.val, 1, positive) THEN [s EXCEPT !.valid = FALSE]
         ELSE grown(IF positive THEN s.val + 1 ELSE s.val - 1) EXCEPT !.done = TRUE]

kept_digit(T, s, digit, positive) ==
    LET precise == s.found \/ s.total + 1 > s.location \/ digit # 0
        kept(new) == [s EXCEPT !.total = @ + 1, !.found = precise, !.precise = IF precise THEN @ + 1 ELSE @,
                               !.val = new.val, !.valid = new.success, !.done = ~new.success]
    IN  kept(process_value(T, s.val, digit, positive))

decimal_char(T, s, chr, positive, last, precision) ==
    IF s.done \/ chr = "." THEN s
    ELSE IF chr \notin DigitChars THEN [s EXCEPT !.done = TRUE]
    ELSE IF s.precise + 1 > precision \/ s.total + 1 > last THEN rounded_digit(T, s, DigitOf(chr), positive)
    ELSE kept_digit(T, s, DigitOf(chr), positive)

\* Zeros at the end of a value, as long as it has room.
Padded(T, s, n, positive) ==
    FoldLeft(LAMBDA p, i : IF ~p.valid THEN p
                           ELSE IF tenfold_will_overflow(T, p.val, positive) THEN [p EXCEPT !.valid = FALSE]
                           ELSE [p EXCEPT !.val = @ * 10, !.precise = @ + 1],
             s, [i \in 1 .. n |-> i])

\* A mutant: the fraction's digits are counted without the zeros before them.
finished_decimal_short(T, s, significant, scale, precision, positive, null) ==
    LET zeros     == Max({0, s.location - s.total - (IF scale > 0 THEN scale ELSE 0)})
        before    == significant + zeros + s.rounding
        needed    == Min({precision - before, -scale})
        answer(p) == IF precision + scale >= s.location - (s.total - s.precise) /\ p.valid THEN p.val ELSE null
        scaled(p) == answer(Padded(T, p, Max({0, needed - (p.precise - before)}), positive))
    IN  scaled(Padded(T, s, zeros, positive))

\* What the march found, padded to the point and then to the scale.
finished_decimal(T, s, significant, scale, precision, positive, null) ==
    LET preceding == IF s.location < 0 THEN -s.location ELSE 0
        zeros     == Max({0, s.location - s.total - (IF scale > 0 THEN scale ELSE 0)})
        before    == significant + zeros + s.rounding
        fits      == precision + scale >= s.location - (s.total - s.precise)
        needed    == Min({precision - before, -scale})
        answer(p) == IF fits /\ s.valid /\ p.valid THEN p.val ELSE null
        scaled(p) == answer(Padded(T, p, Max({0, needed - (p.precise - before + preceding)}), positive))
    IN  scaled(Padded(T, s, zeros, positive))

string_to_decimal_kernel(T, int, text, next, scale, precision, strip, null) ==
    LET march(v, rest) ==
          FoldLeft(LAMBDA s, chr : decimal_char(T, s, chr, v.positive, v.location - scale, precision),
                   [done |-> v.location < scale, valid |-> TRUE, val |-> 0, precise |-> 0, total |-> 0, found |-> FALSE,
                    location |-> v.location, rounding |-> 0], rest)
        value(v, rest) == finished_decimal(T, march(v, rest), count_significant_digits(rest, v.location),
                                           scale, precision, v.positive, null)
        row(v) == IF v.valid THEN value(v, SubSeq(text, v.first + 1, Len(text))) ELSE null
    IN  IF text = null \/ text = <<>> THEN null ELSE row(validate_and_exponent(T, int, text, next, strip))

\* The character behind a row of the column: of a later row, or what lies behind the column.
Behind(texts, i, beyond, null) ==
    LET full == {j \in i + 1 .. Len(texts) : texts[j] # null /\ texts[j] # <<>>}
    IN  IF full = {} THEN beyond ELSE texts[Min(full)][1]

\* The narrowest type with room for precision digits, the first of which is int; [row |-> -1] if there is none.
string_to_decimal(types, texts, beyond, precision, scale, ansi, strip, null) ==
    LET wide == {k \in DOMAIN types : 10^precision <= types[k].max}
        column(T) == [i \in DOMAIN texts |->
                        string_to_decimal_kernel(T, types[1], texts[i], Behind(texts, i, beyond, null), scale, precision, strip, null)]
    IN  IF wide = {} THEN [row |-> -1, column |-> <<>>]
        ELSE validate_ansi_column(column(types[Min(wide)]), texts, ansi, null)

-----------------------------------------------------------------------------
(* number_converter.cu.  Operands are [col, vals]: a column, or a constant.   *)

Wrapped(x) == x % 2^LongBits
MinusOne == 2^LongBits - 1
IsNegative(v) == v >= 2^(LongBits - 1)

is_invalid_base_range(from_base, to_base) == from_base \notin 2 .. 36 \/ Magnitude(to_base) \notin 2 .. 36

trim(text) ==
    LET solid == {i \in DOMAIN text : text[i] # " "}
    IN  IF solid = {} THEN <<>> ELSE SubSeq(text, Min(solid), Max(solid))

byte_to_char(byte) == Letters[byte + 1]

char_to_byte(chr, base) ==
    LET values == {i - 1 : i \in {j \in DOMAIN Letters : Letters[j] = chr}} \cup {i + 9 : i \in {j \in DOMAIN SmallLetters : SmallLetters[j] = chr}}
        digits == {b \in values : b < base}
    IN  IF digits = {} THEN -1 ELSE Min(digits)

\* One character: stops at the first that is no digit of the base, and at an overflow.
converted_char(s, chr, base) ==
    LET bound == (2^LongBits - 1 - base) \div base
        over(b) == IsNegative(s.v) \/ (s.v >= bound /\ (2^LongBits - 1 - b) \div base < s.v)
        next(b) == IF b < 0 THEN [s EXCEPT !.stop = TRUE]
                   ELSE IF over(b) THEN [s EXCEPT !.stop = TRUE, !.overflow = TRUE, !.v = MinusOne]
                   ELSE [s EXCEPT !.v = Wrapped(@ * base + b)]
    IN  IF s.stop THEN s ELSE next(char_to_byte(chr, base))

\* What the digits say after an optional minus.
read_number(text, base) ==
    FoldLeft(LAMBDA s, chr : converted_char(s, chr, base), [v |-> 0, stop |-> FALSE, overflow |-> FALSE], text)

\* The digits of an unsigned number.
WriteNumber(v, base) ==
    LET n == IF v = 0 THEN 1 ELSE CHOOSE k \in 1 .. LongBits : base^(k - 1) <= v /\ v < base^k
    IN  [i \in 1 .. n |-> byte_to_char((v \div base^(n - i)) % base)]

\* convert of one string: null, or its digits in the other base, unsigned if to_base > 0.
convert_text(text, from_base, to_base, null) ==
    LET minus(v) == IF IsNegative(v) THEN MinusOne ELSE Wrapped(-v)
        written(v, negative) == (IF negative /\ to_base < 0 THEN <<"-">> ELSE <<>>) \o WriteNumber(v, Magnitude(to_base))
        signed(v, negative) == IF to_base < 0 /\ IsNegative(v) THEN written(Wrapped(-v), TRUE) ELSE written(v, negative)
        read(v, negative) == signed(IF negative /\ to_base > 0 THEN minus(v) ELSE v, negative)
        trimmed(t) == IF t = <<>> THEN null
                      ELSE IF Head(t) = "-" THEN read(read_number(Tail(t), from_base).v, TRUE)
                      ELSE read(read_number(t, from_base).v, FALSE)
    IN  trimmed(trim(text))

\* Whether its digits are more than fit, as ANSI mode asks.
OverflowsBase(text, from_base) ==
    LET overflow(t) == t # <<>> /\ read_number(IF Head(t) = "-" THEN Tail(t) ELSE t, from_base).overflow
    IN  overflow(trim(text))

Operand(operand, i) == IF operand.col THEN operand.vals[i] ELSE operand.vals[1]
NumRows(input, from_base, to_base) ==
    IF input.col THEN Len(input.vals) ELSE IF from_base.col THEN Len(from_base.vals) ELSE Len(to_base.vals)

\* A row without an operand or with bases out of range has no result.
NoConversion(input, from_base, to_base, i, null) ==
    \/ Operand(input, i) = null \/ Operand(from_base, i) = null \/ Operand(to_base, i) = null
    \/ is_invalid_base_range(Operand(from_base, i), Operand(to_base, i))

convert_fn(input, from_base, to_base, i, null) ==
    IF NoConversion(input, from_base, to_base, i, null) THEN null
    ELSE convert_text(Operand(input, i), Operand(from_base, i), Operand(to_base, i), null)
is_overflow_fn(input, from_base, to_base, i, null) ==
    ~NoConversion(input, from_base, to_base, i, null) /\ OverflowsBase(Operand(input, i), Operand(from_base, i))

convert_impl(num_rows, input, from_base, to_base, null) ==
    [i \in 1 .. num_rows |-> convert_fn(input, from_base, to_base, i, null)]
is_convert_overflow_impl(num_rows, input, from_base, to_base, null) ==
    \E i \in 1 .. num_rows : is_overflow_fn(input, from_base, to_base, i, null)

\* Three constants are refused: << >> stands for the exception.
HasColumn(input, from_base, to_base) == input.col \/ from_base.col \/ to_base.col
convert(input, from_base, to_base, null) ==
    IF HasColumn(input, from_base, to_base)
    THEN convert_impl(NumRows(input, from_base, to_base), input, from_base, to_base, null) ELSE <<>>
is_convert_overflow(input, from_base, to_base, null) ==
    IF HasColumn(input, from_base, to_base)
    THEN is_convert_overflow_impl(NumRows(input, from_base, to_base), input, from_base, to_base, null) ELSE <<>>

-----------------------------------------------------------------------------
(* The reference: strings by their grammar, numbers unbounded *)

ValueOf(text, base) == FoldLeft(LAMBDA x, chr : x * base + char_to_byte(chr, base), 0, text)

Stripped(text, strip) ==
    LET solid == {i \in DOMAIN text : ~is_whitespace_char(text[i])}
    IN  IF ~strip THEN text ELSE IF solid = {} THEN <<>> ELSE SubSeq(text, Min(solid), Max(solid))
HasSign(text) == text # <<>> /\ Head(text) \in {"+", "-"}
Unsigned(text) == IF HasSign(text) THEN Tail(text) ELSE text
Signed(text, x) == IF HasSign(text) /\ Head(text) = "-" THEN -x ELSE x

\* Up to the first of some characters, and behind it.
UpTo(text, chars) == SubSeq(text, 1, Min({Len(text)} \cup {i - 1 : i \in {j \in DOMAIN text : text[j] \in chars}}))
Beyond(text, chars) == SubSeq(text, Len(UpTo(text, chars)) + 2, Len(text))
AllDigits(text) == Range(text) \subseteq DigitChars

ExactInteger(T, text, ansi, strip, null) ==
    LET in(x) == IF x \in T.min .. T.max THEN x ELSE null
        of(body, rest) == IF rest # <<>> /\ AllDigits(UpTo(rest, {"."})) /\ AllDigits(Beyond(rest, {"."})) /\ ~(ansi /\ "." \in Range(rest))
                          THEN in(Signed(body, ValueOf(UpTo(rest, {"."}), 10))) ELSE null
        from(body) == of(body, IF IsSigned(T) THEN Unsigned(body) ELSE body)
    IN  IF text = null THEN null ELSE from(Stripped(text, strip))

\* Half away from zero, to precision digits of the scale.
RoundedDecimal(digits, k, precision, null) ==
    LET fits(x) == IF x < 10^precision THEN x ELSE null
    IN  IF digits = 0 THEN 0
        ELSE IF k > precision THEN null
        ELSE IF k >= 0 THEN fits(digits * 10^k)
        ELSE IF k < -7 THEN 0
        ELSE fits((2 * digits + 10^(-k)) \div (2 * 10^(-k)))

\* A mantissa with at least one digit and at most one point, and an exponent whose digits may be missing.
Mantissa(text) == UpTo(Unsigned(text), {"e", "E"})
ExponentPart(text) == Beyond(Unsigned(text), {"e", "E"})

ExactDecimal(text, scale, precision, strip, null) ==
    LET whole(m) == UpTo(m, {"."})
        part(m)  == Beyond(m, {"."})
        exponent(e) == Signed(e, ValueOf(Unsigned(e), 10))
        rounded(body, x) == IF x = null THEN null ELSE Signed(body, x)
        of(body, m, e) == IF AllDigits(whole(m)) /\ AllDigits(part(m)) /\ AllDigits(Unsigned(e)) /\ whole(m) \o part(m) # <<>>
                          THEN rounded(body, RoundedDecimal(ValueOf(whole(m) \o part(m), 10), exponent(e) - Len(part(m)) - scale, precision, null))
                          ELSE null
        from(body) == of(body, Mantissa(body), ExponentPart(body))
    IN  IF text = null THEN null ELSE from(Stripped(text, strip))

\* Where the answer may be null although the string has a value: a zero with an exponent, blanks behind an
\* exponent, and a fraction that rounds to a power of ten where all the precision lies behind the point.
MayBeNull(text, exact, scale, precision) ==
    \/ exact = 0 /\ Range(text) \cap {"e", "E"} # {}
    \/ is_whitespace_char(Last(text)) /\ Range(text) \cap {"e", "E"} # {}
    \/ precision = -scale /\ Magnitude(exact) \in {10^k : k \in 1 .. precision}

\* Where the answer may be 0 although the string has no value: a number without digits before its
\* exponent, and a blank string in front of a sign.
MayBeZero(text, behind) ==
    \/ Range(Mantissa(Stripped(text, TRUE))) \cap DigitChars = {} /\ Stripped(text, TRUE) # <<>>
    \/ Stripped(text, TRUE) = <<>> /\ behind \in {"+", "-"}

\* Where the answer may be any: the location of the point does not fit an int.
MayWrap(text, int) ==
    LET exponent == Unsigned(ExponentPart(Stripped(text, TRUE)))
    IN  AllDigits(exponent) /\ ValueOf(exponent, 10) + Len(text) > int.max

\* The number of the digits at the front, as it is written in the other base: up to LongBits bits, for
\* to_base < 0 in two's complement.
ExactConversion(text, from_base, to_base, null) ==
    LET digits(t) == SubSeq(t, 1, Min({Len(t)} \cup {i - 1 : i \in {j \in DOMAIN t : char_to_byte(t[j], from_base) < 0}}))
        half == 2^(LongBits - 1)
        bits(x) == IF x > MinusOne THEN MinusOne ELSE x
        number(x, minus) == IF to_base < 0 THEN (IF x >= half THEN x - 2 * half ELSE IF minus THEN -x ELSE x)
                            ELSE IF ~minus THEN x
                            ELSE IF x >= half THEN MinusOne ELSE (-x) % (2 * half)
        of(t) == IF t = <<>> THEN null
                 ELSE IF Head(t) = "-" THEN number(bits(ValueOf(digits(Tail(t)), from_base)), TRUE)
                 ELSE number(bits(ValueOf(digits(t), from_base)), FALSE)
    IN  of(trim(text))

\* Whether a string is the number in the base, without leading zeros.
Denotes(text, x, base) ==
    LET digits == IF Head(text) = "-" THEN Tail(text) ELSE text
    IN  /\ (IF Head(text) = "-" THEN -1 ELSE 1) * ValueOf(digits, base) = x
        /\ Len(digits) > 1 => digits[1] # "0"
        /\ Range(digits) \subseteq Range(Letters)
=============================================================================
