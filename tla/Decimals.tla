------------------------------ MODULE Decimals ------------------------------
(***************************************************************************)
(* decimal_utils.cu: DECIMAL128 arithmetic by way of 256 bits in four      *)
(* chunks.  The widths are parameters: a chunk has ChunkBits bits (64 in   *)
(* the code), a decimal two chunks, and DIGITS (38) is the largest number  *)
(* of digits two signed chunks hold.  Scales are cudf's: a value v of      *)
(* scale s stands for v * 10^s.                                            *)
(***************************************************************************)
EXTENDS Integers, Sequences, SequencesExt

CONSTANTS ChunkBits, DIGITS

Chunk == 2^ChunkBits
Indices == <<0, 1, 2, 3>>
Half == 2^(2 * ChunkBits)      \* 128 bits

\* A two's complement value of 128 bits.
int128(x) == ((x + Half \div 2) % Half) - Half \div 2

\* Sign extension of 128 bits into chunks.
chunked256(x) == [i \in 0 .. 3 |-> IF i < 2 THEN (x \div Chunk^i) % Chunk ELSE IF x < 0 THEN Chunk - 1 ELSE 0]
Zero256 == chunked256(0)

negative(c) == c[3] >= Chunk \div 2

\* add: the carry runs through all four chunks.
add(a, b) ==
    LET step(st, i) == LET sum == st.carry + a[i] + b[i]
                       IN  [carry |-> sum \div Chunk, out |-> [st.out EXCEPT ![i] = sum % Chunk]]
    IN  FoldLeft(step, [carry |-> 0, out |-> Zero256], Indices).out

negate(a) == add([i \in 0 .. 3 |-> Chunk - 1 - a[i]], chunked256(1))

\* The most significant chunk in which they differ decides.
lt_unsigned(a, b) == \E i \in 0 .. 3 : a[i] < b[i] /\ \A j \in i + 1 .. 3 : a[j] = b[j]
gte_unsigned(a, b) == ~lt_unsigned(a, b)

as_128_bits(a) == int128(a[1] * Chunk + a[0])
as_64_bits(a) == a[0]

\* A mutant: the carry of one row of the multiplication leaks into the next.
multiply_leaking(a, b) ==
    LET cell(st, k) ==
            LET i == k % 4
                j == k \div 4
                mul == a[i] * b[j] + st.out[i + j] + st.carry
            IN  IF i + j > 3 THEN st ELSE [carry |-> mul \div Chunk, out |-> [st.out EXCEPT ![i + j] = mul % Chunk]]
    IN  FoldLeft(cell, [carry |-> 0, out |-> Zero256], [k \in 1 .. 16 |-> k - 1]).out

\* multiply: schoolbook multiplication, row by row, cut off at four chunks.
multiply(a, b) ==
    LET cell(st, k) ==
            LET i == k % 4
                j == k \div 4
                mul == a[i] * b[j] + st.out[i + j] + (IF i = 0 THEN 0 ELSE st.carry)
            IN  IF i + j > 3 THEN st ELSE [carry |-> mul \div Chunk, out |-> [st.out EXCEPT ![i + j] = mul % Chunk]]
    IN  FoldLeft(cell, [carry |-> 0, out |-> Zero256], [k \in 1 .. 16 |-> k - 1]).out

\* divide_unsigned: long division bit by bit, r in 128 unsigned bits.
divide_unsigned(n, d) ==
    LET width == 4 * ChunkBits
        step(st, i) ==
            LET block == i \div ChunkBits
                bit == i % ChunkBits
                r == (2 * st.r + ((n[block] \div 2^bit) % 2)) % Half
            IN  IF r >= d % Half THEN [r |-> r - (d % Half), q |-> [st.q EXCEPT ![block] = @ + 2^bit]]
                ELSE [st EXCEPT !.r = r]
        end == FoldLeft(step, [r |-> 0, q |-> Zero256], [k \in 1 .. width |-> width - k])
    IN  [quotient |-> end.q, remainder |-> int128(end.r)]

\* The quotient is truncated, the remainder has the dividend's sign.
divide(n, d) ==
    LET signed(res) == [quotient |-> IF (d < 0) # negative(n) THEN negate(res.quotient) ELSE res.quotient,
                        remainder |-> IF negative(n) THEN int128(-res.remainder) ELSE res.remainder]
    IN  signed(divide_unsigned(IF negative(n) THEN negate(n) ELSE n, int128(IF d < 0 THEN -d ELSE d)))

\* Half up by the remainder doubled, which may lose its top bit.
round_from_remainder(q, r, n, d) ==
    LET abs(x) == IF x < 0 THEN int128(-x) ELSE x
        need_inc(double) == double \div 2 # r \/ abs(double) >= abs(d)
    IN  add(q, chunked256(IF ~need_inc(int128(2 * r)) THEN 0 ELSE IF negative(n) # (d < 0) THEN -1 ELSE 1))

divide_and_round(n, d) ==
    LET rounded(res) == round_from_remainder(res.quotient, res.remainder, n, d) IN rounded(divide(n, d))
integer_divide(n, d) == divide(n, d).quotient

\* pow_ten: a table of the powers up to 10^(2 * DIGITS).
Ten(k) == 10^k
pow_ten(k) == [i \in 0 .. 3 |-> (Ten(k) \div Chunk^i) % Chunk]

check_scale_divisor(source_scale, target_scale) == target_scale - source_scale <= DIGITS

\* The least i with 10^i >= |value|.
precision10(value) ==
    LET enough(v) == {i \in 0 .. 2 * DIGITS : gte_unsigned(pow_ten(i), v)}
        least(I) == IF I = {} THEN -1 ELSE CHOOSE i \in I : \A j \in I : i <= j
    IN  least(enough(IF negative(value) THEN negate(value) ELSE value))

is_greater_than_decimal_38(a) == gte_unsigned(IF negative(a) THEN negate(a) ELSE a, pow_ten(DIGITS))

set_scale_and_round(data, old_scale, new_scale) ==
    IF new_scale < old_scale THEN multiply(data, pow_ten(old_scale - new_scale))
    ELSE IF new_scale > old_scale THEN divide_and_round(data, as_128_bits(pow_ten(new_scale - old_scale)))
    ELSE data

-----------------------------------------------------------------------------
(* The functors: [overflow, value]; the value of an overflow is not looked at. *)

Overflow == [overflow |-> TRUE, value |-> 0]
Result(c) == [overflow |-> is_greater_than_decimal_38(c), value |-> as_128_bits(c)]

\* do_add_sub, with the sum's operators dec128_add and dec128_sub.
do_add_sub(a, b, sub, a_scale, b_scale, result_scale) ==
    LET scaled(x, scale, common) == set_scale_and_round(chunked256(x), scale, common)
        plus(x, y) == add(x, IF sub THEN negate(y) ELSE y)
        sum(common) == set_scale_and_round(plus(scaled(a, a_scale, common), scaled(b, b_scale, common)),
                                           common, result_scale)
    IN  sum(IF a_scale < b_scale THEN a_scale ELSE b_scale)

dec128_add(a, b, a_scale, b_scale, result_scale) == Result(do_add_sub(a, b, FALSE, a_scale, b_scale, result_scale))
dec128_sub(a, b, a_scale, b_scale, result_scale) == Result(do_add_sub(a, b, TRUE, a_scale, b_scale, result_scale))

\* cast_interim_result: older Sparks round the product to DIGITS digits first.
dec128_multiplier(a, b, a_scale, b_scale, prod_scale, cast_interim_result) ==
    LET fitted(product, exponent) ==
          IF exponent < 0
          THEN IF precision10(product) - exponent > DIGITS THEN Overflow
               ELSE Result(multiply(product, pow_ten(-exponent)))
          ELSE Result(IF exponent = 0 THEN product
                      ELSE divide_and_round(product, as_128_bits(pow_ten(exponent))))
        interim(raw, surplus) ==
          IF cast_interim_result /\ surplus > 0
          THEN fitted(divide_and_round(raw, as_128_bits(pow_ten(surplus))),
                      prod_scale - (a_scale + b_scale + surplus))
          ELSE fitted(raw, prod_scale - (a_scale + b_scale))
        measured(raw) == interim(raw, precision10(raw) - DIGITS)
    IN  measured(multiply(chunked256(a), chunked256(b)))

\* More than DIGITS digits are appended to the dividend in two parts: the
\* quotient and the remainder of the first are both shifted by the rest.
divide_in_two_parts(n, b, scale_mult, is_int_div) ==
    LET rounded(sum, second, scaled_div_r) ==
          IF is_int_div THEN sum ELSE round_from_remainder(sum, second.remainder, scaled_div_r, b)
        summed(first, second, scaled_div_r) ==
          rounded(add(multiply(first.quotient, scale_mult), second.quotient), second, scaled_div_r)
        again(first, scaled_div_r) == summed(first, divide(scaled_div_r, b), scaled_div_r)
        begun(first) == again(first, multiply(chunked256(first.remainder), scale_mult))
    IN  begun(divide(multiply(n, pow_ten(DIGITS)), b))

\* The quotient for the scale asked: the dividend is shifted by n_shift_exp
\* digits.
dec128_divider(a, b, a_scale, b_scale, quot_scale, is_int_div) ==
    LET last(x, y) == IF is_int_div THEN integer_divide(x, y) ELSE divide_and_round(x, y)
        quotient(n, n_shift_exp) ==
          IF n_shift_exp < -DIGITS
          THEN divide_in_two_parts(n, b, pow_ten(-n_shift_exp - DIGITS), is_int_div)
          ELSE IF n_shift_exp > 0 THEN last(divide(n, b).quotient, as_128_bits(pow_ten(n_shift_exp)))
          ELSE last(IF n_shift_exp < 0 THEN multiply(n, pow_ten(-n_shift_exp)) ELSE n, b)
        narrowed(c) == IF is_int_div THEN [Result(c) EXCEPT !.value = as_64_bits(c)] ELSE Result(c)
    IN  IF b = 0 THEN Overflow ELSE narrowed(quotient(chunked256(a), quot_scale - (a_scale - b_scale)))

\* Java's remainder: a - (a // b) * b on absolute values, with a's sign.
dec128_remainder(a, b, a_scale, b_scale, rem_scale) ==
    LET signed(res) == [res EXCEPT !.value = IF a < 0 THEN int128(-@) ELSE @]
        less(abs_n, times, d_shift_exp) ==
          Result(add(abs_n, negate(IF d_shift_exp < 0 THEN multiply(times, pow_ten(-d_shift_exp)) ELSE times)))
        divided(abs_n, abs_d, n_shift_exp) ==
          IF n_shift_exp > 0
          THEN integer_divide(divide(abs_n, abs_d).quotient, as_128_bits(pow_ten(n_shift_exp)))
          ELSE integer_divide(abs_n, abs_d)
        rest(abs_n, abs_d, n_shift_exp, d_shift_exp) ==
          less(abs_n, multiply(divided(abs_n, abs_d, n_shift_exp), chunked256(abs_d)), d_shift_exp)
        shifted(abs_a, abs_d, n_shift_exp, d_shift_exp) ==
          rest(IF n_shift_exp < 0 THEN multiply(abs_a, pow_ten(-n_shift_exp)) ELSE abs_a,
               abs_d, n_shift_exp, d_shift_exp)
        abs(x) == int128(IF x < 0 THEN -x ELSE x)
        reduced(n, d_shift_exp) ==
          shifted(IF negative(n) THEN negate(n) ELSE n,
                  IF d_shift_exp > 0
                  THEN as_128_bits(divide_and_round(chunked256(abs(b)), as_128_bits(pow_ten(d_shift_exp))))
                  ELSE abs(b),
                  rem_scale - a_scale - (IF d_shift_exp > 0 THEN 0 ELSE d_shift_exp), d_shift_exp)
    IN  IF b = 0 THEN Overflow ELSE signed(reduced(chunked256(a), rem_scale - b_scale))

-----------------------------------------------------------------------------
(* The operations on columns: a null operand makes a null result.  Columns are *)
(* sequences of values or NoValue, all of one scale.                           *)

CONSTANT NoValue

Rows2(a, b, f(_, _)) == [i \in DOMAIN a |-> IF NoValue \in {a[i], b[i]} THEN NoValue ELSE f(a[i], b[i])]

add_decimal128(a, b, sa, sb, target_scale) ==
    Rows2(a, b, LAMBDA x, y : dec128_add(x, y, sa, sb, target_scale))
sub_decimal128(a, b, sa, sb, target_scale) ==
    Rows2(a, b, LAMBDA x, y : dec128_sub(x, y, sa, sb, target_scale))
divide_decimal128(a, b, sa, sb, quotient_scale) ==
    Rows2(a, b, LAMBDA x, y : dec128_divider(x, y, sa, sb, quotient_scale, FALSE))
integer_divide_decimal128(a, b, sa, sb, quotient_scale) ==
    Rows2(a, b, LAMBDA x, y : dec128_divider(x, y, sa, sb, quotient_scale, TRUE))
remainder_decimal128(a, b, sa, sb, remainder_scale) ==
    Rows2(a, b, LAMBDA x, y : dec128_remainder(x, y, sa, sb, remainder_scale))
\* << >> stands for the exception "divisor too big".
multiply_decimal128(a, b, sa, sb, product_scale, cast_interim_result) ==
    IF ~check_scale_divisor(sa + sb, product_scale) THEN << >>
    ELSE Rows2(a, b, LAMBDA x, y : dec128_multiplier(x, y, sa, sb, product_scale, cast_interim_result))

-----------------------------------------------------------------------------
(* The reference, in unbounded integers. *)

Abs(x) == IF x < 0 THEN -x ELSE x
Sign(x) == IF x < 0 THEN -1 ELSE 1

\* n / d, half away from zero and towards zero.
HalfUp(n, d) == Sign(n) * Sign(d) * ((2 * Abs(n) + Abs(d)) \div (2 * Abs(d)))
Down(n, d) == Sign(n) * Sign(d) * (Abs(n) \div Abs(d))

\* n * 10^k / d.
Scaled(round(_, _), n, d, k) == IF k >= 0 THEN round(n * Ten(k), d) ELSE round(n, d * Ten(-k))
Exactly(value) == [overflow |-> Abs(value) >= Ten(DIGITS), value |-> value]

ExactSum(a, b, sa, sb, s) ==
    LET low == IF sa < sb THEN sa ELSE sb
    IN  Exactly(Scaled(HalfUp, a * Ten(sa - low) + b * Ten(sb - low), 1, low - s))

\* The interim result has at most DIGITS digits, the last one rounded.
ExactProduct(a, b, sa, sb, s, interim) ==
    LET surplus == {k \in 0 .. DIGITS : Abs(HalfUp(a * b, Ten(k))) < Ten(DIGITS)}
        k == IF interim THEN CHOOSE i \in surplus : \A j \in surplus : i <= j ELSE 0
    IN  Exactly(Scaled(HalfUp, HalfUp(a * b, Ten(k)), 1, sa + sb + k - s))

ExactQuotient(a, b, sa, sb, s, int) ==
    IF b = 0 THEN Overflow
    ELSE Exactly(Scaled(LAMBDA n, d : IF int THEN Down(n, d) ELSE HalfUp(n, d), a, b, sa - sb - s))

\* The scale of a remainder is the finer of the two.
ExactRemainder(a, b, sa, sb, s) ==
    LET n == a * Ten(sa - s)
        d == b * Ten(sb - s)
    IN  IF b = 0 THEN Overflow ELSE Exactly(n - d * Down(n, d))

\* The same outcome: an overflow is noticed, and a value otherwise is right.
Agrees(got, want) == got.overflow = want.overflow /\ (~want.overflow => got.value = want.value)
=============================================================================
