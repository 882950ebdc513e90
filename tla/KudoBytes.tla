----------------------------- MODULE KudoBytes -----------------------------
(***************************************************************************)
(* Bits, bytes, words and byte buffers, as the Kudo code (Java and CUDA)   *)
(* uses them.  A byte has ByteBits bits (8 in the code) and an int         *)
(* IntBytes bytes (4 in the code); both are constants so that TLC reaches  *)
(* the byte and word boundaries with a few rows.                           *)
(*                                                                         *)
(* A byte is a number, a buffer a function on 0 .. length-1, and an int    *)
(* used as a bit vector the SET of the positions of its 1 bits: | is \cup, *)
(* & is \cap, bitCount is Cardinality.                                     *)
(***************************************************************************)
EXTENDS Integers, Sequences, FiniteSets, SequencesExt

CONSTANTS ByteBits, IntBytes

ASSUME KudoWidths == ByteBits \in Nat \ {0} /\ IntBytes \in Nat \ {0}

ByteSize == 2 ^ ByteBits
WordBits == ByteBits * IntBytes
MaxInt   == 2 ^ (WordBits - 1) - 1

MinOf(a, b) == IF a < b THEN a ELSE b
MaxOf(a, b) == IF a > b THEN a ELSE b
CeilDiv(a, b) == (a + b - 1) \div b

\* Rounding up to a multiple of m.
roundUpSafe(n, m) == IF n % m = 0 THEN n ELSE (n - (n % m)) + m

-----------------------------------------------------------------------------
(* Bit vectors. *)

AllOnes == 0 .. WordBits - 1

\* (1 << n) - 1.
LowBits(n) == 0 .. n - 1

\* Java shifts use the shift count modulo the width of the int.
Shl(w, n)  == {b + (n % WordBits) : b \in w} \cap AllOnes
Ushr(w, n) == {b - (n % WordBits) : b \in w} \cap AllOnes

\* The byte whose bits are those of w from bit position lo on.
ByteAt(w, lo) == LET bit(k) == IF lo + k \in w THEN 2 ^ k ELSE 0
                     sum[k \in 0 .. ByteBits] == IF k = 0 THEN 0 ELSE sum[k - 1] + bit(k - 1)
                 IN  sum[ByteBits]

-----------------------------------------------------------------------------
(* Buffers. *)

BitOf(mem, at, b) == (mem[at + b \div ByteBits] \div 2 ^ (b % ByteBits)) % 2 = 1

\* A store outside the buffer enlarges its domain, so that it can be seen.
Store(mem, at, bytes) ==
    [i \in DOMAIN mem \cup at .. at + Len(bytes) - 1 |->
        IF i \in at .. at + Len(bytes) - 1 THEN bytes[i - at + 1] ELSE mem[i]]

WordBytesOf(w) == [k \in 1 .. IntBytes |-> ByteAt(w, (k - 1) * ByteBits)]
GetWord(mem, at) == {b \in AllOnes : BitOf(mem, at, b)}
SetWord(mem, at, w) == Store(mem, at, WordBytesOf(w))

Copied(mem, at, n) == [k \in 1 .. n |-> mem[at + k - 1]]

\* Integers in buffers (little endian) and in the header (big endian).
LittleEndian(v) == [k \in 1 .. IntBytes |-> (v \div ByteSize ^ (k - 1)) % ByteSize]
BigEndian(v)    == Reverse(LittleEndian(v))
GetInt(mem, at) == LET sum[k \in 0 .. IntBytes] ==
                          IF k = 0 THEN 0
                          ELSE sum[k - 1] + mem[at + k - 1] * ByteSize ^ (k - 1)
                   IN  sum[IntBytes]
IntAt(seq, at)  == LET sum[k \in 0 .. IntBytes] ==
                          IF k = 0 THEN 0 ELSE sum[k - 1] * ByteSize + seq[at + k]
                   IN  sum[IntBytes]
=============================================================================
