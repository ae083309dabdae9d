------------------------------- MODULE JsonBytes -------------------------------
(***************************************************************************)
(* include/nlohmann/json.hpp: what the binary formats of binary_reader and *)
(* binary_writer share, the bytes of numbers and reading from the input.   *)
(*                                                                         *)
(* An integer is the sequence of its eight bytes, most significant first,  *)
(* in two's complement if it is signed; a floating-point number is the     *)
(* eight bytes of the IEEE double.  A binary value has some bytes and a    *)
(* subtype, which is <<>> if it is not set.                                *)
(***************************************************************************)
EXTENDS JsonParser

Fill(n, byte) == [k \in 1 .. n |-> byte]
Binary(subtype, bytes) == <<"binary", [subtype |-> subtype, bytes |-> bytes]>>

(***************************************************************************)
(* Integers.                                                               *)
(***************************************************************************)
\* An integer of two bytes.
Size(n) == Fill(6, 0) \o <<n \div 256, n % 256>>

\* bound: no input has as many bytes as an integer that needs more than two.
Huge == 65536
Small(b) == IF \A k \in 1 .. 6 : b[k] = 0 THEN 256 * b[7] + b[8] ELSE Huge

IsNegative(b) == b[1] >= 128
Complement(b) == [k \in DOMAIN b |-> 255 - b[k]]

\* static_cast to a type of n bytes, and back from an unsigned and a signed one.
Narrow(b, n) == SubSeq(b, 9 - n, 8)
Unsigned(b) == Fill(8 - Len(b), 0) \o b
Signed(b) == Fill(8 - Len(b), IF b[1] >= 128 THEN 255 ELSE 0) \o b

FitsUnsigned(b, n) == b = Unsigned(Narrow(b, n))
FitsSigned(b, n) == b = Signed(Narrow(b, n))

\* The least width that an unsigned value fits.
Width(b) == CHOOSE n \in {1, 2, 4, 8} : FitsUnsigned(b, n) /\ (n > 1 => ~FitsUnsigned(b, n \div 2))

\* The number of a width in the order of widths, which the formats add to a marker.
WidthCode(n) == CASE n = 1 -> 0 [] n = 2 -> 1 [] n = 4 -> 2 [] n = 8 -> 3

(***************************************************************************)
(* Floating-point numbers.                                                 *)
(***************************************************************************)
\* The double with that sign, biased exponent and fraction of w < 24 bits.
Double(sign, exponent, fraction, w) ==
    LET f == fraction * 2 ^ (24 - w)
    IN  <<128 * sign + exponent \div 16, 16 * (exponent % 16) + f \div 1048576,
          (f \div 4096) % 256, (f \div 16) % 256, 16 * (f % 16), 0, 0, 0>>

\* The double with that sign and the value m * 2 ^ (base - 1023), for m # 0.
Normalized(sign, m, base) ==
    LET top == CHOOSE k \in 0 .. 23 : 2 ^ k <= m /\ m < 2 ^ (k + 1)
    IN  Double(sign, base + top, m - 2 ^ top, top)

\* A number with a smaller exponent, of which all ones is infinite or not a number and
\* zero is subnormal: offset is the difference of the biases and w the bits of the
\* fraction.
FromNarrow(sign, exponent, fraction, w, ones, offset) ==
    CASE exponent = ones -> Double(sign, 2047, fraction, w)
      [] exponent = 0 /\ fraction = 0 -> Double(sign, 0, 0, w)
      [] exponent = 0 /\ fraction # 0 -> Normalized(sign, fraction, offset + 1 - w)
      [] OTHER -> Double(sign, exponent + offset, fraction, w)

FromSingle(b) ==
    FromNarrow(b[1] \div 128, 2 * (b[1] % 128) + b[2] \div 128,
               65536 * (b[2] % 128) + 256 * b[3] + b[4], 23, 255, 896)

\* Every NaN of two bytes becomes the quiet one.
FromHalf(b) ==
    LET sign == b[1] \div 128
        exponent == (b[1] \div 4) % 32
        fraction == 256 * (b[1] % 4) + b[2]
    IN  IF exponent = 31 /\ fraction # 0 THEN Double(sign, 2047, 512, 10)
        ELSE FromNarrow(sign, exponent, fraction, 10, 31, 1008)

ExponentOf(d) == 16 * (d[1] % 128) + d[2] \div 16
IsZeroFraction(d) == d[2] % 16 = 0 /\ \A k \in 3 .. 8 : d[k] = 0
IsNaN(d) == ExponentOf(d) = 2047 /\ ~IsZeroFraction(d)
IsInfinite(d) == ExponentOf(d) = 2047 /\ IsZeroFraction(d)

\* The conversion to float, of a value that it does not change: a zero, or with an
\* exponent and a fraction that a normal or a subnormal float has.
ToSingle(d) ==
    LET exponent == ExponentOf(d)
        fraction == 524288 * (d[2] % 16) + 2048 * d[3] + 8 * d[4] + d[5] \div 32
        k == exponent - 874
        m == IF exponent = 0 THEN 0
             ELSE IF exponent > 896 THEN 8388608 * (exponent - 896) + fraction
             ELSE 2 ^ k + fraction \div 2 ^ (23 - k)
    IN  <<128 * (d[1] \div 128) + m \div 16777216, (m \div 65536) % 256, (m \div 256) % 256, m % 256>>

\* write_compact_float: the float is in range and equal to the double.
FitsSingle(d) ==
    LET e == ExponentOf(d)
    IN  /\ e \in 874 .. 1150 \/ (e = 0 /\ IsZeroFraction(d))
        /\ FromSingle(ToSingle(d)) = d

(***************************************************************************)
(* Reading.  A result is what was read and where reading goes on, or Bad.  *)
(***************************************************************************)
Bad == [next |-> 0, value |-> Null]
Got(next, value) == [next |-> next, value |-> value]
Then(r, f(_)) == IF r.next = 0 THEN Bad ELSE Apply(f, r)

\* Mutant: the end of the input is not noticed.
MutantGetBytes(s, i, n) ==
    LET m == IF i + n - 1 > Len(s) THEN Len(s) - i + 1 ELSE n
    IN  Got(i + m, SubSeq(s, i, i + m - 1) \o Fill(n - m, 0))
\* get_string, get_binary.
GetBytes(s, i, n) == IF i + n - 1 > Len(s) THEN Bad ELSE Got(i + n, SubSeq(s, i, i + n - 1))

\* get_number: the bytes of a number, most significant first.
GetNumber(s, i, n, little) ==
    LET order(r) == Got(r.next, IF little THEN Reverse(r.value) ELSE r.value)
    IN  Then(GetBytes(s, i, n), order)

\* A value made of what was read.
As(r, make(_)) == IF r.next = 0 THEN Bad ELSE Got(r.next, make(r.value))

\* sax_parse, strict: nothing may follow.
Whole(s, r) == IF r.next = Len(s) + 1 THEN r.value ELSE Discarded

=============================================================================
