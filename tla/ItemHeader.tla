----------------------------- MODULE ItemHeader -----------------------------
(***************************************************************************)
(* The header of a SECS-II item: a byte with the format and the number of  *)
(* length bytes, and one to three length bytes, most significant first.    *)
(***************************************************************************)
EXTENDS Integers, Sequences

CONSTANTS
    Radix     \* values of a byte: 256

ASSUME RadixAssumption == Radix \in Nat /\ Radix >= 2

\* As few bytes as the length needs, at most three
set_size_bytes(n) ==
    IF n < Radix THEN <<n>>
    ELSE IF n < Radix * Radix THEN <<(n \div Radix) % Radix, n % Radix>>
    ELSE <<(n \div (Radix * Radix)) % Radix, (n \div Radix) % Radix, n % Radix>>

\* Formats are multiples of four: the number of length bytes is added to them
item_hdr(format, n) ==
    <<format + Len(set_size_bytes(n))>> \o set_size_bytes(n)

\* What the receiver takes from the first byte: & 0xFC and & 0x03
secs_data_type(b) == b - (b % 4)
num_length_bits(b) == b % 4

\* The length that n length bytes give; anything but 1 and 2 is taken for 3
item_size(n, p) ==
    IF n = 1 THEN p[1]
    ELSE IF n = 2 THEN p[1] * Radix + p[2]
    ELSE p[1] * (Radix * Radix) + p[2] * Radix + p[3]

LengthBytes(n) == IF n \in {1, 2} THEN n ELSE 3
=============================================================================
