----------------------------- MODULE NixBase32 -----------------------------
(***************************************************************************)
(* arca-core/src/nix_base32.rs: bytes to characters of five bits each.     *)
(* Character n, counted from the end of the text, holds the bits 5n up to  *)
(* 5n + 4 of the input, which begin in one byte and may end in the next.   *)
(*                                                                         *)
(* A character of the alphabet stands for its position there, BadChar for  *)
(* any other character.  Bytes are u8: a left shift drops the high bits.   *)
(***************************************************************************)
EXTENDS Naturals, Sequences, FiniteSetsExt

CONSTANT BadChar  \* a character outside the alphabet

ASSUME BadCharAssumption == BadChar \notin Nat

Byte == 0..255
Digit == 0..31

Chars(bytes) == (bytes * 8 + 4) \div 5  \* div_ceil(5)
ByteCount(chars) == (chars * 5) \div 8

Shl(x, k) == (x * 2^k) % 256
Shr(x, k) == x \div 2^k

(* Where character n begins: its byte, from 0, and the bit in it. *)
ByteOf(n) == (n * 5) \div 8
BitOf(n) == (n * 5) % 8

(* Mutant: five bits that end in the next byte are taken to begin at bit 5. *)
DigitWithin(input, n) ==
  LET i == ByteOf(n)
      low == Shr(input[i + 1], BitOf(n)) % 32
  IN  IF BitOf(n) > 4 /\ i + 1 < Len(input)
        THEN (low + Shl(input[i + 2], 8 - BitOf(n))) % 32 ELSE low

(* The bits of both bytes are disjoint: + is the code's |. *)
DigitAt(input, n) ==
  LET i == ByteOf(n)
      low == Shr(input[i + 1], BitOf(n)) % 32
  IN  IF BitOf(n) > 3 /\ i + 1 < Len(input)
        THEN (low + Shl(input[i + 2], 8 - BitOf(n))) % 32 ELSE low

Encode(input) ==
  LET len == Chars(Len(input))
  IN  [i \in 1..len |-> DigitAt(input, len - i)]

(* What character n, of value d, adds to byte i of an output of len bytes. *)
Contribution(n, d, i, len) ==
  (IF ByteOf(n) = i /\ i < len THEN Shl(d, BitOf(n)) ELSE 0)
  + (IF BitOf(n) > 3 /\ ByteOf(n) + 1 = i /\ i < len THEN Shr(d, 8 - BitOf(n)) ELSE 0)

(* << >> is None, and <<bytes>> Some(bytes). *)
Decode(input) ==
  LET len == ByteCount(Len(input))
      N == 0..(Len(input) - 1)
      Added(i, n) == Contribution(n, input[Len(input) - n], i, len)
  IN  IF \E j \in DOMAIN input : input[j] = BadChar THEN << >>
      ELSE <<[i \in 1..len |-> MapThenSumSet(LAMBDA n : Added(i - 1, n), N)]>>

-----------------------------------------------------------------------------
(* The definition of the encoding, bit by bit. *)

Bit(x, k) == Shr(x, k) % 2

(* Bit k of the input, or 0 past its end. *)
InputBit(input, k) == IF k < 8 * Len(input) THEN Bit(input[k \div 8 + 1], k % 8) ELSE 0

IsEncoding(text, input) ==
  /\ Len(text) = Chars(Len(input))
  /\ \A n \in 0..(Len(text) - 1), j \in 0..4 :
       Bit(text[Len(text) - n], j) = InputBit(input, 5 * n + j)
=============================================================================
