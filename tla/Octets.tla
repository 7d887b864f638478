------------------------------- MODULE Octets -------------------------------
(***************************************************************************)
(* Octets, 0 .. 255, and their bits, the highest first.                     *)
(***************************************************************************)
EXTENDS Integers, Sequences, SequencesExt

\* The sequence itself; TLC computes what is in it once and for all.
Evaluated(seq) == SubSeq(seq, 1, Len(seq))

\* FoldLeft, as a recursive function, which TLC evaluates in one pass.
Fold(op(_, _), base, seq) ==
  LET f[n \in 0 .. Len(seq)] == IF n = 0 THEN base ELSE op(f[n - 1], seq[n])
  IN  f[Len(seq)]

\* Exclusive or of octets, by way of a table for half octets.
NibbleXor ==
  [x \in 0 .. 15 |-> [y \in 0 .. 15 |->
     Fold(LAMBDA z, w : z + w * (((x \div w) + (y \div w)) % 2), 0, <<1, 2, 4, 8>>)]]

Xor(x, y) == 16 * NibbleXor[x \div 16][y \div 16] + NibbleXor[x % 16][y % 16]

XorAll(symbols) == Fold(Xor, 0, symbols)

\* The last w bits of v, as set_field puts them into a header and as
\* il2p_send_frame sends them; and the number that bits make, as get_field and
\* il2p_rec_bit put it together.
Bits(v, w) == [k \in 1 .. w |-> (v \div 2^(w - k)) % 2]
Number(bits) == Fold(LAMBDA v, d : 2 * v + d, 0, bits)

BitsOf(octets) ==
  Evaluated([k \in 1 .. 8 * Len(octets) |-> Bits(octets[(k + 7) \div 8], 8)[((k - 1) % 8) + 1]])
OctetsOf(bits) ==
  Evaluated([j \in 1 .. Len(bits) \div 8 |-> Number(SubSeq(bits, 8 * j - 7, 8 * j))])
=============================================================================
