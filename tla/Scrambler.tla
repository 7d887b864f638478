------------------------------ MODULE Scrambler ------------------------------
(***************************************************************************)
(* il2p_scramble.c: the shift registers that scramble and descramble a      *)
(* block, bit by bit.  A register is the tuple of its nine bits, the lowest *)
(* first; a block is the sequence of its bits in the order they are sent,   *)
(* the highest of each octet first.                                         *)
(***************************************************************************)
EXTENDS Octets

Bit == {0, 1}
Flip(x, y) == IF x = y THEN 0 ELSE 1    \* x ^ y of two bits

INIT_TX_LSFR == <<1, 1, 1, 1, 0, 0, 0, 0, 0>>
INIT_RX_LSFR == <<0, 0, 0, 0, 1, 1, 1, 1, 1>>

scramble_bit(in, s) ==
  LET out == Flip(s[5], s[1])
  IN  [out |-> out,
       state |-> <<s[2], s[3], s[4], out, s[6], s[7], s[8], s[9], Flip(in, s[1])>>]

descramble_bit(in, s) ==
  [out |-> Flip(in, s[1]),
   state |-> <<s[2], s[3], s[4], Flip(in, s[5]), s[6], s[7], s[8], s[9], in>>]

\* What comes out when a block runs through a register.
Through(step(_, _), register, block) ==
  Fold(LAMBDA acc, in : [out |-> Append(acc.out, step(in, acc.state).out),
                             state |-> step(in, acc.state).state],
           [out |-> <<>>, state |-> register], block).out

\* The first five bits out are discarded, five zeros flush the register.
Delay == 5

il2p_scramble_block(block) ==
  SubSeq(Through(scramble_bit, INIT_TX_LSFR, block \o [k \in 1 .. Delay |-> 0]),
         Delay + 1, Delay + Len(block))

il2p_descramble_block(block) == Through(descramble_bit, INIT_RX_LSFR, block)
=============================================================================
