----------------------------- MODULE Il2pPayload -----------------------------
(***************************************************************************)
(* il2p_payload.c: the information part of a packet is split into at most   *)
(* five blocks of nearly equal size, each followed by its own parity, and   *)
(* put together again at the other end from the length in the header.       *)
(* Module FrameCodec calls the two loops and gives them their sizes.        *)
(*                                                                          *)
(* An octet of the payload is its index, an octet of parity is 0.  Left     *)
(* out: scrambling, and Reed-Solomon coding except that the receiver may    *)
(* find a block beyond repair.                                              *)
(***************************************************************************)
EXTENDS Integers, Sequences

IL2P_MAX_PAYLOAD_SIZE == 1023
ParitySymbols == 16

-----------------------------------------------------------------------------
(* il2p_payload_compute; no blocks for a payload of no octets.               *)

\* A faulty variant, for comparison: 240 octets to a block.
BlockCountOf240(n) == (n + 239) \div 240

BlockCount(n) == (n + 238) \div 239
SmallSize(n)  == n \div BlockCount(n)
LargeSize(n)  == SmallSize(n) + 1
LargeCount(n) == n - BlockCount(n) * SmallSize(n)
SmallCount(n) == BlockCount(n) - LargeCount(n)

il2p_payload_compute(n) ==
  IF n = 0 THEN 0
  ELSE SmallCount(n) * (SmallSize(n) + ParitySymbols) +
       LargeCount(n) * (LargeSize(n) + ParitySymbols)

\* Both loops, of the encoder and of the decoder, take the large blocks first.
BlockSize(n, b) == IF b <= LargeCount(n) THEN LargeSize(n) ELSE SmallSize(n)

-----------------------------------------------------------------------------
VARIABLES size,      \* payload_size of the encoder
          enc,       \* octets encoded so far, those of the payload and parity
          pin,       \* octets of the payload encoded
          rsize,     \* payload_size of the decoder
          payload,   \* octets put out by the decoder
          place,     \* its place in what it received
          failed,    \* a block was beyond repair
          b          \* blocks encoded or, then, decoded

payloadVars == <<size, enc, pin, rsize, payload, place, failed, b>>

PayloadInit ==
  /\ size = 0 /\ enc = <<>> /\ pin = 0
  /\ rsize = 0 /\ payload = <<>> /\ place = 0 /\ failed = FALSE
  /\ b = 0

\* One pass through the loops of il2p_encode_payload.
EncodeBlock ==
  LET n == BlockSize(size, b + 1)
  IN  /\ b < BlockCount(size)
      /\ enc' = enc \o [i \in 1 .. n + ParitySymbols |-> IF i <= n THEN pin + i ELSE 0]
      /\ pin' = pin + n
      /\ b' = b + 1
      /\ UNCHANGED <<size, rsize, payload, place, failed>>

Encoded == b = BlockCount(size)

\* One pass through the loops of il2p_decode_payload.
DecodeBlock ==
  LET n == BlockSize(rsize, b + 1)
  IN  /\ b < BlockCount(rsize)
      /\ payload' = payload \o SubSeq(enc, place + 1, place + n)
      /\ place' = place + n + ParitySymbols
      /\ b' = b + 1
      /\ failed' \in {failed, TRUE}
      /\ UNCHANGED <<size, enc, pin, rsize>>

Decoded == b = BlockCount(rsize)

\* -2 for a failed block, -3 for a length that is not the header's.
DecodeError == failed \/ Len(payload) # rsize

-----------------------------------------------------------------------------
\* A block and its parity fit a Reed-Solomon codeword of 255 octets (and the
\* 256 octets of scram), and there are no more than the five blocks that
\* IL2P_MAX_ENCODED_PAYLOAD_SIZE makes room for, whatever packet was queued.
BlocksFit ==
  /\ BlockCount(size) <= 5
  /\ \A i \in 1 .. BlockCount(size) : BlockSize(size, i) + ParitySymbols <= 255
=============================================================================
