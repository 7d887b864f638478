---------------------------- MODULE MCFrameCodec ----------------------------
(***************************************************************************)
(* FrameCodec on packets with every control octet, with the lengths around  *)
(* those where the blocks change, and with callsigns in which octets are    *)
(* replaced: blanks, NULs, characters that cannot be sent, lowest bits set. *)
(* With it goes a check, on some blocks and patterns of damage, of what     *)
(* Il2pPayload takes for granted, that a block of the payload with no more  *)
(* than eight octets damaged, parity included, is repaired, and of what     *)
(* Framing_proof shows for all, that a header with one is.                  *)
(***************************************************************************)
EXTENDS FrameCodec

\* "N0CALL", and "W1AW" with blanks behind.
Callsigns == { <<156, 96, 134, 130, 152, 152>>, <<174, 98, 130, 174, 64, 64>> }

\* Octets of blanks and NULs, of other characters, good and bad, and odd ones.
Replacing == {0, 1, 62, 64, 91, 115, 130, 181, 191, 192, 255}

\* Callsigns with an octet replaced, and with blanks or NULs from some place on,
\* also blanks up to a NUL.
Names ==
  {[call EXCEPT ![i] = c] : call \in Callsigns, i \in 1 .. 6, c \in Replacing}
  \cup {[j \in 1 .. 6 |-> IF j < i THEN call[j] ELSE c] :
           call \in Callsigns, i \in 1 .. 6, c \in {0, 64}}
  \cup {[j \in 1 .. 6 |-> IF j = n THEN 0 ELSE IF j \in i .. n THEN 64 ELSE call[j]] :
           call \in Callsigns, i \in 1 .. 5, n \in 2 .. 6}

Stations == [name : Callsigns, ssid : {0, 98, 254, 255}]
Strange == [name : Names, ssid : {225}]

Plain == CHOOSE pair \in Stations \X Stations : pair[1].name # pair[2].name /\ pair[2].ssid = 255

Pairs == (Stations \X Stations) \cup ({Plain[1]} \X Strange) \cup (Strange \X {Plain[2]})
           \cup {<<a, a>> : a \in Strange}

Lengths == {2, 3, 238, 239, 240, 241, 477, 478, 479, 480, 716, 717, 718, 719, 955, 956, 957, 958, 1022}

MCQueued ==
  {p \in [addrs : {Plain}, ctrl : 0 .. 255, pid : {240, NoPid}, info : {0}]
     \cup [addrs : {Plain}, ctrl : {0, 1, 3, 99},
            pid : {0, 1, 6, 16, 33, 195, 204, 240, 255, NoPid}, info : {0, 1, 1023, 1024}]
     \cup [addrs : Pairs, ctrl : {3, 9, 16, 67}, pid : {240, NoPid}, info : {5}]
     \cup [addrs : {Plain}, ctrl : {0}, pid : {240}, info : Lengths] :
     p.pid = NoPid <=> TypeOf(p.ctrl) \notin {"I", "UI"}}

Block(n) == Evaluated([k \in 1 .. n |-> (37 * k + n) % 256])

\* The block with its parity, m octets of it damaged, every step-th one, each in
\* another way.
Damaged(n, m, step) ==
  LET word == Block(n) \o il2p_encode_rs(Block(n), ParitySymbols)
      hit == {1 + ((k * step) % Len(word)) : k \in 1 .. m}
  IN  Evaluated([k \in DOMAIN word |->
                   IF k \in hit THEN Xor(word[k], 1 + ((91 * k) % 255)) ELSE word[k]])

ASSUME FecRepairs ==
  \A n \in {1, 20}, m \in {0, 1, 2, 7, 8}, step \in {1, 5} :
    il2p_decode_rs(Damaged(n, m, step), ParitySymbols) = [derrors |-> m, out |-> Block(n)]

ASSUME HeaderRepairs ==
  \A block \in {Block(13), [k \in 1 .. 13 |-> 0], [k \in 1 .. 13 |-> 255]} :
    LET word == block \o il2p_encode_rs(block, IL2P_HEADER_PARITY)
    IN  \A at \in 1 .. 15, by \in DamagedBy \cup {255} :
          il2p_decode_rs([word EXCEPT ![at] = Xor(@, by)], IL2P_HEADER_PARITY) =
            [derrors |-> IF by = 0 THEN 0 ELSE 1, out |-> block]
=============================================================================
