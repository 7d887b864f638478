----------------------------- MODULE FrameCodec -----------------------------
(***************************************************************************)
(* What becomes of a packet between tq_append on one station and            *)
(* dlq_rec_frame on the next: il2p_encode_frame and il2p_decode_frame       *)
(* (il2p_codec.c), which map its octets into the IL2P header and back       *)
(* (Il2pHeader) and add the information part, block by block (Il2pPayload). *)
(*                                                                          *)
(* The information part is given by its length before it is sent.  On the   *)
(* air one octet of the header may be damaged, and blocks of the payload    *)
(* beyond repair.  The receiver is taken to have found the sync word.       *)
(***************************************************************************)
EXTENDS Il2pHeader, Il2pPayload

CONSTANTS Queued,     \* the packets that may be in the transmit queue
          DamagedAt,  \* octets of the header that may be damaged,
          DamagedBy   \* and what is added to them

\* An address is seven octets, whatever they are.
Addresses == [name : [1 .. 6 -> 0 .. 255], ssid : 0 .. 255]

\* ax25_from_frame takes the octets of a KISS client as they are: any addresses,
\* any control octet, and any PID behind one that asks for it.  The packets of the
\* link are among them.
AnyPacket ==
  {p \in [addrs : Addresses \X Addresses, ctrl : 0 .. 255,
          pid : 0 .. 255 \cup {NoPid}, info : Nat] :
     p.pid = NoPid <=> TypeOf(p.ctrl) \notin {"I", "UI"}}

ASSUME CodecAssumption ==
          /\ Queued \subseteq AnyPacket
          /\ NoPid \notin 0 .. 255
          /\ DamagedAt \subseteq 1 .. 15 /\ DamagedBy \subseteq 0 .. 255

VARIABLES stage,   \* "queued", "encode", "header", "decode", then "received" or
                   \* "lost"; "refused" if the transmitter drops it
          sent,    \* the packet in the transmit queue
          air,     \* the bits of its header on the air
          uhdr,    \* the header as the receiver has it
          got      \* the packet given to dlq_rec_frame

vars == <<stage, sent, air, uhdr, got, payloadVars>>

-----------------------------------------------------------------------------
\* Every character of both names has a code of six bits.
Sendable(addrs) ==
  \A n \in 1 .. 2 : \A i \in DOMAIN ax25_get_addr_no_ssid(addrs[n]) :
    ax25_get_addr_no_ssid(addrs[n])[i] \in 32 .. 95

\* A faulty variant, for comparison: one octet too many.
EncodableOneMore(p) ==
  LET t == TypeOf(p.ctrl)
  IN  /\ t # "U"
      /\ t \in {"I", "UI"} => Codes(p.pid) # {}
      /\ Sendable(p.addrs)
      /\ p.info <= IL2P_MAX_PAYLOAD_SIZE + 1

\* Which packets IL2P type 1 can carry: the others are dropped by the
\* transmitter.
Encodable(p) ==
  LET t == TypeOf(p.ctrl)
  IN  /\ t # "U"
      /\ t \in {"I", "UI"} => Codes(p.pid) # {}
      /\ Sendable(p.addrs)
      /\ p.info <= IL2P_MAX_PAYLOAD_SIZE

Init ==
  /\ stage = "queued" /\ sent \in Queued
  /\ air = <<>> /\ uhdr = <<>> /\ got = "none"
  /\ PayloadInit

il2p_send_frame ==
  /\ stage = "queued"
  /\ IF Encodable(sent)
       THEN /\ stage' = "encode" /\ size' = sent.info
            /\ air' = SentHeader(il2p_type_1_header(sent))
       ELSE stage' = "refused" /\ UNCHANGED <<air, size>>
  /\ UNCHANGED <<sent, uhdr, got, enc, pin, rsize, payload, place, failed, b>>

il2p_encode_payload ==
  /\ stage = "encode"
  /\ EncodeBlock
  /\ UNCHANGED <<stage, sent, air, uhdr, got>>

\* il2p_rec_bit gathers the header, repairs it, and gathers as many octets of the
\* payload as the length in it asks for.
il2p_rec_bit(at, by) ==
  /\ stage = "encode" /\ Encoded
  /\ \E clarified \in {il2p_clarify_header([OctetsOf(air) EXCEPT ![at] = Xor(@, by)])} :
       IF clarified.e < 0
         THEN stage' = "lost" /\ UNCHANGED <<uhdr, rsize, enc, b>>
         ELSE /\ stage' = "header" /\ uhdr' = clarified.hdr
              /\ rsize' = il2p_get_header_attributes(clarified.hdr)
              /\ enc' = SubSeq(enc, 1, il2p_payload_compute(rsize'))
              /\ b' = 0
  /\ UNCHANGED <<sent, air, got, size, pin, payload, place, failed>>

il2p_decode_header ==
  /\ stage = "header"
  /\ IF Readable(uhdr)
       THEN stage' = "decode" /\ got' = il2p_decode_header_type_1(uhdr)
       ELSE stage' = "lost" /\ UNCHANGED got
  /\ UNCHANGED <<sent, air, uhdr, payloadVars>>

il2p_decode_payload ==
  /\ stage = "decode"
  /\ DecodeBlock
  /\ UNCHANGED <<stage, sent, air, uhdr, got>>

\* ax25_set_info appends the information part whatever the type.
il2p_decode_header_payload ==
  /\ stage = "decode" /\ Decoded
  /\ IF DecodeError
       THEN stage' = "lost" /\ UNCHANGED got
       ELSE stage' = "received" /\ got' = [got EXCEPT !.info = payload]
  /\ UNCHANGED <<sent, air, uhdr, payloadVars>>

Next == \/ il2p_send_frame \/ il2p_encode_payload
        \/ \E at \in DamagedAt, by \in DamagedBy : il2p_rec_bit(at, by)
        \/ il2p_decode_header \/ il2p_decode_payload \/ il2p_decode_header_payload

Spec == Init /\ [][Next]_vars

-----------------------------------------------------------------------------
\* The station an address is of, as every receiver of the packet has it.
Station(addr) == WithoutBlanks(ax25_get_addr_no_ssid(addr))

\* A packet that gets through has the control octet it was sent with, bit for
\* bit (type, P/F, N(R), N(S)), every octet of its information part in its
\* place, the SSIDs of both stations and their names, but for blanks in front of
\* a NUL that ends a name early (il2p_header.c:347), and its PID, except that
\* every AX.25 layer 3 PID arrives as 0x20.  It gets through, also if an octet of
\* its header was damaged, unless a block was beyond repair or a name is none of
\* an AX.25 station: both ends agree on the blocks for every length, and the
\* receiver gathers what was sent.
OctetsSurvive ==
  /\ stage = "received" =>
       /\ got.ctrl = sent.ctrl
       /\ got.info = [i \in 1 .. sent.info |-> i]
       /\ got.pid = (IF sent.pid # NoPid /\ Codes(sent.pid) = {2} THEN 32 ELSE sent.pid)
       /\ \A n \in 1 .. 2 :
            /\ ax25_get_addr_no_ssid(got.addrs[n]) = Station(sent.addrs[n])
            /\ ax25_get_ssid(got.addrs[n]) = ax25_get_ssid(sent.addrs[n])
       /\ Len(enc) = place
  /\ stage = "lost" =>
       failed \/ \E n \in 1 .. 2 : ~(Range(Station(sent.addrs[n])) \subseteq Letters \cup Digits)
=============================================================================
