----------------------------- MODULE Il2pHeader -----------------------------
(***************************************************************************)
(* The octets in front of the information part: those of an AX.25 packet    *)
(* (ax25_pad.c), and the IL2P type 1 header they are mapped into and        *)
(* rebuilt from (il2p_header.c), scrambled and with its parity              *)
(* (il2p_codec.c).                                                          *)
(*                                                                          *)
(* A packet has two addresses, destination and source, a control octet, a   *)
(* PID or none, and an information part, which only matters by its length   *)
(* here.  An address has the six octets of a name, each a character and a   *)
(* bit below it, and an SSID octet.                                         *)
(***************************************************************************)
EXTENDS Scrambler, ReedSolomon

CONSTANT NoPid    \* the packet has no PID octet

IL2P_HEADER_PARITY == 2

\* Bit i of octet c, and the field of n values that starts at bit i.
Field(c, i, n) == (c \div 2^i) % n

-----------------------------------------------------------------------------
(* ax25_pad.c: addresses.                                                    *)

NUL == 0
Blank == 32
Letters == 65 .. 90
Digits == 48 .. 57

WithoutBlanks(name) == SubSeq(name, 1, Max({0} \cup {i \in DOMAIN name : name[i] # Blank}))

\* A string of C ends at the first NUL.
CString(name) == SubSeq(name, 1, Min({Len(name) + 1} \cup {i \in DOMAIN name : name[i] = NUL}) - 1)

ax25_get_addr_no_ssid(addr) == CString(WithoutBlanks([i \in 1 .. 6 |-> addr.name[i] \div 2]))
ax25_get_ssid(addr) == Field(addr.ssid, 1, 16)

\* The addresses of a packet built from two names and their SSIDs.
set_addrs(names, ssids, cr) ==
  [n \in 1 .. 2 |->
     [name |-> [i \in 1 .. 6 |-> 2 * (IF i <= Len(names[n]) THEN names[n][i] ELSE Blank)],
      ssid |-> 96 + 2 * ssids[n] + (n - 1) + (IF cr = <<"cmd", "res">>[n] THEN 128 ELSE 0)]]

-----------------------------------------------------------------------------
(* ax25_pad.c: frames.                                                       *)

Packet(addrs, ctrl, pid) == [addrs |-> addrs, ctrl |-> ctrl, pid |-> pid, info |-> <<>>]

SControl == [RR |-> 1, RNR |-> 5, REJ |-> 9, SREJ |-> 13]
UControl == [SABM |-> 47, DISC |-> 67, DM |-> 15, UA |-> 99, FRMR |-> 135, UI |-> 3]

ax25_i_frame(addrs, nr, ns, pf, pid) == Packet(addrs, nr * 32 + pf * 16 + ns * 2, pid)

ax25_s_frame(addrs, type, nr, pf) == Packet(addrs, SControl[type] + nr * 32 + pf * 16, NoPid)

ax25_u_frame(addrs, type, pf, pid) ==
  Packet(addrs, UControl[type] + pf * 16, IF type = "UI" THEN pid ELSE NoPid)

\* The type of a frame goes by its control octet, P/F apart in a U frame.
TypeOf(c) ==
  LET u == c - 16 * Field(c, 4, 2)
  IN  CASE c % 2 = 0 -> "I"
        [] c % 4 = 1 -> CHOOSE t \in DOMAIN SControl : SControl[t] = c % 16
        [] c % 4 = 3 /\ \E t \in DOMAIN UControl : UControl[t] = u ->
             CHOOSE t \in DOMAIN UControl : UControl[t] = u
        [] OTHER -> "U"

\* The C bits are looked for in the first two octets of the packet, which are
\* those of the destination's name.
ax25_frame_type(p) ==
  LET t == TypeOf(p.ctrl)
      to == p.addrs[1].name
  IN  [type |-> t, pf |-> Field(p.ctrl, 4, 2),
       cr |-> CASE to[1] # 0 /\ to[2] # 0 -> "11"
                [] to[1] # 0 /\ to[2] = 0 -> "cmd"
                [] to[1] = 0 /\ to[2] # 0 -> "res"
                [] OTHER -> "00",
       nr |-> IF t = "I" \/ t \in DOMAIN SControl THEN Field(p.ctrl, 5, 8) ELSE 0,
       ns |-> IF t = "I" THEN Field(p.ctrl, 1, 8) ELSE 0]

-----------------------------------------------------------------------------
(* il2p_header.c: the header, thirteen octets.                               *)

\* Bits 4 and 5 tell AX.25 layer 3, 01 or 10; the other PIDs are listed.
PidCode ==
  << <<1, 3>>, <<6, 4>>, <<7, 5>>, <<8, 6>>, <<204, 11>>, <<205, 12>>,
     <<206, 13>>, <<207, 14>>, <<240, 15>> >>

Codes(pid) ==
  IF Field(pid, 4, 4) \in {1, 2} THEN {2}
  ELSE {PidCode[i][2] : i \in {j \in DOMAIN PidCode : PidCode[j][1] = pid}}

encode_pid(pid) == CHOOSE c \in Codes(pid) : TRUE

decode_pid(code) ==
  IF code = 2 THEN 32
  ELSE IF \E i \in DOMAIN PidCode : PidCode[i][2] = code
    THEN PidCode[CHOOSE i \in DOMAIN PidCode : PidCode[i][2] = code][1] ELSE 240

Opcode == [SABM |-> 0, DISC |-> 1, DM |-> 2, UA |-> 3, FRMR |-> 4, UI |-> 5]
SCode == [RR |-> 0, RNR |-> 1, REJ |-> 2, SREJ |-> 3]

\* The first six bits of an octet hold a character, the character code less that
\* of a blank; bits 6 and 7 of all twelve are put together into fields.
il2p_type_1_header(p) ==
  LET f == ax25_frame_type(p)
      C == IF f.cr \in {"cmd", "11"} THEN 4 ELSE 0
      UI == IF f.type = "UI" THEN 1 ELSE 0
      PID == CASE f.type \in {"I", "UI"} -> encode_pid(p.pid)
               [] f.type \in DOMAIN SControl -> 0
               [] OTHER -> 1
      CONTROL == f.pf * 64 +
                 (CASE f.type = "I" -> f.nr * 8 + f.ns
                    [] f.type \in DOMAIN SControl -> f.nr * 8 + C + SCode[f.type]
                    [] OTHER -> Opcode[f.type] * 8 + C)
      bit6 == <<UI>> \o Bits(PID, 4) \o Bits(CONTROL, 7)
      bit7 == <<1, 1>> \o Bits(p.info, 10)
      Sixbit(addr) ==
        LET name == ax25_get_addr_no_ssid(addr)
        IN  [i \in 1 .. 6 |-> IF i <= Len(name) THEN name[i] - Blank ELSE 0]
      six == Sixbit(p.addrs[1]) \o Sixbit(p.addrs[2])
  IN  [j \in 1 .. 12 |-> six[j] + 64 * bit6[j] + 128 * bit7[j]]
        \o <<16 * ax25_get_ssid(p.addrs[1]) + ax25_get_ssid(p.addrs[2])>>

il2p_get_header_attributes(hdr) == Number([j \in 1 .. 10 |-> Field(hdr[j + 2], 7, 2)])

\* The names in a header, and whether they are of capital letters and digits: a
\* header with other ones is refused.
NamesIn(hdr) ==
  [n \in 1 .. 2 |-> WithoutBlanks([i \in 1 .. 6 |-> (hdr[6 * (n - 1) + i] % 64) + Blank])]

Readable(hdr) ==
  \A n \in 1 .. 2 : Range(NamesIn(hdr)[n]) \subseteq Letters \cup Digits

\* The packet built anew from a readable header.
il2p_decode_header_type_1(hdr) ==
  LET bit6 == [j \in 1 .. 12 |-> Field(hdr[j], 6, 2)]
      ui == bit6[1]
      pid == Number(SubSeq(bit6, 2, 5))
      control == Number(SubSeq(bit6, 6, 12))
      pf == Field(control, 6, 2)
      hi == Field(control, 3, 8)
      cr == IF Field(control, 2, 2) = 1 THEN "cmd" ELSE "res"
      UType == IF hi > 5 THEN "FRMR" ELSE CHOOSE t \in DOMAIN Opcode : Opcode[t] = hi
      addrs(c) == set_addrs(NamesIn(hdr), <<hdr[13] \div 16, hdr[13] % 16>>, c)
  IN  CASE pid = 0 ->
             ax25_s_frame(addrs(cr), CHOOSE t \in DOMAIN SCode : SCode[t] = control % 4, hi, pf)
        [] pid = 1 -> ax25_u_frame(addrs(cr), UType, pf, 240)
        [] pid > 1 /\ ui = 1 -> ax25_u_frame(addrs(cr), "UI", pf, decode_pid(pid))
        [] OTHER -> ax25_i_frame(addrs("cmd"), hi, control % 8, pf, decode_pid(pid))

-----------------------------------------------------------------------------
(* il2p_codec.c: the header on the air.                                      *)

\* The bits of the scrambled header and its parity, in the order they are sent.
SentHeader(hdr) ==
  LET scrambled == OctetsOf(il2p_scramble_block(BitsOf(hdr)))
  IN  BitsOf(scrambled \o il2p_encode_rs(scrambled, IL2P_HEADER_PARITY))

\* What the receiver makes of these octets.
Descrambled(corrected) ==
  [e |-> corrected.derrors, hdr |-> OctetsOf(il2p_descramble_block(BitsOf(corrected.out)))]

il2p_clarify_header(rec_hdr) == Descrambled(il2p_decode_rs(rec_hdr, IL2P_HEADER_PARITY))
=============================================================================
