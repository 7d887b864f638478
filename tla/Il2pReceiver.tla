---------------------------- MODULE Il2pReceiver ----------------------------
(***************************************************************************)
(* il2p_rec.c: the demodulator calls il2p_rec_bit for every bit it has      *)
(* recovered.  The function looks for the sync word, gathers the octets of  *)
(* the header and then as many octets of payload as the header announces,   *)
(* and passes the decoded packet to the data link queue.                    *)
(*                                                                          *)
(* Abstracted: the octets gathered; what the header says (a length, or that *)
(* it cannot be corrected) and whether the payload can be decoded are any   *)
(* of their possible results.                                               *)
(***************************************************************************)
EXTENDS Integers, FiniteSets

CONSTANTS AccBits,         \* bits of the accumulator, 24 in the code
          IL2P_SYNC_WORD,  \* the bits that are set in it
          HeaderOctets,    \* IL2P_HEADER_SIZE + IL2P_HEADER_PARITY
          PayloadLens      \* encoded payload lengths a header may announce

VARIABLES F,         \* the static il2p_context
          frames,    \* packets passed to dlq_rec_frame
          recent     \* the last AccBits bits the demodulator gave

vars == <<F, frames, recent>>

\* memset(F, 0, ...): the context is a static variable and starts so as well.
Zeroed == [state |-> "searching", acc |-> {}, bc |-> 0, hc |-> 0, pc |-> 0, eplen |-> 0]

\* A word is the set of its bits that are 1; the bit dbit comes in as bit 0.
Shifted(acc, dbit) ==
  {i \in 1 .. AccBits - 1 : i - 1 \in acc} \cup (IF dbit = 1 THEN {0} ELSE {})

\* popcount of the exclusive or.
Differing(a, b) == Cardinality((a \ b) \cup (b \ a))

Init == F = Zeroed /\ frames = 0 /\ recent = {}

\* A single bit mismatch is allowed.
Search(C) ==
  IF Differing(C.acc, IL2P_SYNC_WORD) <= 1
    THEN [C EXCEPT !.state = "header", !.bc = 0, !.hc = 0] ELSE C

\* What follows a complete header; -1 if it is beyond correction or its length
\* is.
HeaderDone(C, n) ==
  CASE n = -1 -> [C EXCEPT !.state = "searching"]
    [] n = 0  -> [C EXCEPT !.state = "decode", !.pc = 0, !.eplen = 0]
    [] OTHER  -> [C EXCEPT !.state = "payload", !.pc = 0, !.eplen = n]

\* The first seven bits of an octet are only counted.
Header(C, n) ==
  LET Octet == [C EXCEPT !.bc = 0, !.hc = @ + 1]
  IN  CASE C.bc + 1 < 8 -> [C EXCEPT !.bc = @ + 1]
        [] C.bc + 1 = 8 /\ Octet.hc = HeaderOctets -> HeaderDone(Octet, n)
        [] OTHER -> Octet

Payload(C) ==
  LET Octet == [C EXCEPT !.bc = 0, !.pc = @ + 1]
  IN  CASE C.bc + 1 < 8 -> [C EXCEPT !.bc = @ + 1]
        [] C.bc + 1 = 8 /\ Octet.pc = C.eplen -> [Octet EXCEPT !.state = "decode"]
        [] OTHER -> Octet

\* The context a bit finds: memset clears all of it, every time.
Context == Zeroed

\* The bit is shifted in, and then the state looked at.
il2p_rec_bit(dbit) ==
  LET C == [Context EXCEPT !.acc = Shifted(@, dbit)]
  IN  /\ \E n \in PayloadLens \cup {-1} :
           F' = CASE C.state = "searching" -> Search(C)
                  [] C.state = "header"    -> Header(C, n)
                  [] C.state = "payload"   -> Payload(C)
                  [] C.state = "decode"    -> [C EXCEPT !.state = "searching"]
      /\ \E ok \in BOOLEAN :
           frames' = IF C.state = "decode" /\ ok THEN frames + 1 ELSE frames
      /\ recent' = Shifted(recent, dbit)

Next == \E dbit \in {0, 1} : il2p_rec_bit(dbit)

Spec == Init /\ [][Next]_vars

-----------------------------------------------------------------------------
\* No bits whatever, a perfectly received frame among them, make the receiver
\* pass anything to dlq_rec_frame, since memset takes all earlier bits out of
\* the accumulator before it is compared with the sync word.
NothingReceived == frames = 0

\* "Accumulate most recent 24 bits received.  Most recent is LSB."
AccumulatesRecentBits == F.acc = recent
=============================================================================
