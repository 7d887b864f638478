------------------------------ MODULE KissFrame ------------------------------
(***************************************************************************)
(* KISS framing between a client and IPNode over the pseudo terminal:       *)
(* kiss_encapsulate, kiss_rec_byte, kiss_unwrap and kiss_process_msg of     *)
(* kiss_frame.c, fed octet by octet by kisspt_listen_thread of kiss_pt.c;   *)
(* and received packets on their way to the client, which the main thread   *)
(* writes with kisspt_send_rec_packet.  The terminal takes a write whole,   *)
(* in part or not at all, and when reading from it fails the listener       *)
(* closes it, step by step, under the hands of the main thread.             *)
(*                                                                          *)
(* The client is external.  It sends data frames, each wrapped the way      *)
(* kiss_encapsulate does it, and may break off in the middle of one (it is  *)
(* killed, or started again): the rest of that frame never comes.  What it  *)
(* reads it takes apart at the FENDs.                                       *)
(*                                                                          *)
(* An octet is one of the four special ones, the command octet 0 that each  *)
(* message begins with, or one of Octets.                                   *)
(***************************************************************************)
EXTENDS Naturals, Sequences, SequencesExt

CONSTANTS Octets,         \* ordinary octets
          MAX_KISS_LEN,   \* size of kiss_msg, 2048 in the code
          MinFrameLen,    \* AX25_MIN_PACKET_LEN
          MaxFrameLen,    \* bound on the packets
          NULL

Special == {"FEND", "FESC", "TFEND", "TFESC"}
DATA_FRAME == "0"         \* KISS_CMD_DATA_FRAME on port 0

ASSUME KissAssumption ==
          /\ Octets \cap (Special \cup {DATA_FRAME}) = {}
          /\ MAX_KISS_LEN \in Nat \ {0, 1}
          /\ MinFrameLen \in Nat \ {0}
          /\ MaxFrameLen \in Nat

Packets == {s \in BoundedSeq(Special \cup Octets, MaxFrameLen) : Len(s) >= MinFrameLen}

VARIABLES state,      \* kf.state
          kiss_msg,   \* the first kf.kiss_len octets of kf.kiss_msg
          queued,     \* the packet just passed to tq_append, or NULL
          begun,      \* history: the last two packets the client began to send
          pipe,       \* octets of the last one that are still to come
          whole,      \* frames sent whole since the client last broke off
          pt,         \* pt_master_fd: open, closed, -1, or the listener is gone
          sending,    \* the packet the main thread is about to write, or NULL
          stream,     \* what the client has read since the last FEND
          traffic     \* from the client or to it: they share no more than pt

ptVars == <<pt, sending, stream, traffic>>
kissVars == <<state, kiss_msg, queued, begun, pipe, whole, ptVars>>

KissInit ==
  /\ state = "searching" /\ kiss_msg = <<>> /\ queued = NULL
  /\ begun = <<>> /\ pipe = <<>>
  /\ whole = 1    \* nothing was ever broken off
  /\ pt \in {"open", "gone"}    \* kisspt_open_pt may fail: no listener then
  /\ sending = NULL /\ stream = <<>> /\ traffic \in {"from", "to"}

-----------------------------------------------------------------------------
\* A faulty variant, for comparison: a FESC stands for itself.
FescNotEscaped(chr) == IF chr = "FEND" THEN <<"FESC", "TFEND">> ELSE <<chr>>

Escaped(chr) ==
  CASE chr = "FEND" -> <<"FESC", "TFEND">>
    [] chr = "FESC" -> <<"FESC", "TFESC">>
    [] OTHER -> <<chr>>

kiss_encapsulate(in) ==
  <<"FEND">> \o FlattenSeq([j \in DOMAIN in |-> Escaped(in[j])]) \o <<"FEND">>

\* A faulty variant, for comparison: the two codes are exchanged.
UnescapedSwapped(chr) ==
  CASE chr = "TFEND" -> <<"FESC">>
    [] chr = "TFESC" -> <<"FEND">>
    [] OTHER -> <<>>

\* The octet after a FESC, dropped if it is neither TFESC nor TFEND.
Unescaped(chr) ==
  CASE chr = "TFEND" -> <<"FEND">>
    [] chr = "TFESC" -> <<"FESC">>
    [] OTHER -> <<>>

\* What is between the FENDs, octet by octet with escaped_mode carried along.
Unwrap(acc, chr) ==
  CASE acc.escaped_mode -> [escaped_mode |-> FALSE, out |-> acc.out \o Unescaped(chr)]
    [] ~acc.escaped_mode /\ chr = "FESC" -> [acc EXCEPT !.escaped_mode = TRUE]
    [] OTHER -> [acc EXCEPT !.out = Append(@, chr)]

kiss_unwrap(in) ==
  FoldLeft(Unwrap, [escaped_mode |-> FALSE, out |-> <<>>], SubSeq(in, 2, Len(in) - 1)).out

\* An empty message is looked at too: the command is then whatever the stack
\* holds, but a length of -1 is refused in either case.
kiss_process_msg(msg) ==
  IF /\ msg # <<>>
     /\ Head(msg) = DATA_FRAME
     /\ Len(Tail(msg)) >= MinFrameLen
    THEN queued' = Tail(msg) ELSE queued' = NULL

Searching(chr) ==
  /\ state = "searching"
  /\ IF chr = "FEND" THEN state' = "collecting" /\ kiss_msg' = <<chr>>
                     ELSE UNCHANGED <<state, kiss_msg>>
  /\ queued' = NULL

\* A faulty variant, for comparison: every FEND but the first ends a frame.
EmptyFrameEnds(chr) ==
  /\ state = "collecting" /\ chr = "FEND" /\ kiss_msg = <<"FEND">>
  /\ state' = "searching" /\ kiss_msg' = Append(kiss_msg, chr)
  /\ queued' = NULL

\* A FEND after the first one: still at the beginning of a frame.
EmptyFrame(chr) ==
  /\ state = "collecting" /\ chr = "FEND" /\ kiss_msg = <<"FEND">>
  /\ queued' = NULL
  /\ UNCHANGED <<state, kiss_msg>>

EndOfFrame(chr) ==
  /\ state = "collecting" /\ chr = "FEND" /\ kiss_msg # <<"FEND">>
  /\ kiss_msg' = Append(kiss_msg, chr)
  /\ kiss_process_msg(kiss_unwrap(kiss_msg'))
  /\ state' = "searching"

\* What does not fit is dropped.
Collect(chr) ==
  /\ state = "collecting" /\ chr # "FEND"
  /\ kiss_msg' = IF Len(kiss_msg) < MAX_KISS_LEN THEN Append(kiss_msg, chr) ELSE kiss_msg
  /\ queued' = NULL
  /\ UNCHANGED state

kiss_rec_byte(chr) == Searching(chr) \/ EmptyFrame(chr) \/ EndOfFrame(chr) \/ Collect(chr)

\* kisspt_listen_thread takes one octet from the pseudo terminal.
Listen ==
  /\ pipe # <<>> /\ pt = "open"
  /\ kiss_rec_byte(Head(pipe))
  /\ pipe' = Tail(pipe)
  /\ whole' = IF Len(pipe) = 1 THEN 1 ELSE whole
  /\ UNCHANGED <<begun, ptVars>>

\* kisspt_get cannot read: close, pt_master_fd = -1, unlink, pthread_exit.
ListenFails ==
  /\ \/ pt = "open" /\ pt' = "closed"
     \/ pt = "closed" /\ pt' = "-1"
     \/ pt = "-1" /\ pt' = "gone"
  /\ queued' = NULL
  /\ UNCHANGED <<state, kiss_msg, begun, pipe, whole, sending, stream, traffic>>

-----------------------------------------------------------------------------
(* The main thread: kisspt_send_rec_packet.                                  *)

frameVars == <<state, kiss_msg, begun, pipe, whole>>

\* The test of pt_master_fd; a packet that finds it -1 is dropped.
SendTests(p) ==
  /\ traffic = "to" /\ sending = NULL
  /\ sending' = IF pt \in {"-1", "gone"} THEN NULL ELSE p
  /\ queued' = NULL
  /\ UNCHANGED <<frameVars, pt, stream, traffic>>

DataFrame(p) == kiss_encapsulate(<<DATA_FRAME>> \o p)

\* External.  What the client has read after more octets: the items between FENDs,
\* empty ones left out, and what has come of the next one.
Read(acc, chr) ==
  CASE chr # "FEND" -> [acc EXCEPT !.rest = Append(@, chr)]
    [] chr = "FEND" /\ acc.rest # <<>> ->
         [items |-> Append(acc.items, kiss_unwrap(<<chr>> \o acc.rest \o <<chr>>)),
          rest |-> <<>>]
    [] OTHER -> acc

ClientReads(octets) == FoldLeft(Read, [items |-> <<>>, rest |-> stream], octets)

\* write: so many octets are taken, none if nobody reads (EWOULDBLOCK) or if the
\* terminal has been closed since the test (EBADF).
SendWrites(n) ==
  /\ sending # NULL
  /\ n \in 0 .. Len(DataFrame(sending)) /\ (pt # "open" => n = 0)
  /\ stream' = ClientReads(SubSeq(DataFrame(sending), 1, n)).rest
  /\ sending' = NULL
  /\ queued' = NULL
  /\ UNCHANGED <<frameVars, pt, traffic>>

-----------------------------------------------------------------------------

\* External: the client.
ClientSends(p) ==
  /\ traffic = "from" /\ pipe = <<>>
  /\ begun' = IF begun = <<>> THEN <<p>> ELSE <<Last(begun), p>>
  /\ pipe' = DataFrame(p)
  /\ queued' = NULL
  /\ UNCHANGED <<state, kiss_msg, whole, ptVars>>

\* A frame of which nothing was taken was never begun.
ClientBreaksOff ==
  /\ pipe # <<>> /\ pipe # DataFrame(Last(begun))
  /\ pipe' = <<>> /\ whole' = 0
  /\ queued' = NULL
  /\ UNCHANGED <<state, kiss_msg, begun, ptVars>>

KissNext ==
  \/ Listen \/ ListenFails \/ ClientBreaksOff
  \/ \E p \in Packets : ClientSends(p) \/ SendTests(p)
  \/ \E n \in 0 .. 2 * MaxFrameLen + 3 : SendWrites(n)

KissSpec == KissInit /\ [][KissNext]_kissVars

-----------------------------------------------------------------------------
\* The listener finds its way back: when the client has broken off in the
\* middle of a frame the next one may be lost with it, but every frame sent
\* whole after that, and every frame before, is queued exactly as it was sent.
Resynchronised ==
  [][Listen /\ Len(pipe) = 1 /\ whole = 1 => queued' = Last(begun)]_kissVars

\* Whatever was written in part before, a packet that the terminal takes whole is
\* the last thing the client reads: kiss_encapsulate begins with a FEND, which
\* ends the rest of an earlier packet, and lets none appear within.
SentIsRead ==
  [][\A p \in Packets :
       sending = p /\ SendWrites(Len(DataFrame(p))) =>
         /\ ClientReads(DataFrame(p)).items # <<>>
         /\ Last(ClientReads(DataFrame(p)).items) = <<DATA_FRAME>> \o p]_kissVars

\* What is queued was sent: a packet passed to tq_append is one the client has
\* begun, or the beginning of one that it broke off; no two packets are merged.
OnlyWhatWasBegun ==
  queued # NULL => \E j \in DOMAIN begun : IsPrefix(queued, begun[j])
=============================================================================
