------------------------------ MODULE Ax25Link ------------------------------
(***************************************************************************)
(* The AX.25 data link state machine of ax25_link.c.  One link is a record, *)
(* the ax25_dlsm_t; each handler of the file is an operator that takes the  *)
(* record and the received frame and returns the record it leaves behind.   *)
(* What a handler hands to others collects in three fields that every event *)
(* starts empty: out (frames passed to lm_data_request), up (information    *)
(* passed to dl_data_indication) and seize (calls of lm_seize_request).     *)
(*                                                                          *)
(* Left out because no statement of this commit can make it matter:         *)
(* state_2_awaiting_release is never entered, and own_receiver_busy,        *)
(* reject_exception and layer_3_initiated are never set to anything but 0.  *)
(* The time values (t1v, srt, expiry times) are abstracted to whether a     *)
(* timer runs.                                                              *)
(***************************************************************************)
EXTENDS Naturals, Sequences, FiniteSets

CONSTANTS Modulo,      \* sequence numbers are modulo 8 in the code
          k_maxframe,  \* window size
          n2_retry,    \* retries before the link is given up
          Msgs,        \* contents of information fields
          None         \* no content: NULL

ASSUME LinkAssumption ==
          /\ Modulo \in Nat \ {0, 1}
          /\ k_maxframe \in 1 .. Modulo - 1
          /\ n2_retry \in Nat \ {0}
          /\ None \notin Msgs

SeqNo == 0 .. Modulo - 1

AX25MODULO(n) == n % Modulo

\* a - b modulo, without leaving the naturals.
Minus(a, b) == AX25MODULO(a + Modulo - b)

-----------------------------------------------------------------------------
(* Frames: what ax25_i_frame, ax25_s_frame and ax25_u_frame put into one and *)
(* ax25_frame_type finds in it.  The message of a SREJ that we send is None; *)
(* that of a received one may be the sequence of further numbers in its      *)
(* information field (multi-SREJ).                                           *)

FrameTypes == {"I", "RR", "RNR", "REJ", "SREJ",
               "SABM", "DISC", "DM", "UA", "FRMR", "UI"}

Frames == [type : FrameTypes, cr : {"cmd", "res", "11"}, pf : BOOLEAN,
           nr : SeqNo, ns : SeqNo, msg : Msgs \cup {None}]

Frame(type, cr, pf, nr, ns, msg) ==
  [type |-> type, cr |-> cr, pf |-> pf, nr |-> nr, ns |-> ns, msg |-> msg]

SFrame(type, cr, pf, nr) == Frame(type, cr, pf, nr, 0, None)
UFrame(type, cr, pf) == Frame(type, cr, pf, 0, 0, None)

\* ax25_frame_type looks for the C bits in the first two octets of the frame,
\* which hold characters of the destination and are never zero, so it takes
\* every frame for cr_11 whatever its sender wrote into the SSID octets.
ax25_frame_type(f) == [f EXCEPT !.cr = "11"]

-----------------------------------------------------------------------------
(* The link.                                                                 *)

States == {"none",                   \* no ax25_dlsm_t yet
           "disconnected", "awaiting_connection", "connected", "timer_recovery"}

Up == {"connected", "timer_recovery"}

Link == [state : States, vs : SeqNo, va : SeqNo, vr : SeqNo, rc : 0 .. n2_retry,
         peer_receiver_busy : BOOLEAN, acknowledge_pending : BOOLEAN,
         radio_channel_busy : BOOLEAN,
         t1 : {"stopped", "running", "paused"}, t3 : {"stopped", "running"},
         i_frame_queue : Seq(Msgs),
         txdata_by_ns : [SeqNo -> Msgs \cup {None}],
         rxdata_by_ns : [SeqNo -> Msgs \cup {None}],
         out : Seq(Frames), up : Seq(Msgs), seize : 0 .. 2]

\* calloc: everything is zero.
NewLink ==
  [state |-> "none", vs |-> 0, va |-> 0, vr |-> 0, rc |-> 0,
   peer_receiver_busy |-> FALSE, acknowledge_pending |-> FALSE,
   radio_channel_busy |-> FALSE, t1 |-> "stopped", t3 |-> "stopped",
   i_frame_queue |-> <<>>,
   txdata_by_ns |-> [n \in SeqNo |-> None],
   rxdata_by_ns |-> [n \in SeqNo |-> None],
   out |-> <<>>, up |-> <<>>, seize |-> 0]

-----------------------------------------------------------------------------
(* The macros and small functions.                                           *)

IFrame(S, ns, msg) == Frame("I", "cmd", FALSE, S.vr, ns, msg)

lm_data_request(S, f) == [S EXCEPT !.out = Append(@, f)]

\* A faulty variant, for comparison: nothing is asked for.
NoSeizeRequest(S) == S

lm_seize_request(S) == [S EXCEPT !.seize = @ + 1]

enter_new_state(S, new) == [S EXCEPT !.state = new]

StartT1(S) == [S EXCEPT !.t1 = IF S.radio_channel_busy THEN "paused" ELSE "running"]
StopT1(S)  == [S EXCEPT !.t1 = "stopped"]
PauseT1(S) == [S EXCEPT !.t1 = IF @ = "running" THEN "paused" ELSE @]

\* A faulty variant, for comparison: the timer stays paused.
NoResumeT1(S) == S

ResumeT1(S) == [S EXCEPT !.t1 = IF @ = "paused" THEN "running" ELSE @]

StartT3(S) == [S EXCEPT !.t3 = "running"]
StopT3(S)  == [S EXCEPT !.t3 = "stopped"]

\* SET_VA frees the stashed frames before n, down to the first empty slot.
SetVA(S, n) ==
  LET Freed == {x \in SeqNo : \A j \in 1 .. Minus(n, x + 1) + 1 :
                                S.txdata_by_ns[Minus(n, j)] # None}
  IN  [S EXCEPT !.va = n,
                !.txdata_by_ns = [x \in SeqNo |-> IF x \in Freed THEN None ELSE @[x]]]

\* A faulty variant, for comparison: V(A) keeps its value.
ResetSeqButVA(S) == [S EXCEPT !.vs = 0, !.vr = 0]

ResetSeq(S) == [SetVA([S EXCEPT !.vs = 0], 0) EXCEPT !.vr = 0]

WITHIN_WINDOW_SIZE(S) == S.vs # AX25MODULO(S.va + k_maxframe)

\* A faulty variant, for comparison: N(R) = V(S) is not accepted.
NrBelowVS(S, nr) == S.vs = S.va \/ Minus(nr, S.va) < Minus(S.vs, S.va)

is_good_nr(S, nr) == Minus(nr, S.va) <= Minus(S.vs, S.va)

\* A faulty variant, for comparison: every frame but the expected one is in the window.
AnyNsInWindow(S, ns) == 0 < Minus(ns, S.vr)

\* 63 is meant as a generous window; modulo 8 it leaves out V(R) - 1 alone.
is_ns_in_window(S, ns) ==
  0 < Minus(ns, S.vr) /\ Minus(ns, S.vr) < AX25MODULO(63)

discard_i_queue(S) == [S EXCEPT !.i_frame_queue = <<>>]

\* A faulty variant, for comparison: the receive buffer is kept.
ClearAllButReceived(S) ==
  [S EXCEPT !.peer_receiver_busy = FALSE, !.acknowledge_pending = FALSE]

clear_exception_conditions(S) ==
  [S EXCEPT !.peer_receiver_busy = FALSE,
            !.acknowledge_pending = FALSE,
            !.rxdata_by_ns = [n \in SeqNo |-> None]]

establish_data_link(S) ==
  LET C == [clear_exception_conditions(S) EXCEPT !.rc = 1]
  IN  StartT1(StopT3(lm_data_request(C, UFrame("SABM", "cmd", TRUE))))

\* A sequence number the peer cannot mean: set up the link anew.
nr_error_recovery(S) == establish_data_link(S)
GiveUpNr(S) == enter_new_state(nr_error_recovery(S), "awaiting_connection")

\* Faulty variants, for comparison: the enquiry starts no timer, ...
EnquiryWithoutT1(S) ==
  [lm_data_request(S, SFrame("RR", "cmd", TRUE, S.vr))
     EXCEPT !.acknowledge_pending = FALSE]

\* ... or acknowledges the frame after the expected one.
EnquiryAhead(S) ==
  StartT1([lm_data_request(S, SFrame("RR", "cmd", TRUE, AX25MODULO(S.vr + 1)))
             EXCEPT !.acknowledge_pending = FALSE])

transmit_enquiry(S) ==
  StartT1([lm_data_request(S, SFrame("RR", "cmd", TRUE, S.vr))
             EXCEPT !.acknowledge_pending = FALSE])

\* A faulty variant, for comparison: N(R) is one ahead and not wrapped around.
ResponseAhead(S, f) ==
  [lm_data_request(S, SFrame("RR", "res", f, S.vr + 1))
     EXCEPT !.acknowledge_pending = FALSE]

enquiry_response(S, f) ==
  [lm_data_request(S, SFrame("RR", "res", f, S.vr))
     EXCEPT !.acknowledge_pending = FALSE]

\* A faulty variant, for comparison: the first frame of the queue is sent and
\* stashed under a number that is not used up.
PopWithoutCounting(S) ==
  IF S.state \notin Up \/ S.peer_receiver_busy \/ S.i_frame_queue = <<>>
       \/ Minus(S.va + k_maxframe, S.vs) = 0
    THEN S
    ELSE StartT1([S EXCEPT !.out = Append(@, IFrame(S, S.vs, Head(S.i_frame_queue))),
                           !.txdata_by_ns[S.vs] = Head(S.i_frame_queue),
                           !.i_frame_queue = Tail(@)])

\* Send what the window allows, keeping each frame for a retransmission.
i_frame_pop_off_queue(S) ==
  LET room == Minus(S.va + k_maxframe, S.vs)
      n    == IF room < Len(S.i_frame_queue) THEN room ELSE Len(S.i_frame_queue)
      Ns(i) == AX25MODULO(S.vs + i - 1)
  IN  IF S.state \notin Up \/ S.peer_receiver_busy \/ n = 0 THEN S
      ELSE StartT1(StopT3(
             [S EXCEPT !.out = @ \o [i \in 1 .. n |-> IFrame(S, Ns(i), S.i_frame_queue[i])],
                       !.txdata_by_ns = [x \in SeqNo |->
                          IF Minus(x, S.vs) < n
                            THEN S.i_frame_queue[Minus(x, S.vs) + 1] ELSE @[x]],
                       !.i_frame_queue = SubSeq(@, n + 1, Len(@)),
                       !.vs = AX25MODULO(@ + n),
                       !.acknowledge_pending = FALSE]))

\* The members of a finite set of numbers, the smallest first.
Ascending(T) ==
  [i \in 1 .. Cardinality(T) |->
     CHOOSE x \in T : Cardinality({y \in T : y < x}) = i - 1]

\* Send again from nr up to V(S), around the ring if nr is V(S) itself; slots
\* without a frame are skipped.
invoke_retransmission(S, nr) ==
  LET Held  == {d \in 0 .. Minus(S.vs, nr + 1) :
                  S.txdata_by_ns[AX25MODULO(nr + d)] # None}
      Ns(i) == AX25MODULO(nr + Ascending(Held)[i])
  IN  IF S.txdata_by_ns[nr] = None THEN S
      ELSE [S EXCEPT !.out = @ \o [i \in 1 .. Cardinality(Held) |->
                                     IFrame(S, Ns(i), S.txdata_by_ns[Ns(i)])]]

check_i_frame_ackd(S, nr) ==
  CASE S.peer_receiver_busy ->
         LET A == StartT3(SetVA(S, nr))
         IN  IF A.t1 = "stopped" THEN StartT1(A) ELSE A
    [] ~S.peer_receiver_busy /\ nr = S.vs -> StartT3(StopT1(SetVA(S, nr)))
    [] ~S.peer_receiver_busy /\ nr # S.vs /\ nr # S.va -> StartT1(SetVA(S, nr))
    [] OTHER -> S

check_need_for_response(S, f) ==
  IF f.cr = "cmd" /\ f.pf THEN enquiry_response(S, TRUE) ELSE S

\* Everything is acknowledged: back to the connected state.
CaughtUp(S) == enter_new_state([StartT3(S) EXCEPT !.rc = 0], "connected")

Retransmit(S, nr) ==
  [StartT1(StopT3(invoke_retransmission(S, nr))) EXCEPT !.acknowledge_pending = FALSE]

\* The answer of a link without connection to a command.
DmResponse(S, f) == lm_data_request(S, UFrame("DM", "res", f))

-----------------------------------------------------------------------------
(* Received I frames.                                                        *)

\* How far the frames kept behind ns go on without a gap.
KeptBehind(S, ns) ==
  {j \in 1 .. Modulo - 1 :
     \A i \in 1 .. j : S.rxdata_by_ns[AX25MODULO(ns + i)] # None}

\* In sequence: deliver it and what was kept behind it, and see to the
\* acknowledgement.
AcceptInSequence(S, f) ==
  LET c == Cardinality(KeptBehind(S, f.ns))
      D == [S EXCEPT !.up = @ \o <<f.msg>>
                              \o [i \in 1 .. c |-> S.rxdata_by_ns[AX25MODULO(f.ns + i)]],
                     !.rxdata_by_ns = [x \in SeqNo |->
                        IF Minus(x, f.ns) <= c THEN None ELSE @[x]],
                     !.vr = AX25MODULO(f.ns + 1 + c)]
  IN  CASE f.pf -> enquiry_response(D, TRUE)
        [] ~f.pf /\ ~D.acknowledge_pending ->
             lm_seize_request([D EXCEPT !.acknowledge_pending = TRUE])
        [] OTHER -> D

\* Ask for the frames first .. last; the one that is V(R) acknowledges as well.
send_srej_frames(S, first, count) ==
  LET Nr(i) == AX25MODULO(first + i - 1)
  IN  [S EXCEPT !.out = @ \o [i \in 1 .. count |->
                               SFrame("SREJ", "res", Nr(i) = S.vr, Nr(i))],
                !.acknowledge_pending = @ /\ S.vr \notin {Nr(i) : i \in 1 .. count}]

\* Out of sequence but in the window: keep it, and ask for the gap before it.
KeepOutOfSequence(S, f) ==
  LET K    == [S EXCEPT !.rxdata_by_ns[f.ns] = f.msg]
      last == Minus(f.ns, 1)
      \* how far the gap that ends at last reaches back, V(R) at most
      back == {d \in 0 .. Minus(last, K.vr) :
                 \A i \in 1 .. d : K.rxdata_by_ns[Minus(last, i)] = None}
  IN  CASE f.pf -> enquiry_response(K, TRUE)
        [] ~f.pf /\ K.rxdata_by_ns[last] = None ->
             send_srej_frames(K, Minus(last, Cardinality(back) - 1), Cardinality(back))
        [] OTHER -> K

\* A faulty variant, for comparison: a poll is answered only with a new frame.
DuplicateUnanswered(S, f) ==
  CASE f.ns = S.vr -> AcceptInSequence(S, f)
    [] f.ns # S.vr /\ is_ns_in_window(S, f.ns) -> KeepOutOfSequence(S, f)
    [] OTHER -> S

i_frame_continued(S, f) ==
  CASE f.ns = S.vr -> AcceptInSequence(S, f)
    [] f.ns # S.vr /\ is_ns_in_window(S, f.ns) -> KeepOutOfSequence(S, f)
    [] OTHER -> IF f.pf THEN enquiry_response(S, TRUE) ELSE S

i_frame(S, f) ==
  CASE S.state = "disconnected" -> IF f.cr = "cmd" THEN DmResponse(S, f.pf) ELSE S
    [] S.state \in Up ->
         LET A == check_i_frame_ackd(S, f.nr)
         IN  IF ~is_good_nr(S, f.nr) THEN GiveUpNr(S)
             ELSE i_frame_continued(IF A.state = "timer_recovery" /\ A.va = A.vs
                                      THEN CaughtUp(StopT1(A)) ELSE A, f)
    [] OTHER -> S

-----------------------------------------------------------------------------
(* Received supervisory frames.                                              *)

\* Timer recovery: the answer to our enquiry, RR, RNR or REJ with F = 1.
EnquiryAnswered(S, nr) ==
  LET A == SetVA(StopT1(S), nr)
  IN  CASE ~is_good_nr(S, nr) -> GiveUpNr(StopT1(S))
        [] is_good_nr(S, nr) /\ A.vs = A.va -> CaughtUp(A)
        [] OTHER -> Retransmit(A, nr)

rr_rnr_frame(S, ready, f) ==
  LET B == [S EXCEPT !.peer_receiver_busy = ~ready]
      R == check_need_for_response(B, f)
      A == SetVA(R, f.nr)
  IN  CASE S.state = "disconnected" -> IF f.cr = "cmd" THEN DmResponse(S, f.pf) ELSE S
        [] S.state = "connected" ->
             IF is_good_nr(R, f.nr) THEN check_i_frame_ackd(R, f.nr) ELSE GiveUpNr(R)
        [] S.state = "timer_recovery" /\ f.cr = "res" /\ f.pf -> EnquiryAnswered(B, f.nr)
        [] S.state = "timer_recovery" /\ ~(f.cr = "res" /\ f.pf) ->
             CASE ~is_good_nr(R, f.nr) -> GiveUpNr(R)
               [] is_good_nr(R, f.nr) /\ f.cr = "res" /\ A.vs = A.va -> CaughtUp(StopT1(A))
               [] OTHER -> A
        [] OTHER -> S

rej_frame(S, f) ==
  LET B == [S EXCEPT !.peer_receiver_busy = FALSE]
      R == check_need_for_response(B, f)
      A == SetVA(R, f.nr)
  IN  CASE S.state = "disconnected" -> IF f.cr = "cmd" THEN DmResponse(S, f.pf) ELSE S
        [] S.state = "connected" ->
             IF is_good_nr(R, f.nr) THEN Retransmit(StopT1(A), f.nr) ELSE GiveUpNr(R)
        [] S.state = "timer_recovery" /\ f.cr = "res" /\ f.pf -> EnquiryAnswered(B, f.nr)
        [] S.state = "timer_recovery" /\ ~(f.cr = "res" /\ f.pf) ->
             CASE ~is_good_nr(R, f.nr) -> GiveUpNr(R)
               [] is_good_nr(R, f.nr) /\ A.vs # A.va -> Retransmit(A, f.nr)
               [] OTHER -> A
        [] OTHER -> S

\* The peer misses a frame, or several, the others listed in the information
\* field; only frames that are still kept are sent again.
resend_for_srej(S, f) ==
  LET Info  == IF f.msg = None THEN <<>> ELSE f.msg
      Asked == SelectSeq(<<f.nr>> \o Info, LAMBDA x : S.txdata_by_ns[x] # None)
  IN  IF Asked = <<>> THEN S
      ELSE [StartT1(StopT3([S EXCEPT !.out = @ \o
               [i \in 1 .. Len(Asked) |-> IFrame(S, Asked[i], S.txdata_by_ns[Asked[i]])]]))
              EXCEPT !.acknowledge_pending = FALSE]

srej_frame(S, f) ==
  LET B == StopT1([S EXCEPT !.peer_receiver_busy = FALSE])
      A == IF f.pf THEN SetVA(B, f.nr) ELSE B
  IN  CASE S.state = "connected" ->
             IF is_good_nr(S, f.nr) THEN resend_for_srej(StartT3(A), f)
             ELSE GiveUpNr([S EXCEPT !.peer_receiver_busy = FALSE])
        [] S.state = "timer_recovery" ->
             CASE ~is_good_nr(S, f.nr) -> GiveUpNr(B)
               [] is_good_nr(S, f.nr) /\ A.vs = A.va -> CaughtUp(A)
               [] OTHER -> resend_for_srej(A, f)
        [] OTHER -> S

-----------------------------------------------------------------------------
(* Received unnumbered frames.                                               *)

\* The link is (re)set at the peer's request, or its own SABM is accepted.
Connected(S) ==
  enter_new_state([ResetSeq(StartT3(S)) EXCEPT !.rc = 0], "connected")

Disconnected(S) == enter_new_state(discard_i_queue(StopT1(S)), "disconnected")

Answer(S, type, f) == lm_data_request(S, UFrame(type, "res", f.pf))

sabm_frame(S, f) ==
  LET C == clear_exception_conditions(Answer(S, "UA", f))
  IN  CASE S.state = "disconnected" -> Connected(C)
        [] S.state = "awaiting_connection" -> Answer(S, "UA", f)
        [] OTHER -> Connected(StopT1(IF C.vs # C.va THEN discard_i_queue(C) ELSE C))

disc_frame(S, f) ==
  IF S.state \in Up THEN StopT3(Disconnected(Answer(S, "UA", f)))
  ELSE Answer(S, "DM", f)

dm_frame(S, f) ==
  CASE S.state = "awaiting_connection" /\ f.pf -> Disconnected(S)
    [] S.state \in Up -> StopT3(Disconnected(S))
    [] OTHER -> S

\* The peer thinks it has just been asked to connect: set up anew.
SetUpAnew(S) == enter_new_state(establish_data_link(S), "awaiting_connection")

ua_frame(S, f) ==
  CASE S.state = "awaiting_connection" /\ f.pf -> Connected(StopT1(S))
    [] S.state \in Up -> SetUpAnew(S)
    [] OTHER -> S

frmr_frame(S) == IF S.state \in Up THEN SetUpAnew(S) ELSE S

ui_frame(S, f) ==
  CASE ~(f.cr = "cmd" /\ f.pf) -> S
    [] f.cr = "cmd" /\ f.pf /\ S.state \in Up -> enquiry_response(S, TRUE)
    [] OTHER -> Answer(S, "DM", f)

-----------------------------------------------------------------------------
(* The events the receive loop passes to a link.                             *)

Fresh(S) == [S EXCEPT !.out = <<>>, !.up = <<>>, !.seize = 0]

\* get_link_handle makes a link for a SABM to a registered callsign only.
get_link_handle(S, f) ==
  IF S.state = "none" /\ f.type = "SABM" THEN [S EXCEPT !.state = "disconnected"] ELSE S

Dispatch(S, f) ==
  CASE f.type = "I"    -> i_frame(S, f)
    [] f.type = "RR"   -> rr_rnr_frame(S, TRUE, f)
    [] f.type = "RNR"  -> rr_rnr_frame(S, FALSE, f)
    [] f.type = "REJ"  -> rej_frame(S, f)
    [] f.type = "SREJ" -> srej_frame(S, f)
    [] f.type = "SABM" -> sabm_frame(S, f)
    [] f.type = "DISC" -> disc_frame(S, f)
    [] f.type = "DM"   -> dm_frame(S, f)
    [] f.type = "UA"   -> ua_frame(S, f)
    [] f.type = "FRMR" -> frmr_frame(S)
    [] f.type = "UI"   -> ui_frame(S, f)

\* Whatever came in, ask for the channel if there are frames that may go out.
SeizeForQueue(S) ==
  IF /\ S.i_frame_queue # <<>>
     /\ S.state \in Up
     /\ ~S.peer_receiver_busy
     /\ WITHIN_WINDOW_SIZE(S)
    THEN lm_seize_request(S) ELSE S

lm_data_indication(S, f) ==
  LET L == get_link_handle(Fresh(S), f)
  IN  IF L.state = "none" THEN L ELSE SeizeForQueue(Dispatch(L, ax25_frame_type(f)))

lm_seize_confirm(S) ==
  LET P == i_frame_pop_off_queue(Fresh(S))
  IN  CASE S.state \notin Up -> Fresh(S)
        [] S.state \in Up /\ P.acknowledge_pending -> enquiry_response(P, FALSE)
        [] OTHER -> P

\* dcd_status | ptt_status, for a link that exists.
lm_channel_busy(S, busy) ==
  LET L == [Fresh(S) EXCEPT !.radio_channel_busy = busy]
  IN  CASE S.state = "none" \/ busy = S.radio_channel_busy -> Fresh(S)
        [] S.state # "none" /\ busy /\ ~S.radio_channel_busy -> PauseT1(L)
        [] OTHER -> ResumeT1(L)

\* A faulty variant, for comparison: the link stays in the connected state.
EnquireConnected(S) == transmit_enquiry([S EXCEPT !.rc = 1])

Enquire(S) == enter_new_state(transmit_enquiry([S EXCEPT !.rc = 1]), "timer_recovery")

\* The link is given up; T3 is left as it is, and so are the stashed frames.
GiveUp(S) == enter_new_state(discard_i_queue(S), "disconnected")

\* A faulty variant, for comparison: one retry too many.
RetriesExceeded(S) == S.rc > n2_retry

RetriesUsedUp(S) == S.rc = n2_retry

t1_expiry(S) ==
  LET More == [S EXCEPT !.rc = @ + 1]
  IN  CASE S.state = "awaiting_connection" /\ RetriesUsedUp(S) -> GiveUp(S)
        [] S.state = "awaiting_connection" /\ ~RetriesUsedUp(S) ->
             StartT1(lm_data_request(More, UFrame("SABM", "cmd", TRUE)))
        [] S.state = "connected" -> Enquire(S)
        [] S.state = "timer_recovery" /\ RetriesUsedUp(S) ->
             GiveUp(lm_data_request(S, UFrame("DM", "res", FALSE)))
        [] S.state = "timer_recovery" /\ ~RetriesUsedUp(S) -> transmit_enquiry(More)
        [] OTHER -> S

t3_expiry(S) == IF S.state = "connected" THEN Enquire(S) ELSE S

\* dl_timer_expiry: T1 first, then T3 if it is due as well.
ExpireT1(S) == t1_expiry([Fresh(S) EXCEPT !.t1 = "stopped"])
ExpireT3(S) == t3_expiry([Fresh(S) EXCEPT !.t3 = "stopped"])
=============================================================================
