------------------------- MODULE LinkDelivery_proof -------------------------
(***************************************************************************)
(* Proofs about LinkDelivery for every modulus, window of ours and of the    *)
(* peer, number of retries, messages, frames on the air and restarts.        *)
(*                                                                          *)
(* First, what each event does to the half of the link that sends: it keeps *)
(* V(A), V(S) and what is stashed between them (Steady), takes N(R) for the *)
(* new V(A) (Acknowledges), sends again (Resends), begins anew (Begins), or *)
(* sends what the window allows (Pops).  Then the invariant IInv, which     *)
(* relates these to the frames under way in both directions and to the      *)
(* peer, and a lemma for each action that it is kept.  Distances are taken  *)
(* from V(A) around the ring, so no case of the wrap is left.               *)
(*                                                                          *)
(* Then the half that receives, for a peer that waits for the answer to     *)
(* each of its frames (PeerWindow = 1; with more DeliveredInOrder is false): *)
(* JInv says that at most the last two of its messages are on the air and   *)
(* what reports of V(R) are on their way back.  MovingInv says what keeps   *)
(* a link moving that has something outstanding.  Last, RowInv: what the    *)
(* peer has not got is a row of successive messages, so that each step is   *)
(* one of LinkService, or a stutter.                                        *)
(***************************************************************************)
EXTENDS LinkDelivery, Ax25Link_proof

-----------------------------------------------------------------------------
(* What the events do to the half of the link that sends.                   *)

\* What we send besides I frames.
Replies == {f \in Frames : f.type \in {"RR", "SREJ", "DM"}}

\* A connection goes on: nothing is sent for the first time, and the peer stays
\* ready.
GoesOn(S, T) ==
  /\ T.vs = S.vs /\ T.i_frame_queue = S.i_frame_queue
  /\ S.state \in Up => T.state \in Up
  /\ S.state = "disconnected" => T.state = "disconnected"
  /\ ~S.peer_receiver_busy => ~T.peer_receiver_busy
  /\ ~S.radio_channel_busy => ~T.radio_channel_busy
  /\ S.up \in Seq(Msgs) => T.up \in Seq(Msgs)

\* Only replies are sent, and nothing is acknowledged.
Steady(S, T) ==
  /\ GoesOn(S, T)
  /\ T.va = S.va /\ T.txdata_by_ns = S.txdata_by_ns
  /\ S.out \in Seq(Replies) => T.out \in Seq(Replies)

\* V(A) goes on to nr, and the frames from there to V(S) are still kept.
Acknowledges(S, T, nr) ==
  /\ GoesOn(S, T)
  /\ T.va = nr
  /\ \A x \in SeqNo : Minus(x, nr) < Minus(S.vs, nr) => T.txdata_by_ns[x] = S.txdata_by_ns[x]
  /\ S.out \in Seq(Replies) => T.out \in Seq(Replies)

LEMMA SteadyStays ==
  ASSUME NEW S, NEW T, NEW U
  PROVE  /\ Steady(S, T) /\ Steady(T, U) => Steady(S, U)
         /\ \A nr : Steady(S, T) /\ Acknowledges(T, U, nr) => Acknowledges(S, U, nr)
         /\ \A nr : Acknowledges(S, T, nr) /\ Steady(T, U) => Acknowledges(S, U, nr)
<1>1. GoesOn(S, T) /\ GoesOn(T, U) => GoesOn(S, U)
  BY DEF GoesOn
<1> QED BY <1>1 DEF Steady, Acknowledges, GoesOn

LEMMA SteadyTimers ==
  ASSUME NEW S, Typed(S)
  PROVE  /\ Steady(S, StartT1(S)) /\ Steady(S, StopT1(S))
         /\ Steady(S, StartT3(S)) /\ Steady(S, StopT3(S))
         /\ Steady(S, lm_seize_request(S)) /\ Steady(S, SeizeForQueue(S))
         /\ S.state \in Up => Steady(S, CaughtUp(S))
<1>1. Steady(S, StartT1(S)) /\ Steady(S, StopT1(S))
  BY SMT DEF Steady, GoesOn, Typed, Fields, StartT1, StopT1
<1>2. Steady(S, StartT3(S)) /\ Steady(S, StopT3(S))
  BY SMT DEF Steady, GoesOn, Typed, Fields, StartT3, StopT3
<1>3. Steady(S, lm_seize_request(S))
  BY SMT DEF Steady, GoesOn, Typed, Fields, lm_seize_request
<1>4. Steady(S, SeizeForQueue(S))
  <2>1. Steady(S, S)
    BY DEF Steady, GoesOn
  <2> QED BY <1>3, <2>1 DEF SeizeForQueue
<1>5. S.state \in Up => Steady(S, CaughtUp(S))
  BY SMT DEF Steady, GoesOn, Typed, Fields, CaughtUp, StartT3, enter_new_state, Up
<1> QED BY <1>1, <1>2, <1>3, <1>4, <1>5

LEMMA SteadyReplies ==
  ASSUME NEW S, Typed(S), NEW pf \in BOOLEAN
  PROVE  /\ Steady(S, enquiry_response(S, pf))
         /\ Steady(S, transmit_enquiry(S))
         /\ S.state \in Up => Steady(S, Enquire(S))
<1>1. S.vr \in SeqNo /\ 0 \in SeqNo
  BY LinkAssumption, SMT DEF Typed, SeqNo
<1>2. /\ SFrame("RR", "res", pf, S.vr) \in Replies
      /\ SFrame("RR", "cmd", TRUE, S.vr) \in Replies
  BY <1>1, SMT DEF SFrame, Frame, Frames, FrameTypes, Replies
<1>3. \A f \in Replies : Steady(S, [lm_data_request(S, f) EXCEPT !.acknowledge_pending = FALSE])
  BY SMT DEF Steady, GoesOn, Typed, Fields, lm_data_request
<1>4. Steady(S, enquiry_response(S, pf))
  BY <1>2, <1>3 DEF enquiry_response
<1>5. Steady(S, transmit_enquiry(S))
  <2> DEFINE T == [lm_data_request(S, SFrame("RR", "cmd", TRUE, S.vr))
                     EXCEPT !.acknowledge_pending = FALSE]
  <2>1. Steady(S, T)
    BY <1>2, <1>3
  <2>2. T.t1 = S.t1 /\ DOMAIN T = Fields
    BY SMT DEF Typed, Fields, lm_data_request
  <2>3. Steady(T, StartT1(T))
    <3> HIDE DEF T
    <3> QED BY <2>2, SMT DEF Steady, GoesOn, Fields, StartT1
  <2> HIDE DEF T
  <2>4. Steady(S, StartT1(T))
    BY <2>1, <2>3, SteadyStays
  <2> QED BY <2>4 DEF transmit_enquiry, T
<1>6. ASSUME S.state \in Up PROVE Steady(S, Enquire(S))
  <2> DEFINE B == [S EXCEPT !.rc = 1]
             E == transmit_enquiry(B)
  <2>1. Typed(B) /\ B.vr = S.vr /\ Steady(S, B)
    BY LinkAssumption, SMT DEF Typed, Fields, Steady, GoesOn
  <2>2. DOMAIN E = Fields
    BY <2>1, SMT DEF transmit_enquiry, lm_data_request, StartT1, Typed, Fields
  <2>3. Steady(B, E)
    <3> DEFINE T == [lm_data_request(B, SFrame("RR", "cmd", TRUE, B.vr))
                       EXCEPT !.acknowledge_pending = FALSE]
    <3> HIDE DEF B
    <3>1. Steady(B, T)
      <4> DEFINE f == SFrame("RR", "cmd", TRUE, B.vr)
      <4>1. f \in Replies
        BY <1>2, <2>1
      <4> HIDE DEF f
      <4>2. Steady(B, [lm_data_request(B, f) EXCEPT !.acknowledge_pending = FALSE])
        BY <2>1, <4>1, SMT DEF Steady, GoesOn, Typed, Fields, lm_data_request
      <4> QED BY <4>2 DEF f
    <3>2. DOMAIN T = Fields
      BY <2>1, SMT DEF Typed, Fields, lm_data_request
    <3>3. Steady(T, StartT1(T))
      <4> HIDE DEF T
      <4> QED BY <3>2, SMT DEF Steady, GoesOn, Fields, StartT1
    <3> HIDE DEF T
    <3>4. Steady(B, StartT1(T))
      BY <3>1, <3>3, SteadyStays
    <3> QED BY <3>4 DEF transmit_enquiry, T
  <2>a. B.state \in Up
    BY <1>6, SMT DEF Typed, Fields
  <2>b. E.state \in Up
    BY <2>3, <2>a DEF Steady, GoesOn
  <2> HIDE DEF E
  <2>4. Steady(E, enter_new_state(E, "timer_recovery"))
    BY <2>2, <2>b, SMT DEF enter_new_state, Steady, GoesOn, Fields, Up
  <2> HIDE DEF B
  <2>5. Steady(S, enter_new_state(E, "timer_recovery"))
    BY <2>1, <2>3, <2>4, SteadyStays
  <2> QED BY <2>5 DEF Enquire, E, B
<1> QED BY <1>4, <1>5, <1>6

LEMMA SteadyVA ==
  ASSUME NEW S, NEW owed \in BOOLEAN, Good(S, owed), NEW nr \in SeqNo, is_good_nr(S, nr),
         S.state \in Up
  PROVE  Acknowledges(S, SetVA(S, nr), nr)
<1> DEFINE T == SetVA(S, nr)
<1>1. S.vs \in SeqNo /\ S.va \in SeqNo /\ Typed(S)
  BY DEF Good, Typed
<1>2. Minus(nr, S.va) <= Minus(S.vs, S.va)
  BY DEF is_good_nr
<1>3. ASSUME NEW x \in SeqNo, Minus(x, nr) < Minus(S.vs, nr)
      PROVE  T.txdata_by_ns[x] = S.txdata_by_ns[x]
  <2> DEFINE j == Minus(nr, S.va) + 1
  <2>1. Minus(nr, S.va) <= Minus(nr, x + 1) /\ Minus(nr, j) = Minus(S.va, 1)
    BY <1>1, <1>2, <1>3, Ring
  <2>2. Minus(nr, x + 1) \in Nat /\ Minus(nr, S.va) \in Nat
    <3>1. x + 1 \in 0 .. Modulo /\ S.va \in 0 .. Modulo
      BY <1>1, LinkAssumption, SMT DEF SeqNo
    <3>2. Minus(nr, x + 1) \in SeqNo /\ Minus(nr, S.va) \in SeqNo
      BY <3>1, MinusType
    <3> QED BY <3>2, LinkAssumption, SMT DEF SeqNo
  <2>3. j \in 1 .. Minus(nr, x + 1) + 1
    BY <2>1, <2>2, SMT
  <2>4. S.txdata_by_ns[Minus(nr, j)] = None
    BY <2>1 DEF Good
  <2> HIDE DEF j
  <2> QED BY <1>1, <2>3, <2>4, SMT DEF SetVA, Typed, Fields
<1>4. /\ T.vs = S.vs /\ T.i_frame_queue = S.i_frame_queue /\ T.state = S.state
      /\ T.peer_receiver_busy = S.peer_receiver_busy
      /\ T.radio_channel_busy = S.radio_channel_busy
      /\ T.up = S.up /\ T.out = S.out /\ T.va = nr
  BY <1>1, SMT DEF SetVA, Typed, Fields
<1> HIDE DEF T
<1> QED BY <1>3, <1>4 DEF Acknowledges, GoesOn, T

LEMMA SteadyAckd ==
  ASSUME NEW S, NEW owed \in BOOLEAN, Good(S, owed), NEW nr \in SeqNo, is_good_nr(S, nr),
         S.state \in Up, ~S.peer_receiver_busy
  PROVE  Acknowledges(S, check_i_frame_ackd(S, nr), nr)
<1> DEFINE T == SetVA(S, nr)
<1>1. Acknowledges(S, T, nr) /\ Typed(T) /\ Typed(StopT1(T))
  <2>1. Good(T, owed)
    BY VA
  <2> HIDE DEF T
  <2>2. Good(StopT1(T), owed)
    BY <2>1, Timers
  <2> QED BY <2>1, <2>2, SteadyVA DEF Good, T
<1> HIDE DEF T
<1>2. Acknowledges(S, StartT3(StopT1(T)), nr)
  <2>1. Steady(T, StopT1(T))
    BY <1>1, SteadyTimers
  <2> DEFINE U == StopT1(T)
  <2>2. Typed(U) 
    BY <1>1
  <2> HIDE DEF U
  <2>3. Steady(U, StartT3(U))
    BY <2>2, SteadyTimers
  <2>4. Acknowledges(S, U, nr)
    BY <1>1, <2>1, SteadyStays DEF U
  <2>5. Acknowledges(S, StartT3(U), nr)
    BY <2>3, <2>4, SteadyStays
  <2> QED BY <2>5 DEF U
<1>3. Acknowledges(S, StartT1(T), nr)
  BY <1>1, SteadyTimers, SteadyStays
<1>4. S.va = nr => Acknowledges(S, S, nr)
  BY DEF Acknowledges, GoesOn
<1> QED BY <1>2, <1>3, <1>4, Zenon DEF check_i_frame_ackd, T

LEMMA SteadyAccept ==
  ASSUME NEW S, NEW owed \in BOOLEAN, Good(S, owed), S.state \in Up,
         NEW f, f.ns \in SeqNo, f.msg \in Msgs
  PROVE  Steady(S, AcceptInSequence(S, f))
<1> DEFINE c == Cardinality(KeptBehind(S, f.ns))
           kept == [i \in 1 .. c |-> S.rxdata_by_ns[AX25MODULO(f.ns + i)]]
           up == S.up \o <<f.msg>> \o kept
           rx == [x \in SeqNo |-> IF Minus(x, f.ns) <= c THEN None ELSE S.rxdata_by_ns[x]]
           vr == AX25MODULO(f.ns + 1 + c)
           D == [S EXCEPT !.up = up, !.rxdata_by_ns = rx, !.vr = vr]
           Q == [D EXCEPT !.acknowledge_pending = TRUE]
<1>1. c \in Nat /\ c <= Modulo - 1 /\ \A i \in 1 .. c : S.rxdata_by_ns[AX25MODULO(f.ns + i)] # None
  BY Behind, LinkAssumption, SMT
<1> HIDE DEF c
<1>2. ASSUME S.up \in Seq(Msgs) PROVE up \in Seq(Msgs)
  <2>1. \A i \in 1 .. c : AX25MODULO(f.ns + i) \in SeqNo
    <3> TAKE i \in 1 .. c
    <3>1. f.ns + i \in Nat /\ f.ns + i < 2 * Modulo
      BY <1>1, LinkAssumption, SMT DEF SeqNo
    <3> QED BY <3>1, Wrap, LinkAssumption, SMT DEF SeqNo
  <2>2. \A i \in 1 .. c : S.rxdata_by_ns[AX25MODULO(f.ns + i)] \in Msgs
    BY <1>1, <2>1, SMT DEF Good, Typed, Slots
  <2>3. kept \in Seq(Msgs)
    BY <1>1, <2>2, SMT
  <2> HIDE DEF kept
  <2> QED BY <1>2, <2>3, SMT
<1> HIDE DEF kept, rx, vr, up
<1>3. Steady(S, D)
  <2>1. Typed(S)
    BY DEF Good
  <2> QED BY <1>2, <2>1, SMT DEF Steady, GoesOn, Typed, Fields
<1>4. Typed(D)
  <2>1. rx \in Slots
    BY SMT DEF Good, Typed, Slots, rx
  <2>2. vr \in SeqNo
    <3>1. f.ns + 1 + c \in Nat /\ f.ns + 1 + c < 2 * Modulo
      BY <1>1, LinkAssumption, SMT DEF SeqNo
    <3> QED BY <3>1, Wrap, LinkAssumption, SMT DEF SeqNo, vr
  <2> QED BY <2>1, <2>2, SMT DEF Good, Typed, Fields
<1>5. AcceptInSequence(S, f) \in {enquiry_response(D, TRUE), lm_seize_request(Q), D}
  <2>1. AcceptInSequence(S, f) = CASE f.pf -> enquiry_response(D, TRUE)
          [] ~f.pf /\ ~D.acknowledge_pending -> lm_seize_request(Q)
          [] OTHER -> D
    BY DEF AcceptInSequence, D, c, up, rx, vr, kept
  <2> QED BY <2>1
<1> HIDE DEF D
<1>6. Steady(D, Q) /\ Typed(Q)
  BY <1>4, SMT DEF Steady, GoesOn, Typed, Fields
<1> HIDE DEF Q
<1>7. Steady(S, enquiry_response(D, TRUE))
  BY <1>3, <1>4, SteadyReplies, SteadyStays
<1>8. Steady(S, lm_seize_request(Q))
  BY <1>3, <1>6, SteadyTimers, SteadyStays
<1> QED BY <1>3, <1>5, <1>7, <1>8

LEMMA SteadyKeep ==
  ASSUME NEW S, NEW owed \in BOOLEAN, Good(S, owed), S.state \in Up,
         NEW f, f.ns \in SeqNo, f.msg \in Msgs
  PROVE  Steady(S, KeepOutOfSequence(S, f))
<1> DEFINE K == [S EXCEPT !.rxdata_by_ns[f.ns] = f.msg]
           last == Minus(f.ns, 1)
           back == {d \in 0 .. Minus(last, K.vr) :
                      \A i \in 1 .. d : K.rxdata_by_ns[Minus(last, i)] = None}
           count == Cardinality(back)
           first == Minus(last, count - 1)
           Nr(i) == AX25MODULO(first + i - 1)
           srejs == [i \in 1 .. count |-> SFrame("SREJ", "res", Nr(i) = K.vr, Nr(i))]
           T == [K EXCEPT !.out = @ \o srejs,
                          !.acknowledge_pending = @ /\ K.vr \notin {Nr(i) : i \in 1 .. count}]
<1>1. Steady(S, K) /\ Typed(K) /\ K.vr = S.vr
  BY SMT DEF Good, Steady, GoesOn, Typed, Fields, Slots
<1>2. K.vr \in SeqNo /\ last \in SeqNo /\ Minus(last, K.vr) \in SeqNo
  <2>1. K.vr \in 0 .. Modulo /\ 1 \in 0 .. Modulo
    BY <1>1, LinkAssumption, SMT DEF Typed, SeqNo
  <2> QED BY <1>1, <2>1, MinusType DEF Typed
<1> HIDE DEF K, last
<1>3. count \in Nat /\ count - 1 \in 0 .. Modulo
  <2> DEFINE all == 0 .. Minus(last, K.vr)
  <2>1. IsFiniteSet(all) /\ Cardinality(all) = Minus(last, K.vr) + 1
    <3>1. Minus(last, K.vr) \in Nat
      BY <1>2, LinkAssumption, SMT DEF SeqNo
    <3>2. IsFiniteSet(all) /\ Cardinality(all) = IF 0 > Minus(last, K.vr) THEN 0 ELSE Minus(last, K.vr) - 0 + 1
      BY <3>1, FS_Interval, SMT
    <3> QED BY <3>1, <3>2, SMT
  <2>2. back \subseteq all /\ 0 \in back
    BY <1>2, LinkAssumption, SMT DEF SeqNo
  <2> HIDE DEF back
  <2>3. IsFiniteSet(back) /\ count <= Cardinality(all)
    BY <2>1, <2>2, FS_Subset
  <2>4. count \in Nat /\ count # 0
    BY <2>2, <2>3, FS_CardinalityType, FS_EmptySet
  <2> HIDE DEF count, all
  <2> QED BY <1>2, <2>1, <2>3, <2>4, LinkAssumption, SMT DEF SeqNo
<1>4. first \in SeqNo
  BY <1>2, <1>3, MinusType
<1> HIDE DEF first, count
<1>5. \A i \in 1 .. count : Nr(i) \in SeqNo
  <2> TAKE i \in 1 .. count
  <2>1. first + i - 1 \in Nat
    BY <1>3, <1>4, LinkAssumption, SMT DEF SeqNo
  <2> DEFINE n == first + i - 1
  <2> HIDE DEF n
  <2>2. n % Modulo \in SeqNo
    BY <2>1, LinkAssumption, SMT DEF SeqNo, n
  <2> QED BY <2>2 DEF AX25MODULO, n
<1> HIDE DEF Nr
<1>6. \A nr \in SeqNo : \A pf \in BOOLEAN : SFrame("SREJ", "res", pf, nr) \in Replies
  <2>1. 0 \in SeqNo
    BY LinkAssumption, SMT DEF SeqNo
  <2> QED BY <2>1, SMT DEF SFrame, Frame, Frames, FrameTypes, Replies
<1>7. srejs \in Seq(Replies)
  <2>1. \A i \in 1 .. count : SFrame("SREJ", "res", Nr(i) = K.vr, Nr(i)) \in Replies
    BY <1>5, <1>6
  <2> QED BY <1>3, <2>1, SMT
<1> HIDE DEF srejs
<1>8. Steady(K, T)
  <2> DEFINE ack == K.acknowledge_pending /\ K.vr \notin {Nr(i) : i \in 1 .. count}
  <2>1. T = [K EXCEPT !.out = K.out \o srejs, !.acknowledge_pending = ack]
    BY <1>1 DEF Typed, Fields
  <2> HIDE DEF ack, T
  <2> QED BY <1>1, <1>7, <2>1, SMT DEF Steady, GoesOn, Typed, Fields
<1>9. send_srej_frames(K, first, count) = T
  BY DEF send_srej_frames, srejs, Nr
<1> HIDE DEF T
<1>10. Steady(S, T)
  BY <1>1, <1>8, SteadyStays
<1>11. Steady(S, enquiry_response(K, TRUE))
  BY <1>1, SteadyReplies, SteadyStays
<1>12. KeepOutOfSequence(S, f) \in {enquiry_response(K, TRUE), send_srej_frames(K, first, count), K}
  BY DEF KeepOutOfSequence, K, first, count, last
<1> QED BY <1>1, <1>9, <1>10, <1>11, <1>12

LEMMA SteadyReceived ==
  ASSUME NEW S, NEW owed \in BOOLEAN, Good(S, owed), S.state \in Up,
         NEW f, f.ns \in SeqNo, f.msg \in Msgs
  PROVE  Steady(S, i_frame_continued(S, f))
<1>1. Steady(S, S)
  BY DEF Steady, GoesOn
<1>2. Typed(S)
  BY DEF Good
<1> QED BY <1>1, <1>2, SteadyAccept, SteadyKeep, SteadyReplies DEF i_frame_continued

\* The peer is ready, as it was.
LEMMA SteadyReady ==
  ASSUME NEW S, NEW owed \in BOOLEAN, Good(S, owed)
  PROVE  LET B == [S EXCEPT !.peer_receiver_busy = FALSE]
         IN  /\ Steady(S, B) /\ Good(B, owed) /\ B.state = S.state /\ B.vs = S.vs /\ B.va = S.va
             /\ ~B.peer_receiver_busy /\ B.txdata_by_ns = S.txdata_by_ns /\ B.out = S.out
             /\ B.vr = S.vr
<1> DEFINE B == [S EXCEPT !.peer_receiver_busy = FALSE]
<1>1. Good(B, owed) /\ B.state = S.state /\ B.vs = S.vs /\ B.va = S.va
  BY PeerReady
<1>2. /\ Steady(S, B) /\ ~B.peer_receiver_busy /\ B.txdata_by_ns = S.txdata_by_ns
      /\ B.out = S.out /\ B.vr = S.vr
  BY SMT DEF Steady, GoesOn, Good, Typed, Fields
<1> QED BY <1>1, <1>2

\* An I frame acknowledges, ...
LEMMA AcksI ==
  ASSUME NEW S, NEW owed \in BOOLEAN, Good(S, owed), S.state \in Up, ~S.peer_receiver_busy,
         NEW f, f.nr \in SeqNo, f.ns \in SeqNo, f.msg \in Msgs, is_good_nr(S, f.nr)
  PROVE  Acknowledges(S, i_frame(S, f), f.nr)
<1> DEFINE A == check_i_frame_ackd(S, f.nr)
           T == StopT1(A)
           C == CaughtUp(T)
<1>1. Good(A, owed) /\ A.state \in Up /\ Acknowledges(S, A, f.nr) /\ Typed(A)
  <2>1. Good(A, owed) /\ A.state = S.state
    BY Acknowledged
  <2> QED BY <2>1, SteadyAckd DEF Good
<1>2. i_frame(S, f) \in {i_frame_continued(C, f), i_frame_continued(A, f)}
  BY DEF i_frame, Up
<1> HIDE DEF A
<1>3. Good(T, owed) /\ T.state \in Up /\ Steady(A, T) /\ Typed(T)
  <2>1. Good(T, owed) /\ T.state = A.state
    BY <1>1, Timers, TimersState
  <2> QED BY <1>1, <2>1, SteadyTimers DEF Good
<1> HIDE DEF T
<1>4. Good(C, owed) /\ C.state \in Up /\ Steady(T, C)
  BY <1>3, BackToConnected, SteadyTimers DEF Up
<1> HIDE DEF C
<1>5. Acknowledges(S, i_frame_continued(A, f), f.nr)
  BY <1>1, SteadyReceived, SteadyStays
<1>6. Acknowledges(S, i_frame_continued(C, f), f.nr)
  <2>1. Steady(C, i_frame_continued(C, f))
    BY <1>4, SteadyReceived
  <2>2. Acknowledges(S, C, f.nr)
    BY <1>1, <1>3, <1>4, SteadyStays
  <2> QED BY <2>1, <2>2, SteadyStays
<1> QED BY <1>2, <1>5, <1>6

\* ... and so does RR.
LEMMA AcksRR ==
  ASSUME NEW S, NEW owed \in BOOLEAN, Good(S, owed), S.state \in Up, ~S.peer_receiver_busy,
         NEW f, f.nr \in SeqNo, f.cr = "11", is_good_nr(S, f.nr)
  PROVE  Acknowledges(S, rr_rnr_frame(S, TRUE, f), f.nr)
<1> DEFINE B == [S EXCEPT !.peer_receiver_busy = FALSE]
<1>1. /\ Steady(S, B) /\ Good(B, owed) /\ B.state = S.state /\ B.vs = S.vs /\ B.va = S.va
      /\ ~B.peer_receiver_busy
  BY SteadyReady
<1>2. is_good_nr(B, f.nr)
  BY <1>1 DEF is_good_nr
<1>3. rr_rnr_frame(S, TRUE, f) \in {check_i_frame_ackd(B, f.nr), SetVA(B, f.nr)}
  <2>1. check_need_for_response(B, f) = B
    BY DEF check_need_for_response
  <2> DEFINE Rp == check_need_for_response(B, f)
  <2>2. rr_rnr_frame(S, TRUE, f) =
          CASE S.state = "disconnected" -> IF f.cr = "cmd" THEN DmResponse(S, f.pf) ELSE S
            [] S.state = "connected" ->
                 IF is_good_nr(Rp, f.nr) THEN check_i_frame_ackd(Rp, f.nr) ELSE GiveUpNr(Rp)
            [] S.state = "timer_recovery" /\ f.cr = "res" /\ f.pf -> EnquiryAnswered(B, f.nr)
            [] S.state = "timer_recovery" /\ ~(f.cr = "res" /\ f.pf) ->
                 CASE ~is_good_nr(Rp, f.nr) -> GiveUpNr(Rp)
                   [] is_good_nr(Rp, f.nr) /\ f.cr = "res" /\ SetVA(Rp, f.nr).vs = SetVA(Rp, f.nr).va ->
                         CaughtUp(StopT1(SetVA(Rp, f.nr)))
                   [] OTHER -> SetVA(Rp, f.nr)
            [] OTHER -> S
    BY DEF rr_rnr_frame
  <2> HIDE DEF Rp, B
  <2> QED BY <1>2, <2>1, <2>2, Zenon DEF Up, Rp
<1> HIDE DEF B
<1>4. Acknowledges(B, SetVA(B, f.nr), f.nr) /\ Acknowledges(B, check_i_frame_ackd(B, f.nr), f.nr)
  BY <1>1, <1>2, SteadyVA, SteadyAckd
<1>5. /\ Acknowledges(S, SetVA(B, f.nr), f.nr)
      /\ Acknowledges(S, check_i_frame_ackd(B, f.nr), f.nr)
  BY <1>1, <1>4, SteadyStays
<1> QED BY <1>3, <1>5

\* n numbers on from a, around the ring.
LEMMA Onward ==
  ASSUME NEW a \in SeqNo, NEW n \in 0 .. Modulo - 1
  PROVE  AX25MODULO(a + n) \in SeqNo /\ Minus(AX25MODULO(a + n), a) = n
<1> DEFINE x == AX25MODULO(a + n)
<1>1. a + n \in Nat /\ a + n < 2 * Modulo /\ a \in 0 .. Modulo
  BY LinkAssumption, SMT DEF SeqNo
<1>2. x = IF a + n < Modulo THEN a + n ELSE (a + n) - Modulo
  BY <1>1, Wrap
<1> HIDE DEF x
<1>3. x \in SeqNo
  BY <1>1, <1>2, LinkAssumption, SMT DEF SeqNo
<1>4. Minus(x, a) = IF a <= x THEN x - a ELSE x + Modulo - a
  BY <1>1, <1>3, MinusValue
<1>5. Minus(x, a) = n
  BY <1>1, <1>2, <1>3, <1>4, LinkAssumption, SMT DEF SeqNo
<1> QED BY <1>3, <1>5 DEF x

LEMMA Counting ==
  ASSUME NEW m \in Nat
  PROVE  /\ Cardinality(0 .. m - 1) = m /\ IsFiniteSet(0 .. m - 1)
         /\ \A i \in 1 .. m : Ascending(0 .. m - 1)[i] = i - 1
<1>1. \A n \in Nat : IsFiniteSet(0 .. n - 1) /\ Cardinality(0 .. n - 1) = n
  <2> TAKE n \in Nat
  <2>1. 0 \in Int /\ n - 1 \in Int
    BY SMT
  <2>2. IsFiniteSet(0 .. n - 1) /\ Cardinality(0 .. n - 1) = IF 0 > n - 1 THEN 0 ELSE n - 1 - 0 + 1
    BY <2>1, FS_Interval
  <2> QED BY <2>2, SMT
<1>2. ASSUME NEW i \in 1 .. m PROVE Ascending(0 .. m - 1)[i] = i - 1
  <2> DEFINE T == 0 .. m - 1
             Below(x) == Cardinality({y \in T : y < x})
  <2>1. \A x \in T : Below(x) = x
    <3> TAKE x \in T
    <3>1. {y \in T : y < x} = 0 .. x - 1 /\ x \in Nat
      BY SMT
    <3> QED BY <1>1, <3>1
  <2>2. Ascending(T)[i] = CHOOSE x \in T : Below(x) = i - 1
    BY <1>1 DEF Ascending
  <2>3. i - 1 \in T
    BY SMT
  <2> HIDE DEF T, Below
  <2>4. \E x \in T : Below(x) = i - 1
    BY <2>1, <2>3
  <2>5. Ascending(T)[i] \in T /\ Below(Ascending(T)[i]) = i - 1
    BY <2>2, <2>4
  <2> QED BY <2>1, <2>5 DEF T
<1> QED BY <1>1, <1>2

\* REJ has the frames from N(R) to V(S) sent again, each under its number.
Resends(S, T, nr) ==
  /\ GoesOn(S, T)
  /\ T.va = nr
  /\ \A x \in SeqNo : Minus(x, nr) < Minus(S.vs, nr) => T.txdata_by_ns[x] = S.txdata_by_ns[x]
  /\ S.out = <<>> =>
       T.out = [i \in 1 .. Minus(S.vs, nr) |->
                  IFrame(S, AX25MODULO(nr + (i - 1)), S.txdata_by_ns[AX25MODULO(nr + (i - 1))])]

LEMMA Retransmitted ==
  ASSUME NEW A, NEW owed \in BOOLEAN, Good(A, owed), A.state \in Up,
         A.va # A.vs
  PROVE  LET nr == A.va
         IN  Retransmit(A, nr).out = A.out \o [i \in 1 .. Minus(A.vs, nr) |->
               IFrame(A, AX25MODULO(nr + (i - 1)), A.txdata_by_ns[AX25MODULO(nr + (i - 1))])]
<1> DEFINE nr == A.va
           m == Minus(A.vs, nr)
           Held == {d \in 0 .. Minus(A.vs, nr + 1) : A.txdata_by_ns[AX25MODULO(nr + d)] # None}
           Ns(i) == AX25MODULO(nr + Ascending(Held)[i])
           sent == [i \in 1 .. Cardinality(Held) |-> IFrame(A, Ns(i), A.txdata_by_ns[Ns(i)])]
           T == [A EXCEPT !.out = @ \o sent]
<1>1. A.vs \in SeqNo /\ nr \in SeqNo /\ Typed(A) /\ Windowed(A)
  BY DEF Good, Typed
<1>2. m \in 1 .. Modulo - 1 /\ Minus(A.vs, nr + 1) = m - 1
  <2>1. nr + 1 \in 0 .. Modulo /\ nr \in 0 .. Modulo
    BY <1>1, LinkAssumption, SMT DEF SeqNo
  <2>2. /\ m = IF nr <= A.vs THEN A.vs - nr ELSE A.vs + Modulo - nr
        /\ Minus(A.vs, nr + 1) = IF nr + 1 <= A.vs THEN A.vs - (nr + 1) ELSE A.vs + Modulo - (nr + 1)
    BY <1>1, <2>1, MinusValue
  <2> HIDE DEF nr, m
  <2> QED BY <1>1, <2>2, LinkAssumption, SMT DEF SeqNo, nr
<1>3. ASSUME NEW d \in 0 .. m - 1
      PROVE  A.txdata_by_ns[AX25MODULO(nr + d)] # None
  <2> DEFINE x == AX25MODULO(nr + d)
  <2>1. d < m /\ d \in 0 .. Modulo - 1
    <3> HIDE DEF m
    <3> QED BY <1>2, LinkAssumption, SMT
  <2>2. x \in SeqNo /\ Minus(x, nr) = d
    BY <1>1, <2>1, Onward
  <2> HIDE DEF x
  <2>3. A.txdata_by_ns[x] # None
    BY <1>1, <2>1, <2>2 DEF Windowed
  <2> QED BY <2>3 DEF x
<1>4. Held = 0 .. m - 1 /\ m \in Nat
  <2> HIDE DEF m, nr
  <2> QED BY <1>2, <1>3, LinkAssumption, SMT
<1> HIDE DEF m
<1>5. /\ Cardinality(Held) = m
      /\ \A i \in 1 .. m : Ascending(Held)[i] = i - 1
  BY <1>4, Counting
<1> HIDE DEF Held
<1>6. sent = [i \in 1 .. m |-> IFrame(A, AX25MODULO(nr + (i - 1)), A.txdata_by_ns[AX25MODULO(nr + (i - 1))])]
  BY <1>5
<1>7. invoke_retransmission(A, nr) = T
  <2>1. A.txdata_by_ns[AX25MODULO(nr + 0)] # None
    <3>1. 0 \in 0 .. m - 1
      BY <1>2, SMT
    <3> QED BY <1>3, <3>1
  <2>2. AX25MODULO(nr + 0) = nr
    <3>1. nr + 0 = nr /\ nr \in Nat /\ nr < Modulo /\ nr < 2 * Modulo
      <4> HIDE DEF nr
      <4> QED BY <1>1, LinkAssumption, SMT DEF SeqNo
    <3> QED BY <3>1, Wrap
  <2> QED BY <2>1, <2>2 DEF invoke_retransmission, Held
<1> HIDE DEF sent
<1>8. Retransmit(A, nr).out = A.out \o sent
  <2>1. DOMAIN T = Fields /\ T.out = A.out \o sent
    BY <1>1, SMT DEF Typed, Fields
  <2> HIDE DEF T
  <2>2. [StartT1(StopT3(T)) EXCEPT !.acknowledge_pending = FALSE].out = T.out
    BY <2>1, SMT DEF StartT1, StopT3, Fields
  <2> QED BY <1>7, <2>1, <2>2 DEF Retransmit
<1> QED BY <1>6, <1>8 DEF m

LEMMA RetransmitKeeps ==
  ASSUME NEW A, NEW owed \in BOOLEAN, Good(A, owed), NEW nr
  PROVE  LET T == Retransmit(A, nr)
         IN  GoesOn(A, T) /\ T.va = A.va /\ T.txdata_by_ns = A.txdata_by_ns
<1> DEFINE Rp == invoke_retransmission(A, nr)
           Held == {d \in 0 .. Minus(A.vs, nr + 1) : A.txdata_by_ns[AX25MODULO(nr + d)] # None}
           Ns(i) == AX25MODULO(nr + Ascending(Held)[i])
           out == A.out \o [i \in 1 .. Cardinality(Held) |->
                               IFrame(A, Ns(i), A.txdata_by_ns[Ns(i)])]
<1>1. Rp = A \/ Rp = [A EXCEPT !.out = out]
  BY DEF invoke_retransmission
<1> HIDE DEF Rp, out
<1>2. DOMAIN Rp = Fields /\ GoesOn(A, Rp) /\ Rp.va = A.va /\ Rp.txdata_by_ns = A.txdata_by_ns
  <2>1. Typed(A)
    BY DEF Good
  <2> QED BY <1>1, <2>1, SMT DEF GoesOn, Typed, Fields
<1>3. LET T == [StartT1(StopT3(Rp)) EXCEPT !.acknowledge_pending = FALSE]
      IN  GoesOn(Rp, T) /\ T.va = Rp.va /\ T.txdata_by_ns = Rp.txdata_by_ns
  BY <1>2, SMT DEF GoesOn, Fields, StartT1, StopT3
<1> QED BY <1>2, <1>3 DEF Retransmit, Rp, GoesOn

LEMMA ResendsREJ ==
  ASSUME NEW S, NEW owed \in BOOLEAN, Good(S, owed), S.state \in Up, ~S.peer_receiver_busy,
         NEW f, f.nr \in SeqNo, f.cr = "11", is_good_nr(S, f.nr), f.nr # S.vs
  PROVE  Resends(S, rej_frame(S, f), f.nr)
<1> DEFINE B == [S EXCEPT !.peer_receiver_busy = FALSE]
           V == SetVA(B, f.nr)
           W == StopT1(V)
<1>1. /\ Steady(S, B) /\ Good(B, owed) /\ B.state = S.state /\ B.vs = S.vs /\ B.va = S.va
      /\ ~B.peer_receiver_busy /\ B.txdata_by_ns = S.txdata_by_ns /\ B.out = S.out
      /\ B.vr = S.vr
  BY SteadyReady
<1>2. is_good_nr(B, f.nr)
  BY <1>1 DEF is_good_nr
<1>3. check_need_for_response(B, f) = B
  BY DEF check_need_for_response
<1> HIDE DEF B
<1>4. /\ Good(V, owed) /\ V.state \in Up /\ Acknowledges(B, V, f.nr) /\ V.va = f.nr
      /\ V.vs = S.vs /\ V.vr = S.vr /\ V.out = S.out
  <2>1. Good(V, owed)
    BY <1>1, <1>2, VA
  <2>2. V.va = f.nr /\ V.vs = B.vs /\ V.vr = B.vr /\ V.state = B.state
    BY <1>1, VABase DEF Good
  <2>3. V.out = B.out
    BY <1>1, SMT DEF SetVA, Good, Typed, Fields
  <2> QED BY <1>1, <1>2, <2>1, <2>2, <2>3, SteadyVA
<1>5. rej_frame(S, f) \in {Retransmit(W, f.nr), Retransmit(V, f.nr)}
  <2> DEFINE Rp == check_need_for_response(B, f)
             A == SetVA(Rp, f.nr)
  <2>1. rej_frame(S, f) =
          CASE S.state = "disconnected" -> IF f.cr = "cmd" THEN DmResponse(S, f.pf) ELSE S
            [] S.state = "connected" ->
                 IF is_good_nr(Rp, f.nr) THEN Retransmit(StopT1(A), f.nr) ELSE GiveUpNr(Rp)
            [] S.state = "timer_recovery" /\ f.cr = "res" /\ f.pf -> EnquiryAnswered(B, f.nr)
            [] S.state = "timer_recovery" /\ ~(f.cr = "res" /\ f.pf) ->
                 CASE ~is_good_nr(Rp, f.nr) -> GiveUpNr(Rp)
                   [] is_good_nr(Rp, f.nr) /\ A.vs # A.va -> Retransmit(A, f.nr)
                   [] OTHER -> A
            [] OTHER -> S
    BY DEF rej_frame, B
  <2>2. Rp = B /\ A = V
    BY <1>3
  <2> HIDE DEF Rp, A, V
  <2> QED BY <1>2, <1>4, <2>1, <2>2, Zenon DEF Up
<1> HIDE DEF V
<1>6. /\ Good(W, owed) /\ W.state \in Up /\ W.va = f.nr /\ Acknowledges(B, W, f.nr)
      /\ W.vs = S.vs /\ W.vr = S.vr /\ W.out = S.out
  <2>1. Good(W, owed) /\ W.state = V.state /\ W.vs = V.vs /\ W.va = V.va
    BY <1>4, StoppedT1
  <2>2. W.vr = V.vr /\ W.out = V.out
    BY <1>4, SMT DEF StopT1, Good, Typed, Fields
  <2>3. Steady(V, W)
    BY <1>4, SteadyTimers DEF Good
  <2> QED BY <1>4, <2>1, <2>2, <2>3, SteadyStays
<1> HIDE DEF W
<1>7. ASSUME NEW A, Good(A, owed), A.state \in Up, A.va = f.nr, Acknowledges(B, A, f.nr),
             A.vs = S.vs, A.vr = S.vr, A.out = S.out
      PROVE  Resends(S, Retransmit(A, f.nr), f.nr)
  <2> DEFINE T == Retransmit(A, f.nr)
             nr == f.nr
             Ns(i) == AX25MODULO(nr + (i - 1))
             again == [i \in 1 .. Minus(S.vs, nr) |-> IFrame(A, Ns(i), A.txdata_by_ns[Ns(i)])]
             sent == [i \in 1 .. Minus(S.vs, nr) |-> IFrame(S, Ns(i), S.txdata_by_ns[Ns(i)])]
  <2>1. T.out = A.out \o again
    BY <1>7, Retransmitted
  <2>2. GoesOn(A, T) /\ T.va = nr /\ T.txdata_by_ns = A.txdata_by_ns
    BY <1>7, RetransmitKeeps
  <2>3. \A x \in SeqNo : Minus(x, nr) < Minus(S.vs, nr) => A.txdata_by_ns[x] = S.txdata_by_ns[x]
    BY <1>1, <1>7 DEF Acknowledges
  <2>4. S.vs \in SeqNo
    BY DEF Good, Typed
  <2>5. Minus(S.vs, nr) \in 0 .. Modulo - 1
    BY <2>4, Distance
  <2>6. \A i \in 1 .. Minus(S.vs, nr) : Ns(i) \in SeqNo /\ Minus(Ns(i), nr) = i - 1
    <3> TAKE i \in 1 .. Minus(S.vs, nr)
    <3>1. i - 1 \in 0 .. Modulo - 1
      BY <2>5, LinkAssumption, SMT
    <3> QED BY <3>1, Onward
  <2>7. again = sent
    <3>1. \A i \in 1 .. Minus(S.vs, nr) : IFrame(A, Ns(i), A.txdata_by_ns[Ns(i)])
                                           = IFrame(S, Ns(i), S.txdata_by_ns[Ns(i)])
      <4> TAKE i \in 1 .. Minus(S.vs, nr)
      <4>1. Minus(Ns(i), nr) < Minus(S.vs, nr) /\ Ns(i) \in SeqNo
        <5> DEFINE x == Minus(Ns(i), nr)
        <5>1. x = i - 1
          BY <2>6
        <5> HIDE DEF x
        <5>2. x < Minus(S.vs, nr)
          BY <2>5, <5>1, SMT
        <5> QED BY <2>6, <5>2 DEF x
      <4>2. A.txdata_by_ns[Ns(i)] = S.txdata_by_ns[Ns(i)]
        BY <2>3, <4>1
      <4> QED BY <1>7, <4>2 DEF IFrame
    <3> QED BY <3>1
  <2> HIDE DEF T, again
  <2>8. GoesOn(S, T)
    BY <1>1, <1>7, <2>2 DEF GoesOn, Acknowledges, Steady
  <2>9. S.out = <<>> => T.out = sent
    <3>1. S.out = <<>> => T.out = <<>> \o again
      BY <1>7, <2>1
    <3>2. sent \in Seq({IFrame(S, Ns(i), S.txdata_by_ns[Ns(i)]) : i \in 1 .. Minus(S.vs, nr)})
      BY <2>5, LinkAssumption, SMT
    <3> HIDE DEF sent
    <3> QED BY <2>7, <3>1, <3>2, SMT
  <2> QED BY <2>2, <2>3, <2>8, <2>9 DEF Resends, T
<1> QED BY <1>4, <1>5, <1>6, <1>7

\* SABM: the connection begins anew, with what is left of the queue.
Begins(S, T, f) ==
  /\ T.state = "connected" /\ T.vs = 0 /\ T.va = 0 /\ T.vr = 0
  /\ T.rxdata_by_ns = [x \in SeqNo |-> None]
  /\ T.out = Append(S.out, UFrame("UA", "res", f.pf)) /\ T.up = S.up
  /\ T.i_frame_queue = IF S.state # "disconnected" /\ S.vs # S.va THEN <<>> ELSE S.i_frame_queue
  /\ ~T.peer_receiver_busy /\ T.radio_channel_busy = S.radio_channel_busy

LEMMA BeginsSABM ==
  ASSUME NEW S, NEW owed \in BOOLEAN, Good(S, owed), S.state \in {"disconnected"} \cup Up, NEW f
  PROVE  Begins(S, sabm_frame(S, f), f)
<1> DEFINE A == Answer(S, "UA", f)
           C == clear_exception_conditions(A)
           D == IF C.vs # C.va THEN discard_i_queue(C) ELSE C
           P == StopT1(D)
           Ready(U) == /\ Typed(U)
                       /\ U.rxdata_by_ns = [x \in SeqNo |-> None]
                       /\ U.out = A.out /\ U.up = S.up
                       /\ ~U.peer_receiver_busy /\ U.radio_channel_busy = S.radio_channel_busy
<1>1. /\ Typed(A) /\ A.out = Append(S.out, UFrame("UA", "res", f.pf)) /\ A.up = S.up
      /\ A.state = S.state /\ A.vs = S.vs /\ A.va = S.va /\ A.i_frame_queue = S.i_frame_queue
      /\ A.radio_channel_busy = S.radio_channel_busy
  <2>1. Typed(A)
    BY Answering DEF Good
  <2>2. Typed(S)
    BY DEF Good
  <2> QED BY <2>1, <2>2, SMT DEF Answer, lm_data_request, Typed, Fields
<1> HIDE DEF A
<1>2. /\ Ready(C)
      /\ C.state = S.state /\ C.vs = S.vs /\ C.va = S.va /\ C.i_frame_queue = S.i_frame_queue
  <2>1. [n \in SeqNo |-> None] \in Slots
    BY SMT DEF Slots
  <2> DEFINE e == [n \in SeqNo |-> None]
  <2>2. clear_exception_conditions(A) =
          [A EXCEPT !.peer_receiver_busy = FALSE, !.acknowledge_pending = FALSE, !.rxdata_by_ns = e]
    BY DEF clear_exception_conditions
  <2>3. e = [x \in SeqNo |-> None]
    OBVIOUS
  <2> HIDE DEF e
  <2> QED BY <1>1, <2>1, <2>2, <2>3, SMT DEF Typed, Fields
<1> HIDE DEF C
<1>3. /\ Ready(D)
      /\ D.i_frame_queue = IF S.vs # S.va THEN <<>> ELSE S.i_frame_queue
  <2>1. discard_i_queue(C).i_frame_queue = <<>> /\ Ready(discard_i_queue(C))
    BY <1>2, SMT DEF discard_i_queue, Typed, Fields
  <2> QED BY <1>2, <2>1
<1> HIDE DEF D
<1>4. Ready(P) /\ P.i_frame_queue = D.i_frame_queue
  <2>1. Typed(D)
    BY <1>3
  <2>2. /\ Typed(P) /\ P.i_frame_queue = D.i_frame_queue /\ P.rxdata_by_ns = D.rxdata_by_ns
        /\ P.out = D.out /\ P.up = D.up /\ P.peer_receiver_busy = D.peer_receiver_busy
        /\ P.radio_channel_busy = D.radio_channel_busy
    BY <2>1, SMT DEF StopT1, Typed, Fields
  <2> HIDE DEF P
  <2> QED BY <1>3, <2>2
<1> HIDE DEF P
<1>5. ASSUME NEW U, Ready(U)
      PROVE  LET T == Connected(U)
             IN  /\ T.state = "connected" /\ T.vs = 0 /\ T.va = 0 /\ T.vr = 0
                 /\ T.rxdata_by_ns = [x \in SeqNo |-> None]
                 /\ T.out = A.out /\ T.up = S.up /\ T.i_frame_queue = U.i_frame_queue
                 /\ ~T.peer_receiver_busy /\ T.radio_channel_busy = S.radio_channel_busy
  BY <1>5, SMT DEF Connected, ResetSeq, SetVA, StartT3, enter_new_state, Typed, Fields
<1>6. sabm_frame(S, f) = IF S.state = "disconnected" THEN Connected(C) ELSE Connected(P)
  <2>1. S.state # "awaiting_connection"
    BY DEF Up
  <2> QED BY <2>1 DEF sabm_frame, C, P, D, A
<1> QED BY <1>1, <1>2, <1>3, <1>4, <1>5, <1>6 DEF Begins

-----------------------------------------------------------------------------
(* What is sent for the first time.                                          *)

LEMMA Ahead ==
  ASSUME NEW a \in SeqNo, NEW b \in SeqNo, NEW x \in SeqNo
  PROVE  Minus(x, b) = IF Minus(b, a) <= Minus(x, a) THEN Minus(x, a) - Minus(b, a)
                       ELSE Minus(x, a) + Modulo - Minus(b, a)
<1>1. /\ a \in 0 .. Modulo /\ b \in 0 .. Modulo
  BY LinkAssumption, SMT DEF SeqNo
<1>2. /\ Minus(b, a) = IF a <= b THEN b - a ELSE b + Modulo - a
      /\ Minus(x, b) = IF b <= x THEN x - b ELSE x + Modulo - b
      /\ Minus(x, a) = IF a <= x THEN x - a ELSE x + Modulo - a
  BY <1>1, MinusValue
<1> QED BY <1>2, LinkAssumption, SMT DEF SeqNo

\* The first n messages of the queue are sent, and stashed under the numbers that
\* follow.
Pops(S, T, n) ==
  LET s     == Minus(S.vs, S.va)
      Ns(i) == AX25MODULO(S.vs + i - 1)
  IN  /\ T.va = S.va /\ Minus(T.vs, S.va) = s + n /\ T.state = S.state
      /\ T.i_frame_queue = SubSeq(S.i_frame_queue, n + 1, Len(S.i_frame_queue))
      /\ \A x \in SeqNo : Minus(x, S.va) < s => T.txdata_by_ns[x] = S.txdata_by_ns[x]
      /\ \A x \in SeqNo : s <= Minus(x, S.va) /\ Minus(x, S.va) < s + n =>
            T.txdata_by_ns[x] = S.i_frame_queue[Minus(x, S.va) - s + 1]
      /\ \A i \in 1 .. n : Ns(i) \in SeqNo /\ Minus(Ns(i), S.va) = s + (i - 1)
      /\ S.out = <<>> => T.out = [i \in 1 .. n |-> IFrame(S, Ns(i), S.i_frame_queue[i])]
      /\ ~S.radio_channel_busy => ~T.radio_channel_busy
      /\ ~S.peer_receiver_busy => ~T.peer_receiver_busy
      /\ T.up = S.up /\ T.vr = S.vr /\ T.rxdata_by_ns = S.rxdata_by_ns
      /\ ~T.acknowledge_pending

LEMMA Popped ==
  ASSUME NEW S, NEW owed \in BOOLEAN, Good(S, owed)
  PROVE  LET T == i_frame_pop_off_queue(S)
         IN  \/ T = S
             \/ S.state \in Up /\ \E n \in 1 .. Len(S.i_frame_queue) : Pops(S, T, n)
<1> DEFINE room == Minus(S.va + k_maxframe, S.vs)
           n    == IF room < Len(S.i_frame_queue) THEN room ELSE Len(S.i_frame_queue)
           Ns(i) == AX25MODULO(S.vs + i - 1)
           sent == [i \in 1 .. n |-> IFrame(S, Ns(i), S.i_frame_queue[i])]
           kept == [x \in SeqNo |-> IF Minus(x, S.vs) < n
                                      THEN S.i_frame_queue[Minus(x, S.vs) + 1]
                                      ELSE S.txdata_by_ns[x]]
           rest == SubSeq(S.i_frame_queue, n + 1, Len(S.i_frame_queue))
           T == [S EXCEPT !.out = @ \o sent, !.txdata_by_ns = kept, !.i_frame_queue = rest,
                          !.vs = AX25MODULO(@ + n), !.acknowledge_pending = FALSE]
           s == Minus(S.vs, S.va)
<1>1. CASE S.state \notin Up \/ S.peer_receiver_busy \/ n = 0
  BY <1>1 DEF i_frame_pop_off_queue
<1>2. CASE ~(S.state \notin Up \/ S.peer_receiver_busy \/ n = 0)
  <2>0. /\ S.vs \in SeqNo /\ S.va \in SeqNo /\ S.i_frame_queue \in Seq(Msgs)
        /\ Len(S.i_frame_queue) \in Nat /\ S.state \in Up /\ Typed(S) /\ Windowed(S)
    BY <1>2, SMT DEF Good, Typed
  <2>1. room \in Nat
    BY <2>0, LinkAssumption, SMT DEF Minus, AX25MODULO, SeqNo
  <2>2. n \in 1 .. Len(S.i_frame_queue) /\ n <= room /\ n \in Nat
    BY <1>2, <2>0, <2>1, SMT
  <2>3. /\ Minus(AX25MODULO(S.vs + n), S.va) = s + n
        /\ s + n <= k_maxframe
    <3> HIDE DEF n
    <3> QED BY <2>0, <2>2, Room DEF Windowed
  <2>4. s \in 0 .. Modulo - 1
    BY <2>0, Distance
  <2> HIDE DEF n, s, room
  <2>5. \A i \in 1 .. n : Ns(i) \in SeqNo /\ Minus(Ns(i), S.va) = s + (i - 1)
    <3> TAKE i \in 1 .. n
    <3> DEFINE m == S.vs + i - 1
               x == AX25MODULO(m)
    <3>0. m = S.vs + i - 1
      OBVIOUS
    <3> HIDE DEF m
    <3>1. m \in Nat /\ m < 2 * Modulo /\ s + (i - 1) < Modulo
      BY <2>0, <2>2, <2>3, <2>4, <3>0, LinkAssumption, SMT DEF SeqNo
    <3>2. x = IF m < Modulo THEN m ELSE m - Modulo
      BY <3>1, Wrap
    <3> HIDE DEF x
    <3>3. x \in SeqNo /\ S.va \in 0 .. Modulo
      BY <2>0, <2>2, <3>1, <3>2, LinkAssumption, SMT DEF SeqNo
    <3>4. /\ Minus(x, S.va) = IF S.va <= x THEN x - S.va ELSE x + Modulo - S.va
          /\ s = IF S.va <= S.vs THEN S.vs - S.va ELSE S.vs + Modulo - S.va
      BY <2>0, <3>3, MinusValue DEF s
    <3> DEFINE d == Minus(x, S.va)
    <3> HIDE DEF d
    <3>5. S.vs \in Int /\ S.va \in Int /\ S.va >= 0 /\ S.va < Modulo /\ S.vs >= 0 /\ S.vs < Modulo /\ i \in Int /\ s \in Nat
          /\ x \in Int /\ Modulo \in Int
      BY <2>0, <2>2, <2>4, <3>3, LinkAssumption, SMT DEF SeqNo
    <3>6. ASSUME m < Modulo PROVE d = s + (i - 1)
      BY <3>0, <3>1, <3>2, <3>4, <3>5, <3>6, SMT DEF d
    <3>7. ASSUME ~(m < Modulo) PROVE d = s + (i - 1)
      BY <3>0, <3>1, <3>2, <3>4, <3>5, <3>7, SMT DEF d
    <3> QED BY <3>3, <3>6, <3>7 DEF d, x, m
  <2>6. ASSUME NEW x \in SeqNo
        PROVE  /\ Minus(x, S.va) < s => kept[x] = S.txdata_by_ns[x]
               /\ s <= Minus(x, S.va) /\ Minus(x, S.va) < s + n =>
                    kept[x] = S.i_frame_queue[Minus(x, S.va) - s + 1]
    <3> DEFINE d == Minus(x, S.va)
               e == Minus(x, S.vs)
    <3>1. d \in 0 .. Modulo - 1 /\ e \in 0 .. Modulo - 1
      BY <2>0, Distance
    <3>2. e = IF s <= d THEN d - s ELSE d + Modulo - s
      BY <2>0, Ahead DEF s
    <3>3. kept[x] = IF e < n THEN S.i_frame_queue[e + 1] ELSE S.txdata_by_ns[x]
      OBVIOUS
    <3> HIDE DEF d, e, kept
    <3>4. d < s => ~(e < n)
      BY <2>2, <2>3, <2>4, <3>1, <3>2, LinkAssumption, SMT
    <3>5. s <= d /\ d < s + n => e < n /\ e = d - s
      BY <2>2, <2>3, <2>4, <3>1, <3>2, LinkAssumption, SMT
    <3> QED BY <3>3, <3>4, <3>5 DEF d
  <2> DEFINE w == AX25MODULO(S.vs + n)
             out == S.out \o sent
             Rp == StopT3(T)
             U == StartT1(Rp)
  <2>7. T = [S EXCEPT !.out = out, !.txdata_by_ns = kept, !.i_frame_queue = rest,
                      !.vs = w, !.acknowledge_pending = FALSE]
    BY <2>0 DEF Typed, Fields
  <2> HIDE DEF kept, rest, w, out, T
  <2>8. /\ DOMAIN T = Fields /\ T.txdata_by_ns = kept /\ T.i_frame_queue = rest /\ T.vs = w
        /\ T.acknowledge_pending = FALSE /\ T.state = S.state /\ T.va = S.va /\ T.vr = S.vr
        /\ T.peer_receiver_busy = S.peer_receiver_busy
        /\ T.radio_channel_busy = S.radio_channel_busy
        /\ T.rxdata_by_ns = S.rxdata_by_ns /\ T.up = S.up /\ T.out = out
    BY <2>0, <2>7, SMT DEF Typed, Fields
  <2>9. /\ DOMAIN Rp = Fields /\ Rp.txdata_by_ns = kept /\ Rp.i_frame_queue = rest /\ Rp.vs = w
        /\ Rp.acknowledge_pending = FALSE /\ Rp.state = S.state /\ Rp.va = S.va /\ Rp.vr = S.vr
        /\ Rp.peer_receiver_busy = S.peer_receiver_busy
        /\ Rp.radio_channel_busy = S.radio_channel_busy
        /\ Rp.rxdata_by_ns = S.rxdata_by_ns /\ Rp.up = S.up /\ Rp.out = out
    BY <2>8, SMT DEF StopT3, Fields
  <2> HIDE DEF Rp
  <2>10. /\ U.txdata_by_ns = kept /\ U.i_frame_queue = rest /\ U.vs = w
         /\ U.acknowledge_pending = FALSE /\ U.state = S.state /\ U.va = S.va /\ U.vr = S.vr
         /\ U.peer_receiver_busy = S.peer_receiver_busy
         /\ U.radio_channel_busy = S.radio_channel_busy
         /\ U.rxdata_by_ns = S.rxdata_by_ns /\ U.up = S.up /\ U.out = out
    BY <2>9, SMT DEF StartT1, Fields
  <2> HIDE DEF U
  <2>11. i_frame_pop_off_queue(S) = U
    BY <1>2 DEF i_frame_pop_off_queue, U, Rp, T, n, room, kept, rest, sent
  <2>12. S.out = <<>> => out = sent
    <3> DEFINE g(i) == IFrame(S, Ns(i), S.i_frame_queue[i])
    <3>0. sent = [i \in 1 .. n |-> g(i)]
      OBVIOUS
    <3> HIDE DEF g, sent
    <3>1. sent \in Seq({g(i) : i \in 1 .. n})
      BY <2>2, <3>0, SMT
    <3> HIDE DEF sent
    <3> QED BY <3>1, SMT DEF out
  <2>13. Pops(S, U, n)
    BY <2>3, <2>5, <2>6, <2>10, <2>12, Zenon DEF Pops, s, w, rest
  <2> QED BY <2>0, <2>2, <2>11, <2>13
<1> QED BY <1>1, <1>2

-----------------------------------------------------------------------------
(* The events.                                                               *)

\* A link between events.
Idle(S) ==
  /\ S \in Link /\ Good(S, TRUE)
  /\ S.seize = 0 /\ S.out = <<>> /\ S.up = <<>>
  /\ S.state \in {"disconnected"} \cup Up
  /\ ~S.peer_receiver_busy

LEMMA IdleFresh ==
  ASSUME NEW S, Idle(S)
  PROVE  Fresh(S) = S /\ Typed(S) /\ S.vs \in SeqNo /\ S.va \in SeqNo
<1>1. Fresh(S) = S
  BY Zenon DEF Idle, Link, Fresh
<1> QED BY <1>1 DEF Idle, Good, Typed

LEMMA IndicationOf ==
  ASSUME NEW S, Idle(S), NEW f, Receivable(f)
  PROVE  /\ lm_data_indication(S, f) = SeizeForQueue(Dispatch(S, ax25_frame_type(f)))
         /\ Receivable(ax25_frame_type(f))
         /\ ax25_frame_type(f).cr = "11" /\ ax25_frame_type(f).nr = f.nr
         /\ ax25_frame_type(f).pf = f.pf /\ ax25_frame_type(f).type = f.type
         /\ ax25_frame_type(f).ns = f.ns /\ ax25_frame_type(f).msg = f.msg
<1>1. get_link_handle(Fresh(S), f) = S /\ S.state # "none"
  <2>1. S.state # "none"
    BY DEF Idle, Up
  <2> QED BY <2>1, IdleFresh DEF get_link_handle
<1>2. /\ Receivable(ax25_frame_type(f))
      /\ ax25_frame_type(f).cr = "11" /\ ax25_frame_type(f).nr = f.nr
      /\ ax25_frame_type(f).pf = f.pf /\ ax25_frame_type(f).type = f.type
      /\ ax25_frame_type(f).ns = f.ns /\ ax25_frame_type(f).msg = f.msg
  BY SMT DEF ax25_frame_type, Receivable
<1> QED BY <1>1, <1>2 DEF lm_data_indication

LEMMA UpOrNot == \A x \in Up : x # "disconnected" /\ x # "awaiting_connection" /\ x # "none"
BY DEF Up

\* A link without connection takes no notice of data and acknowledgements.
LEMMA Unnoticed ==
  ASSUME NEW S, Idle(S), S.state = "disconnected",
         NEW f, Receivable(f), f.type \in {"I", "RR", "REJ"}
  PROVE  lm_data_indication(S, f) = S
<1> DEFINE g == ax25_frame_type(f)
<1>1. /\ lm_data_indication(S, f) = SeizeForQueue(Dispatch(S, g))
      /\ g.cr = "11" /\ g.type = f.type
  BY IndicationOf
<1> HIDE DEF g
<1>2. i_frame(S, g) = S /\ rr_rnr_frame(S, TRUE, g) = S /\ rej_frame(S, g) = S
  <2>1. i_frame(S, g) = S
    BY <1>1, UpOrNot, Zenon DEF i_frame
  <2>2. rr_rnr_frame(S, TRUE, g) = S
    BY <1>1 DEF rr_rnr_frame
  <2>3. rej_frame(S, g) = S
    BY <1>1 DEF rej_frame
  <2> QED BY <2>1, <2>2, <2>3
<1>3. Dispatch(S, g) = S
  BY <1>1, <1>2 DEF Dispatch
<1>4. SeizeForQueue(S) = S
  BY UpOrNot DEF SeizeForQueue
<1> QED BY <1>1, <1>3, <1>4

LEMMA DataReceived ==
  ASSUME NEW S, Idle(S), S.state \in Up,
         NEW f, Receivable(f), f.type \in {"I", "RR", "REJ"}, is_good_nr(S, f.nr)
  PROVE  LET L == lm_data_indication(S, f)
         IN  /\ f.type \in {"I", "RR"} => Acknowledges(S, L, f.nr)
             /\ f.type = "REJ" /\ f.nr # S.vs => Resends(S, L, f.nr)
<1> DEFINE g == ax25_frame_type(f)
           H == Dispatch(S, g)
<1>1. /\ lm_data_indication(S, f) = SeizeForQueue(H)
      /\ Receivable(g) /\ g.cr = "11" /\ g.nr = f.nr /\ g.type = f.type /\ is_good_nr(S, g.nr)
  BY IndicationOf
<1> HIDE DEF g
<1>2. Good(S, TRUE) /\ ~S.peer_receiver_busy /\ g.nr \in SeqNo /\ g.ns \in SeqNo
  BY <1>1 DEF Idle, Receivable
<1>3. Good(H, TRUE)
  BY <1>1, <1>2, Dispatched DEF Receivable
<1>4. f.type = "I" => Acknowledges(S, H, f.nr)
  <2> SUFFICES ASSUME f.type = "I" PROVE Acknowledges(S, H, f.nr)
    OBVIOUS
  <2>1. H = i_frame(S, g) /\ g.msg \in Msgs
    BY <1>1 DEF Dispatch, Receivable
  <2> QED BY <1>1, <1>2, <2>1, AcksI
<1>5. f.type = "RR" => Acknowledges(S, H, f.nr)
  <2> SUFFICES ASSUME f.type = "RR" PROVE Acknowledges(S, H, f.nr)
    OBVIOUS
  <2>1. H = rr_rnr_frame(S, TRUE, g)
    BY <1>1 DEF Dispatch
  <2> QED BY <1>1, <1>2, <2>1, AcksRR
<1>6. f.type = "REJ" /\ f.nr # S.vs => Resends(S, H, f.nr)
  <2> SUFFICES ASSUME f.type = "REJ", f.nr # S.vs PROVE Resends(S, H, f.nr)
    OBVIOUS
  <2>1. H = rej_frame(S, g)
    BY <1>1 DEF Dispatch
  <2> QED BY <1>1, <1>2, <2>1, ResendsREJ
<1> HIDE DEF H
<1>7. Steady(H, SeizeForQueue(H)) /\ SeizeForQueue(H).out = H.out
  <2>1. Steady(H, SeizeForQueue(H))
    BY <1>3, SteadyTimers DEF Good
  <2>2. SeizeForQueue(H).out = H.out
    BY <1>3, SMT DEF SeizeForQueue, lm_seize_request, Good, Typed, Fields
  <2> QED BY <2>1, <2>2
<1>8. Resends(S, H, f.nr) => Resends(S, SeizeForQueue(H), f.nr)
  BY <1>7 DEF Resends, Steady, GoesOn
<1> QED BY <1>1, <1>4, <1>5, <1>6, <1>7, <1>8, SteadyStays

LEMMA ConnectReceived ==
  ASSUME NEW S, Idle(S), NEW f, Receivable(f), f.type = "SABM"
  PROVE  Begins(S, lm_data_indication(S, f), f)
<1> DEFINE g == ax25_frame_type(f)
           H == sabm_frame(S, g)
<1>1. lm_data_indication(S, f) = SeizeForQueue(Dispatch(S, g)) /\ g.pf = f.pf /\ g.type = f.type
  BY IndicationOf
<1> HIDE DEF g
<1>2. lm_data_indication(S, f) = SeizeForQueue(H)
  BY <1>1 DEF Dispatch
<1>3. Good(H, TRUE) /\ Begins(S, H, g)
  BY BeginsSABM, UnnumberedReceived DEF Idle
<1> HIDE DEF H
<1>4. Begins(S, SeizeForQueue(H), g)
  <2> DEFINE T == SeizeForQueue(H)
  <2>1. /\ T.state = H.state /\ T.vs = H.vs /\ T.va = H.va /\ T.vr = H.vr
        /\ T.rxdata_by_ns = H.rxdata_by_ns /\ T.out = H.out /\ T.up = H.up
        /\ T.i_frame_queue = H.i_frame_queue /\ T.peer_receiver_busy = H.peer_receiver_busy
        /\ T.radio_channel_busy = H.radio_channel_busy
    BY <1>3, SMT DEF SeizeForQueue, lm_seize_request, Good, Typed, Fields
  <2> HIDE DEF T
  <2> QED BY <1>3, <2>1 DEF Begins, T
<1> QED BY <1>1, <1>2, <1>4 DEF Begins

LEMMA ChannelSeized ==
  ASSUME NEW S, Idle(S)
  PROVE  LET L == lm_seize_confirm(S)
         IN  \/ Steady(S, L)
             \/ S.state \in Up /\ \E n \in 1 .. Len(S.i_frame_queue) : Pops(S, L, n)
<1> DEFINE P == i_frame_pop_off_queue(S)
<1>1. Good(S, TRUE) /\ Fresh(S) = S /\ Typed(S)
  BY IdleFresh DEF Idle
<1>2. Steady(S, S)
  BY DEF Steady, GoesOn
<1>3. lm_seize_confirm(S) = IF S.state \notin Up THEN S
                            ELSE IF P.acknowledge_pending THEN enquiry_response(P, FALSE) ELSE P
  BY <1>1 DEF lm_seize_confirm
<1>4. \/ P = S
      \/ S.state \in Up /\ \E n \in 1 .. Len(S.i_frame_queue) : Pops(S, P, n)
  BY <1>1, Popped
<1> HIDE DEF P
<1>5. CASE P = S
  <2>1. Steady(S, enquiry_response(P, FALSE))
    BY <1>1, <1>5, SteadyReplies
  <2> QED BY <1>2, <1>3, <1>5, <2>1
<1>6. CASE S.state \in Up /\ \E n \in 1 .. Len(S.i_frame_queue) : Pops(S, P, n)
  <2>1. ~P.acknowledge_pending
    BY <1>6 DEF Pops
  <2> QED BY <1>3, <1>6, <2>1
<1> QED BY <1>4, <1>5, <1>6

\* The link is given up: what was queued is dropped.
GivesUp(S, T) ==
  /\ T.state = "disconnected" /\ T.i_frame_queue = <<>>
  /\ T.vs = S.vs /\ T.va = S.va /\ T.txdata_by_ns = S.txdata_by_ns
  /\ T.vr = S.vr /\ T.rxdata_by_ns = S.rxdata_by_ns /\ T.up = S.up
  /\ S.out \in Seq(Replies) => T.out \in Seq(Replies)
  /\ ~S.peer_receiver_busy => ~T.peer_receiver_busy
  /\ ~S.radio_channel_busy => ~T.radio_channel_busy

LEMMA TimerRunsOut ==
  ASSUME NEW S, Idle(S)
  PROVE  /\ Steady(S, ExpireT1(S)) \/ GivesUp(S, ExpireT1(S))
         /\ Steady(S, ExpireT3(S))
<1>1. Good(S, TRUE) /\ Fresh(S) = S /\ Typed(S) /\ S.state # "awaiting_connection"
  BY IdleFresh, UpOrNot DEF Idle
<1>2. Steady(S, ExpireT3(S))
  <2> DEFINE B == [S EXCEPT !.t3 = "stopped"]
  <2>1. Typed(B) /\ Steady(S, B) /\ B.state = S.state
    BY <1>1, SMT DEF Typed, Fields, Steady, GoesOn
  <2>2. ExpireT3(S) = t3_expiry(B)
    BY <1>1 DEF ExpireT3
  <2> HIDE DEF B
  <2>3. B.state = "connected" => Steady(B, Enquire(B))
    BY <2>1, SteadyReplies DEF Up
  <2> QED BY <2>1, <2>2, <2>3, SteadyStays DEF t3_expiry
<1>3. Steady(S, ExpireT1(S)) \/ GivesUp(S, ExpireT1(S))
  <2> DEFINE B == [S EXCEPT !.t1 = "stopped"]
             More == [B EXCEPT !.rc = @ + 1]
             dm == UFrame("DM", "res", FALSE)
             G == GiveUp(lm_data_request(B, dm))
  <2>1. Typed(B) /\ Steady(S, B) /\ B.state = S.state /\ B.vr = S.vr /\ B.up = S.up
        /\ B.rxdata_by_ns = S.rxdata_by_ns
    BY <1>1, SMT DEF Typed, Fields, Steady, GoesOn
  <2>2. ExpireT1(S) = t1_expiry(B)
    BY <1>1 DEF ExpireT1
  <2> HIDE DEF B
  <2>3. B.state = "connected" => Steady(B, Enquire(B))
    BY <2>1, SteadyReplies DEF Up
  <2>4. ~RetriesUsedUp(B) => Steady(B, transmit_enquiry(More))
    <3> SUFFICES ASSUME ~RetriesUsedUp(B) PROVE Steady(B, transmit_enquiry(More))
      OBVIOUS
    <3>1. Typed(More) /\ Steady(B, More)
      BY <2>1, LinkAssumption, SMT DEF RetriesUsedUp, Typed, Fields, Steady, GoesOn
    <3> HIDE DEF More
    <3> QED BY <3>1, SteadyReplies, SteadyStays
  <2>5. GivesUp(S, G)
    <3>1. 0 \in SeqNo
      BY LinkAssumption, SMT DEF SeqNo
    <3>2. dm \in Replies
      BY <3>1, SMT DEF UFrame, Frame, Frames, FrameTypes, Replies
    <3> HIDE DEF dm
    <3>3. /\ G.state = "disconnected" /\ G.i_frame_queue = <<>>
          /\ G.vs = B.vs /\ G.va = B.va /\ G.txdata_by_ns = B.txdata_by_ns
          /\ G.vr = B.vr /\ G.rxdata_by_ns = B.rxdata_by_ns /\ G.up = B.up
          /\ G.out = Append(B.out, dm) /\ G.peer_receiver_busy = B.peer_receiver_busy
          /\ G.radio_channel_busy = B.radio_channel_busy
      BY <2>1, SMT DEF GiveUp, lm_data_request, discard_i_queue, enter_new_state, Typed, Fields
    <3> HIDE DEF G
    <3> QED BY <2>1, <3>2, <3>3, SMT DEF GivesUp, Steady, GoesOn
  <2>6. \/ t1_expiry(B) = Enquire(B) /\ B.state = "connected"
        \/ t1_expiry(B) = G
        \/ t1_expiry(B) = transmit_enquiry(More) /\ ~RetriesUsedUp(B)
        \/ t1_expiry(B) = B
    BY <1>1, <2>1 DEF t1_expiry
  <2> HIDE DEF G, More
  <2> QED BY <2>1, <2>2, <2>3, <2>4, <2>5, <2>6, SteadyStays
<1> QED BY <1>2, <1>3

LEMMA Appended ==
  ASSUME NEW S, Idle(S), NEW m \in Msgs
  PROVE  LET L == SeizeForQueue([S EXCEPT !.i_frame_queue = Append(@, m)])
         IN  /\ Good(L, TRUE)
             /\ L.i_frame_queue = Append(S.i_frame_queue, m)
             /\ L.state = S.state /\ L.vs = S.vs /\ L.va = S.va /\ L.vr = S.vr
             /\ L.txdata_by_ns = S.txdata_by_ns /\ L.rxdata_by_ns = S.rxdata_by_ns
             /\ L.out = <<>> /\ L.up = <<>>
             /\ L.peer_receiver_busy = S.peer_receiver_busy
             /\ L.radio_channel_busy = S.radio_channel_busy
<1> DEFINE Q == [S EXCEPT !.i_frame_queue = Append(@, m)]
           L == SeizeForQueue(Q)
<1>1. Good(S, TRUE) /\ Fresh(S) = S /\ Typed(S) /\ S.out = <<>> /\ S.up = <<>>
  BY IdleFresh DEF Idle
<1>2. Good(L, TRUE)
  BY <1>1, DataHandedOver
<1>3. /\ DOMAIN Q = Fields /\ Q.i_frame_queue = Append(S.i_frame_queue, m)
      /\ Q.state = S.state /\ Q.vs = S.vs /\ Q.va = S.va /\ Q.vr = S.vr
      /\ Q.txdata_by_ns = S.txdata_by_ns /\ Q.rxdata_by_ns = S.rxdata_by_ns
      /\ Q.out = <<>> /\ Q.up = <<>>
      /\ Q.peer_receiver_busy = S.peer_receiver_busy
      /\ Q.radio_channel_busy = S.radio_channel_busy
  BY <1>1, SMT DEF Typed, Fields
<1> HIDE DEF Q
<1>4. /\ L.i_frame_queue = Append(S.i_frame_queue, m)
      /\ L.state = S.state /\ L.vs = S.vs /\ L.va = S.va /\ L.vr = S.vr
      /\ L.txdata_by_ns = S.txdata_by_ns /\ L.rxdata_by_ns = S.rxdata_by_ns
      /\ L.out = <<>> /\ L.up = <<>>
      /\ L.peer_receiver_busy = S.peer_receiver_busy
      /\ L.radio_channel_busy = S.radio_channel_busy
  BY <1>3, SMT DEF SeizeForQueue, lm_seize_request, Fields
<1> QED BY <1>2, <1>4 DEF Q

-----------------------------------------------------------------------------
(* The invariant.                                                            *)

\* How far the number x is from our V(A), around the ring.
D(x) == Minus(x, link.va)

LinkInv == Idle(link) /\ ~link.radio_channel_busy

\* What the two stations send.
NodeAir == {f \in Frames : /\ f.type \in {"I", "RR", "REJ", "SABM"}
                           /\ f.type = "I" => f.msg \in Msgs}
PeerAir == {f \in Frames : /\ f.type \in {"I", "RR", "SREJ", "UA", "DM"}
                           /\ f.type = "I" => f.msg \in Msgs}

AirInv == toNode \in Seq(NodeAir) /\ toPeer \in Seq(PeerAir)

PeerInv ==
  /\ load \in (0 .. Total) \X (0 .. Total)
  /\ seizes \in 0 .. MaxSeize /\ given \in 0 .. load[2]
  /\ delivered \in Seq(Msgs) /\ received \in Seq(Msgs)
  /\ peer \in Peer /\ cut \in (SUBSET Msgs) \cup {NULL}
  /\ peer.start <= peer.base /\ peer.base <= peer.next
  /\ peer.start < peer.next => peer.next <= load[1]

\* The SABMs and the UAs on their way, and the I frames that the peer will take:
\* those behind a UA that it waits for.
Sabms == {i \in DOMAIN toNode : toNode[i].type = "SABM"}
Uas == {i \in DOMAIN toPeer : toPeer[i].type = "UA"}
LiveData == {i \in DOMAIN toPeer : /\ toPeer[i].type = "I"
                                   /\ peer.state = "connected" \/ \E j \in Uas : j <= i}

\* There is a SABM or a UA only while the peer is connecting, and one at a time;
\* nothing of the new connection has begun then.
PhaseInv ==
  /\ peer.state # "connecting" => Sabms = {} /\ Uas = {} /\ cut = NULL
  /\ Sabms \subseteq {Len(toNode)}
  /\ \A i, j \in Uas : i = j
  /\ Sabms # {} \/ cut # NULL => Uas = {}
  /\ peer.state = "connecting" =>
       /\ peer.expect = 0 /\ ~peer.rejecting
       /\ peer.base = peer.start /\ peer.next = peer.start
       /\ cut = NULL => link.va = 0 /\ Sabms = DOMAIN toNode

\* N(R) of what is on its way to us goes up, from V(A) to what the peer expects.
AckInv ==
  \A i \in DOMAIN toNode : toNode[i].type # "SABM" =>
    /\ link.state \in Up =>
         /\ D(toNode[i].nr) <= D(link.vs)
         /\ toNode[i].type = "REJ" => D(toNode[i].nr) < D(link.vs)
         /\ \A j \in DOMAIN toNode :
              i < j /\ toNode[j].type # "SABM" => D(toNode[i].nr) <= D(toNode[j].nr)
    /\ cut = NULL => D(toNode[i].nr) <= D(peer.expect)

\* Message w is, or would be, the one at V(A): those from V(A) to V(S) are stashed,
\* the next ones are in the queue.
SentInv(w) ==
  /\ w + D(link.vs) <= given - Len(link.i_frame_queue)
  /\ link.state \in Up => w + D(link.vs) = given - Len(link.i_frame_queue)
  /\ \A i \in DOMAIN link.i_frame_queue :
       link.i_frame_queue[i] = given - Len(link.i_frame_queue) + i - 1
  /\ \A x \in SeqNo : D(x) < D(link.vs) => link.txdata_by_ns[x] = w + D(x)

\* What the peer will take is sent and not yet received, under its number.
DataInv(w) ==
  /\ \A i \in LiveData : /\ toPeer[i].msg = w + D(toPeer[i].ns)
                         /\ D(peer.expect) <= D(toPeer[i].ns)
                         /\ D(toPeer[i].ns) < D(link.vs)
  /\ cut = NULL => /\ D(peer.expect) <= D(link.vs)
                   /\ \A i \in DOMAIN received : received[i] < w + D(peer.expect)

\* The frames go up, or those before one that goes back have been missed; a REJ
\* on its way asks for what the peer expects, and nothing under way will do.
OrderInv ==
  /\ \A i, j \in LiveData : i < j /\ D(toPeer[j].ns) <= D(toPeer[i].ns) =>
       /\ peer.rejecting
       /\ \A h \in LiveData : h <= i => D(peer.expect) < D(toPeer[h].ns)
  /\ cut = NULL => \A i \in DOMAIN toNode : toNode[i].type = "REJ" =>
       /\ peer.rejecting /\ toNode[i].nr = peer.expect
       /\ D(peer.expect) < D(link.vs)
       /\ \A h \in LiveData : D(peer.expect) < D(toPeer[h].ns)
       /\ \A j \in DOMAIN toNode : toNode[j].type = "REJ" => i = j

ReceivedInv ==
  /\ InOrder(received)
  /\ \A i \in DOMAIN received : received[i] < given - Len(link.i_frame_queue)

IInv ==
  /\ LinkInv /\ AirInv /\ PeerInv /\ PhaseInv /\ AckInv /\ OrderInv /\ ReceivedInv
  /\ \E w \in Nat : SentInv(w) /\ DataInv(w)

-----------------------------------------------------------------------------
(* What is on the air.                                                       *)

LEMMA Extended ==
  ASSUME NEW X, NEW s \in Seq(X), NEW o \in Seq(X)
  PROVE  LET t == s \o o
         IN  /\ t \in Seq(X) /\ Len(t) = Len(s) + Len(o) /\ Len(s) \in Nat /\ Len(o) \in Nat
             /\ DOMAIN s = 1 .. Len(s) /\ DOMAIN t = 1 .. Len(s) + Len(o)
             /\ \A i \in 1 .. Len(s) : t[i] = s[i]
             /\ \A i \in 1 .. Len(o) : t[Len(s) + i] = o[i]
BY SMT

LEMMA Shortened ==
  ASSUME NEW X, NEW s \in Seq(X), s # <<>>
  PROVE  /\ Tail(s) \in Seq(X) /\ Len(Tail(s)) = Len(s) - 1 /\ Len(s) \in Nat \ {0}
         /\ DOMAIN s = 1 .. Len(s) /\ DOMAIN Tail(s) = 1 .. Len(s) - 1
         /\ \A i \in 1 .. Len(s) - 1 : Tail(s)[i] = s[i + 1]
         /\ Head(s) = s[1] /\ s[1] \in X
BY SMT

LEMMA Grown ==
  ASSUME NEW X, NEW s \in Seq(X), NEW f \in X
  PROVE  LET t == Append(s, f)
         IN  /\ t \in Seq(X) /\ Len(t) = Len(s) + 1 /\ Len(s) \in Nat
             /\ DOMAIN s = 1 .. Len(s) /\ DOMAIN t = 1 .. Len(s) + 1
             /\ \A i \in 1 .. Len(s) : t[i] = s[i]
             /\ t[Len(s) + 1] = f
BY SMT

\* The second of two sequences is the first without its first k members.
Behead(s, t, k) ==
  /\ DOMAIN s = 1 .. Len(s) /\ DOMAIN t = 1 .. Len(t)
  /\ Len(s) \in Nat /\ Len(t) \in Nat /\ Len(s) = Len(t) + k
  /\ \A i \in DOMAIN t : t[i] = s[i + k]

LEMMA Beheaded ==
  ASSUME NEW X, NEW s \in Seq(X)
  PROVE  /\ Behead(s, s, 0)
         /\ s # <<>> => Behead(s, Tail(s), 1) /\ Tail(s) \in Seq(X)
BY SMT DEF Behead

\* What is not for the peer to take leaves LiveData as it is.
LEMMA QuietAir ==
  ASSUME AirInv, NEW o \in Seq(Replies), toPeer' = toPeer \o o, peer' = peer
  PROVE  /\ toPeer' \in Seq(PeerAir)
         /\ Uas' = Uas /\ LiveData' = LiveData
         /\ \A i \in LiveData : toPeer'[i] = toPeer[i]
<1>1. Replies \subseteq PeerAir
  BY SMT DEF Replies, PeerAir
<1>2. o \in Seq(PeerAir) /\ toPeer \in Seq(PeerAir)
  BY <1>1, SMT DEF AirInv
<1>3. /\ toPeer' \in Seq(PeerAir) /\ Len(toPeer) \in Nat /\ Len(o) \in Nat
      /\ DOMAIN toPeer = 1 .. Len(toPeer) /\ DOMAIN toPeer' = 1 .. Len(toPeer) + Len(o)
      /\ \A i \in 1 .. Len(toPeer) : toPeer'[i] = toPeer[i]
      /\ \A i \in 1 .. Len(o) : toPeer'[Len(toPeer) + i] = o[i]
  <2> DEFINE t == toPeer \o o
  <2>1. /\ t \in Seq(PeerAir) /\ Len(toPeer) \in Nat /\ Len(o) \in Nat
        /\ DOMAIN toPeer = 1 .. Len(toPeer) /\ DOMAIN t = 1 .. Len(toPeer) + Len(o)
        /\ \A i \in 1 .. Len(toPeer) : t[i] = toPeer[i]
        /\ \A i \in 1 .. Len(o) : t[Len(toPeer) + i] = o[i]
    BY <1>2, Extended
  <2> HIDE DEF t
  <2>2. toPeer' = t
    BY DEF t
  <2> QED BY <2>1, <2>2
<1>4. \A i \in 1 .. Len(o) : o[i].type # "I" /\ o[i].type # "UA"
  <2>1. \A i \in 1 .. Len(o) : o[i] \in Replies
    BY SMT
  <2>2. \A f \in Replies : f.type # "I" /\ f.type # "UA"
    BY SMT DEF Replies
  <2> QED BY <2>1, <2>2
<1>5. ASSUME NEW i \in DOMAIN toPeer', toPeer'[i].type \in {"I", "UA"}
      PROVE  i \in DOMAIN toPeer /\ toPeer'[i] = toPeer[i]
  <2>1. CASE i <= Len(toPeer)
    BY <1>3, <2>1, SMT
  <2>2. CASE ~(i <= Len(toPeer))
    <3> DEFINE n == i - Len(toPeer)
    <3>1. n \in 1 .. Len(o) /\ i = Len(toPeer) + n
      BY <1>3, <2>2, SMT
    <3> HIDE DEF n
    <3>2. toPeer'[i] = o[n]
      BY <1>3, <3>1
    <3> QED BY <1>4, <1>5, <3>1, <3>2
  <2> QED BY <2>1, <2>2
<1>6. \A i \in DOMAIN toPeer : i \in DOMAIN toPeer' /\ toPeer'[i] = toPeer[i]
  BY <1>3, SMT
<1>7. Uas' = Uas
  BY <1>5, <1>6 DEF Uas
<1>8. LiveData' = LiveData
  BY <1>5, <1>6, <1>7 DEF LiveData
<1>9. \A i \in LiveData : toPeer'[i] = toPeer[i]
  BY <1>6 DEF LiveData
<1> QED BY <1>3, <1>7, <1>8, <1>9

-----------------------------------------------------------------------------
(* A step of ours.                                                           *)

LEMMA NodeKept ==
  ASSUME IInv, NEW L, Good(L, TRUE), L.state \in {"disconnected"} \cup Up,
         ~L.peer_receiver_busy, ~L.radio_channel_busy, L.up \in Seq(Msgs),
         NEW taken \in {0, 1}, taken <= seizes, NodeStep(L, taken)
  PROVE  /\ LinkInv'
         /\ seizes' \in 0 .. MaxSeize /\ delivered' \in Seq(Msgs)
         /\ toPeer' = toPeer \o L.out
         /\ load' = load /\ peer' = peer /\ received' = received
         /\ link'.state = L.state /\ link'.vs = L.vs /\ link'.va = L.va
         /\ link'.i_frame_queue = L.i_frame_queue /\ link'.txdata_by_ns = L.txdata_by_ns
<1>1. /\ link' = Fresh(L) /\ delivered' = delivered \o L.up /\ toPeer' = toPeer \o L.out
      /\ seizes' = Min({seizes - taken + L.seize, MaxSeize})
      /\ load' = load /\ peer' = peer /\ received' = received
  BY DEF NodeStep, peerVars
<1>2. Fresh(L) \in Link /\ Fresh(L).seize = 0 /\ Good(Fresh(L), TRUE)
  BY LinkKept
<1>3. /\ link'.state = L.state /\ link'.vs = L.vs /\ link'.va = L.va
      /\ link'.i_frame_queue = L.i_frame_queue /\ link'.txdata_by_ns = L.txdata_by_ns
      /\ link'.peer_receiver_busy = L.peer_receiver_busy
      /\ link'.radio_channel_busy = L.radio_channel_busy
      /\ link'.out = <<>> /\ link'.up = <<>>
  BY <1>1, SMT DEF Fresh, Good, Typed, Fields
<1>4. LinkInv'
  BY <1>1, <1>2, <1>3 DEF LinkInv, Idle
<1>5. seizes' \in 0 .. MaxSeize
  <2>1. L.seize \in Nat /\ seizes \in Nat /\ MaxSeize \in Nat
    BY DeliveryAssumption, SMT DEF Good, Typed, IInv, PeerInv
  <2> DEFINE n == seizes - taken + L.seize
  <2>2. n \in Nat
    BY <2>1, SMT
  <2> HIDE DEF n
  <2>3. Min({n, MaxSeize}) = IF n <= MaxSeize THEN n ELSE MaxSeize
    BY <2>1, <2>2, MinOfTwo
  <2>4. seizes' = IF n <= MaxSeize THEN n ELSE MaxSeize
    BY <1>1, <2>3 DEF n
  <2> QED BY <2>1, <2>2, <2>4, SMT
<1>6. delivered' \in Seq(Msgs)
  <2>1. delivered \in Seq(Msgs)
    BY DEF IInv, PeerInv
  <2> QED BY <1>1, <2>1, SMT
<1> QED BY <1>1, <1>3, <1>4, <1>5, <1>6

\* Nothing has become of the link but what it has to send and its timers.
LEMMA Distances ==
  ASSUME LinkInv
  PROVE  /\ link.va \in SeqNo /\ link.vs \in SeqNo
         /\ \A x \in SeqNo : D(x) \in 0 .. Modulo - 1
         /\ D(link.va) = 0
<1>1. link.va \in SeqNo /\ link.vs \in SeqNo
  BY IdleFresh DEF LinkInv
<1>2. \A x \in SeqNo : D(x) \in 0 .. Modulo - 1
  BY <1>1, Distance DEF D
<1>3. D(link.va) = 0
  <2>1. link.va \in 0 .. Modulo
    BY <1>1, LinkAssumption, SMT DEF SeqNo
  <2>2. Minus(link.va, link.va) = IF link.va <= link.va THEN link.va - link.va
                                   ELSE link.va + Modulo - link.va
    BY <1>1, <2>1, MinusValue
  <2> QED BY <1>1, <2>2, LinkAssumption, SMT DEF D, SeqNo
<1> QED BY <1>1, <1>2, <1>3

\* V(A), V(S) and what the peer will take are as they were: what holds of them does
\* still, with the first k of the frames on their way to us gone.
LEMMA QuietStep ==
  ASSUME IInv, LinkInv', link'.va = link.va, link'.vs = link.vs,
         link'.state \in Up => link.state \in Up,
         NEW o \in Seq(Replies), toPeer' = toPeer \o o,
         NEW k \in {0, 1}, Behead(toNode, toNode', k),
         peer' = peer, cut' = cut, received' = received
  PROVE  /\ toPeer' \in Seq(PeerAir)
         /\ PhaseInv' /\ AckInv' /\ OrderInv'
         /\ \A w : DataInv(w) => DataInv(w)'
<1>1. /\ AirInv /\ PhaseInv /\ AckInv /\ OrderInv
  BY DEF IInv
<1>2. /\ toPeer' \in Seq(PeerAir)
      /\ Uas' = Uas /\ LiveData' = LiveData /\ \A i \in LiveData : toPeer'[i] = toPeer[i]
  BY <1>1, QuietAir
<1>3. /\ \A i \in DOMAIN toNode' : i + k \in DOMAIN toNode /\ toNode'[i] = toNode[i + k]
      /\ \A i \in DOMAIN toNode' : i = Len(toNode') <=> i + k = Len(toNode)
      /\ \A i, j \in DOMAIN toNode' : /\ i < j <=> i + k < j + k
                                      /\ i = j <=> i + k = j + k
  BY SMT DEF Behead
<1>4. PhaseInv'
  <2>1. Sabms' \subseteq {Len(toNode')}
    BY <1>1, <1>3 DEF PhaseInv, Sabms
  <2>2. Sabms = {} => Sabms' = {}
    BY <1>3 DEF Sabms
  <2>3. ASSUME Sabms = DOMAIN toNode PROVE Sabms' = DOMAIN toNode'
    <3>1. \A i \in DOMAIN toNode : toNode[i].type = "SABM"
      BY <2>3, Zenon DEF Sabms
    <3>2. \A i \in DOMAIN toNode' : toNode'[i].type = "SABM"
      BY <1>3, <3>1
    <3> QED BY <3>2 DEF Sabms
  <2> QED BY <1>1, <1>2, <2>1, <2>2, <2>3 DEF PhaseInv
<1>5. AckInv'
  <2> SUFFICES ASSUME NEW i \in DOMAIN toNode', toNode'[i].type # "SABM"
               PROVE  /\ link'.state \in Up =>
                           /\ D(toNode[i].nr)' <= D(link.vs)'
                           /\ toNode'[i].type = "REJ" => D(toNode[i].nr)' < D(link.vs)'
                           /\ \A j \in DOMAIN toNode' :
                                i < j /\ toNode'[j].type # "SABM" => D(toNode[i].nr)' <= D(toNode[j].nr)'
                      /\ cut' = NULL => D(toNode[i].nr)' <= D(peer.expect)'
    BY DEF AckInv
  <2>1. toNode[i + k].type # "SABM" /\ i + k \in DOMAIN toNode
    BY <1>3
  <2>2. /\ link.state \in Up =>
             /\ D(toNode[i + k].nr) <= D(link.vs)
             /\ toNode[i + k].type = "REJ" => D(toNode[i + k].nr) < D(link.vs)
             /\ \A j \in DOMAIN toNode :
                  i + k < j /\ toNode[j].type # "SABM" => D(toNode[i + k].nr) <= D(toNode[j].nr)
        /\ cut = NULL => D(toNode[i + k].nr) <= D(peer.expect)
    BY <1>1, <2>1 DEF AckInv
  <2> QED BY <1>3, <2>2 DEF D
<1>6. OrderInv'
  <2>1. \A i, j \in LiveData' : i < j /\ D(toPeer[j].ns)' <= D(toPeer[i].ns)' =>
          /\ peer'.rejecting
          /\ \A h \in LiveData' : h <= i => D(peer.expect)' < D(toPeer[h].ns)'
    BY <1>1, <1>2 DEF OrderInv, D
  <2>2. ASSUME cut' = NULL, NEW i \in DOMAIN toNode', toNode'[i].type = "REJ"
        PROVE  /\ peer'.rejecting /\ toNode'[i].nr = peer'.expect
               /\ D(peer.expect)' < D(link.vs)'
               /\ \A h \in LiveData' : D(peer.expect)' < D(toPeer[h].ns)'
               /\ \A j \in DOMAIN toNode' : toNode'[j].type = "REJ" => i = j
    <3>1. toNode[i + k].type = "REJ" /\ i + k \in DOMAIN toNode
      BY <1>3, <2>2
    <3>2. /\ peer.rejecting /\ toNode[i + k].nr = peer.expect
          /\ D(peer.expect) < D(link.vs)
          /\ \A h \in LiveData : D(peer.expect) < D(toPeer[h].ns)
          /\ \A j \in DOMAIN toNode : toNode[j].type = "REJ" => i + k = j
      BY <1>1, <2>2, <3>1 DEF OrderInv
    <3>3. \A j \in DOMAIN toNode' : toNode'[j].type = "REJ" => i = j
      BY <1>3, <3>2
    <3>4. peer'.rejecting /\ toNode'[i].nr = peer'.expect /\ D(peer.expect)' < D(link.vs)'
      BY <1>3, <3>2 DEF D
    <3>5. \A h \in LiveData' : D(peer.expect)' < D(toPeer[h].ns)'
      BY <1>2, <3>2 DEF D
    <3> QED BY <3>3, <3>4, <3>5
  <2> QED BY <2>1, <2>2 DEF OrderInv
<1>7. ASSUME NEW w, DataInv(w) PROVE DataInv(w)'
  BY <1>2, <1>7 DEF DataInv, D
<1> QED BY <1>2, <1>4, <1>5, <1>6, <1>7

LEMMA QuietNode ==
  ASSUME IInv, NEW L, Good(L, TRUE), Steady(link, L) \/ GivesUp(link, L),
         NEW taken \in {0, 1}, taken <= seizes, NodeStep(L, taken),
         NEW k \in {0, 1}, Behead(toNode, toNode', k), toNode' \in Seq(NodeAir),
         cut' = cut, given' = given
  PROVE  IInv'
<1>1. /\ LinkInv /\ Idle(link) /\ AirInv /\ PeerInv /\ ReceivedInv
      /\ link.up = <<>> /\ link.out = <<>> /\ link.state \in {"disconnected"} \cup Up
      /\ ~link.peer_receiver_busy /\ ~link.radio_channel_busy
  BY DEF IInv, LinkInv, Idle
<1>2. <<>> \in Seq(Msgs) /\ <<>> \in Seq(Replies)
  BY SMT
<1>3. /\ L.state \in {"disconnected"} \cup Up /\ L.out \in Seq(Replies) /\ L.up \in Seq(Msgs)
      /\ ~L.peer_receiver_busy /\ ~L.radio_channel_busy
      /\ L.va = link.va /\ L.vs = link.vs /\ L.txdata_by_ns = link.txdata_by_ns
      /\ L.state \in Up => link.state \in Up
      /\ \/ L.i_frame_queue = link.i_frame_queue /\ (link.state \in Up => L.state \in Up)
         \/ L.i_frame_queue = <<>> /\ L.state = "disconnected"
  BY <1>1, <1>2, UpOrNot DEF Steady, GoesOn, GivesUp
<1>4. /\ LinkInv'
      /\ seizes' \in 0 .. MaxSeize /\ delivered' \in Seq(Msgs)
      /\ toPeer' = toPeer \o L.out
      /\ load' = load /\ peer' = peer /\ received' = received
      /\ link'.state = L.state /\ link'.vs = L.vs /\ link'.va = L.va
      /\ link'.i_frame_queue = L.i_frame_queue /\ link'.txdata_by_ns = L.txdata_by_ns
  BY <1>3, NodeKept
<1>5. /\ toPeer' \in Seq(PeerAir)
      /\ PhaseInv' /\ AckInv' /\ OrderInv'
      /\ \A w : DataInv(w) => DataInv(w)'
  BY <1>3, <1>4, QuietStep
<1>6. AirInv'
  BY <1>5 DEF AirInv
<1>7. PeerInv'
  BY <1>1, <1>4 DEF PeerInv
<1>8. /\ given \in Nat /\ Len(link.i_frame_queue) \in Nat /\ Len(<<>>) = 0
  <2>1. link.i_frame_queue \in Seq(Msgs)
    BY <1>1 DEF Idle, Good, Typed
  <2>2. given \in Nat
    BY <1>1, DeliveryAssumption, SMT DEF PeerInv
  <2> QED BY <2>1, <2>2, SMT
<1>9. \/ link'.i_frame_queue = link.i_frame_queue /\ (link'.state \in Up <=> link.state \in Up)
      \/ link'.i_frame_queue = <<>> /\ link'.state \notin Up
  BY <1>3, <1>4, UpOrNot
<1>10. ReceivedInv'
  <2>1. \A i \in DOMAIN received : received[i] \in Int
    <3>1. received \in Seq(Msgs) /\ Msgs \subseteq Int
      BY <1>1, DeliveryAssumption, SMT DEF PeerInv
    <3>2. \A i \in DOMAIN received : received[i] \in Msgs
      BY <3>1, SMT
    <3> QED BY <3>1, <3>2
  <2>2. CASE link'.i_frame_queue = link.i_frame_queue
    BY <1>1, <1>4, <2>2 DEF ReceivedInv
  <2>3. CASE link'.i_frame_queue = <<>>
    BY <1>1, <1>4, <1>8, <2>1, <2>3, SMT DEF ReceivedInv
  <2> QED BY <1>9, <2>2, <2>3
<1>11. ASSUME NEW w \in Nat, SentInv(w) PROVE SentInv(w)'
  <2>1. CASE link'.i_frame_queue = link.i_frame_queue /\ (link'.state \in Up <=> link.state \in Up)
    BY <1>3, <1>4, <1>11, <2>1 DEF SentInv, D
  <2>2. CASE link'.i_frame_queue = <<>> /\ link'.state \notin Up
    <3>1. w + D(link.vs) <= given
      <4>1. D(link.vs) \in Int
        BY <1>1, Distances, LinkAssumption, SMT
      <4> QED BY <1>8, <1>11, <4>1, SMT DEF SentInv
    <3>2. w + D(link.vs)' <= given' - Len(link'.i_frame_queue)
      BY <1>3, <1>4, <1>8, <2>2, <3>1, SMT DEF D
    <3>3. DOMAIN link'.i_frame_queue = {}
      BY <2>2, SMT
    <3>4. \A x \in SeqNo : D(x)' < D(link.vs)' => link'.txdata_by_ns[x] = w + D(x)'
      BY <1>3, <1>4, <1>11 DEF SentInv, D
    <3> QED BY <2>2, <3>2, <3>3, <3>4 DEF SentInv
  <2> QED BY <1>9, <2>1, <2>2
<1>12. \E w \in Nat : SentInv(w)' /\ DataInv(w)'
  BY <1>5, <1>11 DEF IInv
<1> QED BY <1>4, <1>5, <1>6, <1>7, <1>10, <1>12 DEF IInv

\* The link as it is between events.
LEMMA LinkNow ==
  ASSUME IInv
  PROVE  /\ Idle(link) /\ Good(link, TRUE)
         /\ Behead(toNode, toNode, 0) /\ toNode \in Seq(NodeAir)
         /\ 0 <= seizes
<1>1. Idle(link) /\ Good(link, TRUE) /\ toNode \in Seq(NodeAir) /\ seizes \in 0 .. MaxSeize
  BY DEF IInv, LinkInv, Idle, AirInv, PeerInv
<1>2. 0 <= seizes
  BY <1>1, DeliveryAssumption, SMT
<1> QED BY <1>1, <1>2, Beheaded

LEMMA TimersKeep == IInv /\ NodeTimer => IInv'
<1> SUFFICES ASSUME IInv, NodeTimer PROVE IInv'
  OBVIOUS
<1>1. /\ Idle(link) /\ Good(link, TRUE) /\ 0 <= seizes
      /\ Behead(toNode, toNode, 0) /\ toNode \in Seq(NodeAir)
  BY LinkNow
<1>2. given' = given /\ toNode' = toNode /\ cut' = cut
  BY DEF NodeTimer
<1>3. Good(ExpireT1(link), TRUE) /\ Good(ExpireT3(link), TRUE)
  BY <1>1, TimersExpire
<1>4. NodeStep(ExpireT1(link), 0) \/ NodeStep(ExpireT3(link), 0)
  BY DEF NodeTimer
<1> QED BY <1>1, <1>2, <1>3, <1>4, TimerRunsOut, QuietNode

\* Frames that a link without connection takes no notice of.
LEMMA UnnoticedKeep ==
  ASSUME IInv, NodeReceive, Head(toNode).type # "SABM", link.state = "disconnected"
  PROVE  IInv'
<1>1. /\ Idle(link) /\ Good(link, TRUE) /\ 0 <= seizes /\ toNode \in Seq(NodeAir) /\ toNode # <<>>
  BY LinkNow DEF NodeReceive
<1>2. Behead(toNode, toNode', 1) /\ toNode' \in Seq(NodeAir) /\ Head(toNode) \in NodeAir
  BY <1>1, Beheaded, Shortened DEF NodeReceive
<1>3. Receivable(Head(toNode)) /\ Head(toNode).type \in {"I", "RR", "REJ"}
  BY <1>2, SMT DEF Receivable, NodeAir, Frames
<1>4. lm_data_indication(link, Head(toNode)) = link
  BY <1>1, <1>3, Unnoticed
<1>5. NodeStep(link, 0) /\ cut' = cut /\ given' = given
  BY <1>4 DEF NodeReceive
<1>6. Steady(link, link)
  BY DEF Steady, GoesOn
<1> QED BY <1>1, <1>2, <1>5, <1>6, QuietNode

-----------------------------------------------------------------------------
(* Acknowledgements.                                                         *)

\* With V(A) gone on to nr, all distances from there on are less by that of nr.
LEMMA Nearer ==
  ASSUME LinkInv, LinkInv', NEW nr \in SeqNo, D(nr) <= D(link.vs),
         link'.va = nr, link'.vs = link.vs
  PROVE  /\ \A x \in SeqNo : D(nr) <= D(x) => D(x)' = D(x) - D(nr)
         /\ \A x \in SeqNo : D(x)' < D(link.vs)' => D(nr) <= D(x) /\ D(x) < D(link.vs)
<1>1. /\ link.va \in SeqNo /\ link.vs \in SeqNo
      /\ \A x \in SeqNo : D(x) \in 0 .. Modulo - 1
  BY Distances
<1>2. \A x \in SeqNo : Minus(x, nr) = IF D(nr) <= D(x) THEN D(x) - D(nr)
                                      ELSE D(x) + Modulo - D(nr)
  BY <1>1, Ahead DEF D
<1>3. D(link.vs)' = D(link.vs) - D(nr)
  BY <1>1, <1>2 DEF D
<1>4. \A x \in SeqNo : D(x)' = Minus(x, nr)
  BY DEF D
<1>5. \A x \in SeqNo : D(nr) <= D(x) => D(x)' = D(x) - D(nr)
  BY <1>2, <1>4
<1>6. ASSUME NEW x \in SeqNo, D(x)' < D(link.vs)'
      PROVE  D(nr) <= D(x) /\ D(x) < D(link.vs)
  <2> DEFINE d == D(x)
             n == D(nr)
             v == D(link.vs)
  <2>1. d \in 0 .. Modulo - 1 /\ n \in 0 .. Modulo - 1 /\ v \in 0 .. Modulo - 1
    BY <1>1
  <2>2. (IF n <= d THEN d - n ELSE d + Modulo - n) < v - n
    BY <1>2, <1>3, <1>4, <1>6
  <2> HIDE DEF d, n, v
  <2>3. n <= d /\ d < v
    BY <2>1, <2>2, LinkAssumption, SMT
  <2> QED BY <2>3 DEF d, n, v
<1> QED BY <1>5, <1>6

\* What a frame that acknowledges up to nr leaves as it was.
Advanced(nr) ==
  /\ link'.va = nr /\ link'.vs = link.vs
  /\ link'.state \in Up /\ link'.i_frame_queue = link.i_frame_queue
  /\ \A x \in SeqNo : Minus(x, nr) < Minus(link.vs, nr) =>
                      link'.txdata_by_ns[x] = link.txdata_by_ns[x]

LEMMA AckStep ==
  ASSUME IInv, LinkInv', link.state \in Up, toNode # <<>>, NEW f, f = Head(toNode),
         f.type # "SABM", Advanced(f.nr), toNode' = Tail(toNode),
         Uas' = Uas, peer' = peer, cut' = cut, received' = received, given' = given
  PROVE  /\ PhaseInv' /\ AckInv' /\ ReceivedInv'
         /\ f.nr \in SeqNo /\ D(f.nr) <= D(link.vs)
         /\ cut = NULL => peer.state # "connecting" /\ D(f.nr) <= D(peer.expect)
         /\ \A w, n \in Nat : n = D(f.nr) /\ SentInv(w) => SentInv(w + n)'
<1>1. /\ LinkInv /\ AirInv /\ PhaseInv /\ AckInv /\ ReceivedInv
  BY DEF IInv
<1>2. /\ toNode \in Seq(NodeAir) /\ Len(toNode) \in Nat \ {0} /\ DOMAIN toNode = 1 .. Len(toNode)
      /\ Len(toNode') = Len(toNode) - 1 /\ DOMAIN toNode' = 1 .. Len(toNode) - 1
      /\ \A i \in 1 .. Len(toNode) - 1 : toNode'[i] = toNode[i + 1]
      /\ f = toNode[1] /\ f \in NodeAir
  BY <1>1, Shortened DEF AirInv
<1>3. f.nr \in SeqNo /\ 1 \in DOMAIN toNode
  BY <1>2, SMT DEF NodeAir, Frames
<1>4. /\ link.va \in SeqNo /\ link.vs \in SeqNo
      /\ \A x \in SeqNo : D(x) \in 0 .. Modulo - 1
  BY <1>1, Distances
<1>5. /\ D(f.nr) <= D(link.vs)
      /\ \A j \in DOMAIN toNode : 1 < j /\ toNode[j].type # "SABM" => D(f.nr) <= D(toNode[j].nr)
      /\ cut = NULL => D(f.nr) <= D(peer.expect)
  BY <1>1, <1>2, <1>3 DEF AckInv
<1>6. /\ \A x \in SeqNo : D(f.nr) <= D(x) => D(x)' = D(x) - D(f.nr)
      /\ \A x \in SeqNo : D(x)' < D(link.vs)' => D(f.nr) <= D(x) /\ D(x) < D(link.vs)
  BY <1>1, <1>3, <1>5, Nearer DEF Advanced
<1>7. /\ D(link.vs)' = D(link.vs) - D(f.nr)
      /\ D(link.vs) \in Int /\ D(f.nr) \in Nat
  <2>1. Minus(link.vs, f.nr) = D(link.vs) - D(f.nr)
    BY <1>4, <1>5, <1>6 DEF D, Advanced
  <2>2. D(link.vs) \in 0 .. Modulo - 1 /\ D(f.nr) \in 0 .. Modulo - 1
    BY <1>3, <1>4
  <2> QED BY <2>1, <2>2, LinkAssumption, SMT DEF D, Advanced
<1>8. cut = NULL => peer.state # "connecting"
  BY <1>1, <1>2, <1>3 DEF PhaseInv, Sabms
<1>9. \A i \in DOMAIN toNode' : i + 1 \in DOMAIN toNode /\ 1 < i + 1 /\ toNode'[i] = toNode[i + 1]
  BY <1>2, SMT
<1>10. PhaseInv'
  <2>1. Sabms' \subseteq {Len(toNode')}
    <3> SUFFICES ASSUME NEW i \in Sabms' PROVE i = Len(toNode')
      OBVIOUS
    <3>1. i \in DOMAIN toNode' /\ i + 1 \in Sabms
      BY <1>9 DEF Sabms
    <3>2. i + 1 = Len(toNode)
      BY <1>1, <3>1 DEF PhaseInv
    <3> QED BY <1>2, <3>1, <3>2, SMT
  <2>2. Sabms = {} => Sabms' = {}
    BY <1>9 DEF Sabms
  <2> QED BY <1>1, <1>8, <2>1, <2>2 DEF PhaseInv
<1>11. AckInv'
  <2> SUFFICES ASSUME NEW i \in DOMAIN toNode', toNode'[i].type # "SABM"
               PROVE  /\ D(toNode[i].nr)' <= D(link.vs)'
                      /\ toNode'[i].type = "REJ" => D(toNode[i].nr)' < D(link.vs)'
                      /\ \A j \in DOMAIN toNode' :
                           i < j /\ toNode'[j].type # "SABM" => D(toNode[i].nr)' <= D(toNode[j].nr)'
                      /\ cut' = NULL => D(toNode[i].nr)' <= D(peer.expect)'
    BY DEF AckInv
  <2> DEFINE d(j) == D(toNode[j + 1].nr)
             n == D(f.nr)
             e == D(peer.expect)
  <2>1. \A j \in DOMAIN toNode' : toNode'[j].nr \in SeqNo
    <3> TAKE j \in DOMAIN toNode'
    <3>1. toNode[j + 1] \in NodeAir
      BY <1>2, <1>9, SMT
    <3> QED BY <1>9, <3>1, SMT DEF NodeAir, Frames
  <2>2. \A j \in DOMAIN toNode' : toNode'[j].type # "SABM" =>
          D(toNode[j].nr)' = d(j) - n /\ n <= d(j) /\ d(j) \in Int
    <3> TAKE j \in DOMAIN toNode'
    <3> SUFFICES ASSUME toNode'[j].type # "SABM"
                 PROVE  D(toNode[j].nr)' = d(j) - n /\ n <= d(j) /\ d(j) \in Int
      OBVIOUS
    <3>1. toNode[j + 1].nr \in SeqNo /\ toNode[j + 1].type # "SABM" /\ n <= d(j)
      BY <1>5, <1>9, <2>1
    <3>2. D(toNode[j].nr)' = Minus(toNode[j + 1].nr, f.nr)
      BY <1>9 DEF D, Advanced
    <3>3. Minus(toNode[j + 1].nr, f.nr) = d(j) - n
      BY <1>6, <3>1 DEF D, Advanced
    <3>4. d(j) \in 0 .. Modulo - 1
      BY <1>4, <3>1
    <3> QED BY <3>1, <3>2, <3>3, <3>4, LinkAssumption, SMT
  <2>3. /\ d(i) <= D(link.vs)
        /\ toNode[i + 1].type = "REJ" => d(i) < D(link.vs)
        /\ \A j \in DOMAIN toNode' :
             i + 1 < j + 1 /\ toNode[j + 1].type # "SABM" => d(i) <= d(j)
        /\ cut = NULL => d(i) <= e
    BY <1>1, <1>9 DEF AckInv
  <2>4. cut = NULL => D(peer.expect)' = e - n /\ e \in Int
    <3> SUFFICES ASSUME cut = NULL PROVE D(peer.expect)' = e - n /\ e \in Int
      OBVIOUS
    <3>1. peer.expect \in SeqNo
      BY SMT DEF IInv, PeerInv, Peer
    <3>2. Minus(peer.expect, f.nr) = e - n
      BY <1>5, <1>6, <3>1 DEF D, Advanced
    <3>3. e \in 0 .. Modulo - 1
      BY <1>4, <3>1
    <3> QED BY <3>2, <3>3, LinkAssumption, SMT DEF D, Advanced
  <2>5. \A j \in DOMAIN toNode' : i < j => i + 1 < j + 1
    BY <1>2, SMT
  <2> HIDE DEF d, n, e
  <2>6. D(link.vs)' = D(link.vs) - n /\ D(link.vs) \in Int /\ n \in Int
    BY <1>7, SMT DEF n
  <2>7. /\ D(toNode[i].nr)' <= D(link.vs)'
        /\ toNode'[i].type = "REJ" => D(toNode[i].nr)' < D(link.vs)'
        /\ cut' = NULL => D(toNode[i].nr)' <= D(peer.expect)'
    <3>1. D(toNode[i].nr)' = d(i) - n /\ d(i) \in Int
      BY <2>2
    <3> QED BY <1>9, <2>3, <2>4, <2>6, <3>1, SMT
  <2>8. ASSUME NEW j \in DOMAIN toNode', i < j, toNode'[j].type # "SABM"
        PROVE  D(toNode[i].nr)' <= D(toNode[j].nr)'
    <3>1. D(toNode[i].nr)' = d(i) - n /\ D(toNode[j].nr)' = d(j) - n /\ d(i) \in Int /\ d(j) \in Int
      BY <2>2, <2>8
    <3>2. d(i) <= d(j)
      BY <1>9, <2>3, <2>5, <2>8
    <3> QED BY <2>6, <3>1, <3>2, SMT
  <2> QED BY <2>7, <2>8
<1>12. ReceivedInv'
  BY <1>1 DEF ReceivedInv, Advanced
<1>13. ASSUME NEW w \in Nat, NEW n \in Nat, n = D(f.nr), SentInv(w) PROVE SentInv(w + n)'
  <2>1. w + n + D(link.vs)' = w + D(link.vs)
    BY <1>7, <1>13, SMT
  <2>2. ASSUME NEW x \in SeqNo, D(x)' < D(link.vs)'
        PROVE  link'.txdata_by_ns[x] = w + n + D(x)'
    <3>1. n <= D(x) /\ D(x) < D(link.vs) /\ D(x)' = D(x) - n /\ D(x) \in 0 .. Modulo - 1
      BY <1>4, <1>6, <1>13, <2>2
    <3>2. link'.txdata_by_ns[x] = link.txdata_by_ns[x]
      BY <2>2 DEF D, Advanced
    <3>3. link.txdata_by_ns[x] = w + D(x)
      BY <1>13, <3>1 DEF SentInv
    <3> QED BY <1>7, <3>1, <3>2, <3>3, LinkAssumption, SMT
  <2>3. /\ w + n + D(link.vs)' <= given' - Len(link'.i_frame_queue)
        /\ link'.state \in Up => w + n + D(link.vs)' = given' - Len(link'.i_frame_queue)
    BY <1>13, <2>1 DEF SentInv, Advanced
  <2>4. \A i \in DOMAIN link'.i_frame_queue :
          link'.i_frame_queue[i] = given' - Len(link'.i_frame_queue) + i - 1
    BY <1>13 DEF SentInv, Advanced
  <2> QED BY <2>2, <2>3, <2>4 DEF SentInv
<1> QED BY <1>3, <1>5, <1>8, <1>10, <1>11, <1>12, <1>13

LEMMA LiveUncut ==
  ASSUME AirInv, PhaseInv
  PROVE  \A i \in LiveData : cut = NULL /\ toPeer[i].ns \in SeqNo /\ i \in DOMAIN toPeer
<1> TAKE i \in LiveData
<1>1. cut = NULL
  BY DEF LiveData, PhaseInv, Uas
<1>2. i \in DOMAIN toPeer /\ toPeer[i] \in PeerAir
  BY SMT DEF LiveData, AirInv
<1> QED BY <1>1, <1>2, SMT DEF PeerAir, Frames

\* I and RR frames: nothing new for the peer to take.
LEMMA AckQuiet ==
  ASSUME IInv, LinkInv', link.state \in Up, toNode # <<>>, NEW f, f = Head(toNode),
         f.type # "SABM", Advanced(f.nr), toNode' = Tail(toNode),
         NEW o \in Seq(Replies), toPeer' = toPeer \o o,
         peer' = peer, cut' = cut, received' = received, given' = given
  PROVE  /\ toPeer' \in Seq(PeerAir) /\ PhaseInv' /\ AckInv' /\ OrderInv' /\ ReceivedInv'
         /\ \E w \in Nat : SentInv(w)' /\ DataInv(w)'
<1>1. LinkInv /\ AirInv /\ PhaseInv /\ OrderInv /\ peer.expect \in SeqNo
  BY SMT DEF IInv, PeerInv, Peer
<1>2. /\ toPeer' \in Seq(PeerAir)
      /\ Uas' = Uas /\ LiveData' = LiveData /\ \A i \in LiveData : toPeer'[i] = toPeer[i]
  BY <1>1, QuietAir
<1>3. /\ PhaseInv' /\ AckInv' /\ ReceivedInv'
      /\ f.nr \in SeqNo /\ D(f.nr) <= D(link.vs)
      /\ cut = NULL => peer.state # "connecting" /\ D(f.nr) <= D(peer.expect)
      /\ \A w, n \in Nat : n = D(f.nr) /\ SentInv(w) => SentInv(w + n)'
  BY <1>2, AckStep
<1>4. /\ link.va \in SeqNo /\ link.vs \in SeqNo
      /\ \A x \in SeqNo : D(x) \in 0 .. Modulo - 1
  BY <1>1, Distances
<1>5. PICK n \in 0 .. Modulo - 1 : n = D(f.nr)
  BY <1>3, <1>4
<1>6. PICK w \in Nat : SentInv(w) /\ DataInv(w)
  BY DEF IInv
<1>7. /\ n \in Nat /\ w + n \in Nat
  BY <1>5, <1>6, LinkAssumption, SMT
<1>8. \A x \in SeqNo : n <= D(x) => D(x)' = D(x) - n
  BY <1>1, <1>3, <1>5, Nearer DEF Advanced
<1>9. D(link.vs)' = D(link.vs) - n
  BY <1>3, <1>4, <1>5, <1>8 DEF D, Advanced
<1>10. cut = NULL => D(peer.expect)' = D(peer.expect) - n
  BY <1>1, <1>3, <1>5, <1>8 DEF D
<1>11. ASSUME NEW i \in LiveData
       PROVE  /\ D(toPeer[i].ns)' = D(toPeer[i].ns) - n
              /\ D(toPeer[i].ns) \in Int /\ D(peer.expect) \in Int /\ cut = NULL
  <2>1. cut = NULL /\ toPeer[i].ns \in SeqNo
    BY <1>1, LiveUncut
  <2>2. D(peer.expect) <= D(toPeer[i].ns)
    BY <1>6 DEF DataInv
  <2>3. D(toPeer[i].ns) \in 0 .. Modulo - 1 /\ D(peer.expect) \in 0 .. Modulo - 1
    BY <1>1, <1>4, <2>1
  <2>4. n <= D(toPeer[i].ns)
    BY <1>3, <1>5, <1>7, <2>1, <2>2, <2>3, LinkAssumption, SMT
  <2>5. Minus(toPeer[i].ns, link'.va) = D(toPeer[i].ns) - n
    BY <1>8, <2>1, <2>4 DEF D
  <2>6. D(toPeer[i].ns)' = Minus(toPeer'[i].ns, link'.va) /\ toPeer'[i] = toPeer[i]
    BY <1>2 DEF D
  <2>7. D(toPeer[i].ns) \in Int /\ D(peer.expect) \in Int
    BY <2>3, SMT
  <2> QED BY <2>1, <2>5, <2>6, <2>7
<1>12. DataInv(w + n)'
  <2>1. ASSUME NEW i \in LiveData'
        PROVE  /\ toPeer'[i].msg = w + n + D(toPeer[i].ns)'
               /\ D(peer.expect)' <= D(toPeer[i].ns)'
               /\ D(toPeer[i].ns)' < D(link.vs)'
    <3>1. i \in LiveData /\ toPeer'[i] = toPeer[i]
      BY <1>2
    <3>2. /\ toPeer[i].msg = w + D(toPeer[i].ns)
          /\ D(peer.expect) <= D(toPeer[i].ns) /\ D(toPeer[i].ns) < D(link.vs)
      BY <1>6, <3>1 DEF DataInv
    <3>3. D(link.vs) \in Int
      BY <1>4, LinkAssumption, SMT
    <3>4. D(toPeer[i].ns)' = D(toPeer[i].ns) - n /\ D(toPeer[i].ns) \in Int
          /\ D(peer.expect) \in Int /\ cut = NULL
      BY <1>11, <3>1
    <3> QED BY <1>7, <1>9, <1>10, <3>1, <3>2, <3>3, <3>4, SMT
  <2>2. ASSUME cut' = NULL
        PROVE  /\ D(peer.expect)' <= D(link.vs)'
               /\ \A i \in DOMAIN received' : received'[i] < w + n + D(peer.expect)'
    <3>1. /\ D(peer.expect) <= D(link.vs)
          /\ \A i \in DOMAIN received : received[i] < w + D(peer.expect)
      BY <1>6, <2>2 DEF DataInv
    <3>2. D(peer.expect) \in Int /\ D(link.vs) \in Int
      BY <1>1, <1>4, LinkAssumption, SMT
    <3>3. w + n + D(peer.expect)' = w + D(peer.expect)
      BY <1>7, <1>10, <2>2, <3>2, SMT
    <3>4. D(peer.expect)' <= D(link.vs)'
      BY <1>7, <1>9, <1>10, <2>2, <3>1, <3>2, SMT
    <3> QED BY <3>1, <3>3, <3>4
  <2> QED BY <2>1, <2>2 DEF DataInv
<1>13. OrderInv'
  <2>1. ASSUME NEW i \in LiveData', NEW j \in LiveData', i < j,
               D(toPeer[j].ns)' <= D(toPeer[i].ns)'
        PROVE  /\ peer'.rejecting
               /\ \A h \in LiveData' : h <= i => D(peer.expect)' < D(toPeer[h].ns)'
    <3>1. \A h \in LiveData' : /\ h \in LiveData
                               /\ D(toPeer[h].ns)' = D(toPeer[h].ns) - n
                               /\ D(toPeer[h].ns) \in Int
      BY <1>2, <1>11
    <3>2. cut = NULL /\ D(peer.expect) \in Int
      BY <1>2, <1>11
    <3>6. /\ D(toPeer[i].ns)' = D(toPeer[i].ns) - n /\ D(toPeer[i].ns) \in Int
          /\ D(toPeer[j].ns)' = D(toPeer[j].ns) - n /\ D(toPeer[j].ns) \in Int
      BY <2>1, <3>1
    <3>3. D(toPeer[j].ns) <= D(toPeer[i].ns)
      BY <1>7, <2>1, <3>6, SMT
    <3>4. peer.rejecting /\ \A h \in LiveData : h <= i => D(peer.expect) < D(toPeer[h].ns)
      BY <1>1, <2>1, <3>1, <3>3 DEF OrderInv
    <3>5. ASSUME NEW h \in LiveData', h <= i PROVE D(peer.expect)' < D(toPeer[h].ns)'
      <4>1. D(peer.expect) < D(toPeer[h].ns)
        BY <3>1, <3>4, <3>5
      <4>2. D(toPeer[h].ns)' = D(toPeer[h].ns) - n /\ D(toPeer[h].ns) \in Int
        BY <3>1, <3>5
      <4>3. D(peer.expect)' = D(peer.expect) - n
        BY <1>10, <3>2
      <4> QED BY <1>7, <3>2, <4>1, <4>2, <4>3, SMT
    <3> QED BY <3>4, <3>5
  <2>2. ASSUME cut' = NULL, NEW i \in DOMAIN toNode', toNode'[i].type = "REJ"
        PROVE  /\ peer'.rejecting /\ toNode'[i].nr = peer'.expect
               /\ D(peer.expect)' < D(link.vs)'
               /\ \A h \in LiveData' : D(peer.expect)' < D(toPeer[h].ns)'
               /\ \A j \in DOMAIN toNode' : toNode'[j].type = "REJ" => i = j
    <3>1. \A j \in DOMAIN toNode' : j + 1 \in DOMAIN toNode /\ toNode'[j] = toNode[j + 1]
                                    /\ (i = j <=> i + 1 = j + 1)
      <4>1. Behead(toNode, toNode', 1)
        BY <1>1, Beheaded DEF AirInv
      <4> QED BY <4>1, SMT DEF Behead
    <3>2. /\ peer.rejecting /\ toNode[i + 1].nr = peer.expect
          /\ D(peer.expect) < D(link.vs)
          /\ \A h \in LiveData : D(peer.expect) < D(toPeer[h].ns)
          /\ \A j \in DOMAIN toNode : toNode[j].type = "REJ" => i + 1 = j
      BY <1>1, <2>2, <3>1 DEF OrderInv
    <3>3. \A j \in DOMAIN toNode' : toNode'[j].type = "REJ" => i = j
      BY <3>1, <3>2
    <3>4. D(peer.expect) \in Int /\ D(link.vs) \in Int
      BY <1>1, <1>4, LinkAssumption, SMT
    <3>5. D(peer.expect)' < D(link.vs)'
      BY <1>7, <1>9, <1>10, <2>2, <3>2, <3>4, SMT
    <3>6. ASSUME NEW h \in LiveData' PROVE D(peer.expect)' < D(toPeer[h].ns)'
      <4>1. D(peer.expect) < D(toPeer[h].ns) /\ D(toPeer[h].ns)' = D(toPeer[h].ns) - n
            /\ D(toPeer[h].ns) \in Int
        BY <1>2, <1>11, <3>2
      <4> QED BY <1>7, <1>10, <2>2, <3>4, <4>1, SMT
    <3> QED BY <3>1, <3>2, <3>3, <3>5, <3>6
  <2> QED BY <2>1, <2>2 DEF OrderInv
<1> QED BY <1>2, <1>3, <1>6, <1>7, <1>5, <1>12, <1>13

-----------------------------------------------------------------------------
(* Data go on the air.                                                       *)

\* How far the number x is from V(A) after the step.
Then(x) == Minus(x, link'.va)

\* Without a connection nothing is for the peer to take.
LEMMA CutOff ==
  ASSUME PhaseInv, cut # NULL
  PROVE  LiveData = {} /\ Uas = {}
<1>1. Uas = {} /\ peer.state = "connecting"
  BY DEF PhaseInv
<1> QED BY <1>1 DEF LiveData

\* New I frames that go up from c follow those on the air.
LEMMA Growth ==
  ASSUME AirInv, NEW o \in Seq(PeerAir), \A i \in DOMAIN o : o[i].type # "UA",
         toPeer' = toPeer \o o, peer' = peer
  PROVE  /\ toPeer' \in Seq(PeerAir) /\ Uas' = Uas /\ Len(o) \in Nat
         /\ \A i, j \in LiveData' : i < j => i \in LiveData \/ j \notin LiveData
         /\ \A i \in LiveData' :
              \/ i \in LiveData /\ toPeer'[i] = toPeer[i]
              \/ i \notin LiveData /\ \E n \in 1 .. Len(o) :
                    i = Len(toPeer) + n /\ toPeer'[i] = o[n]
<1>1. toPeer \in Seq(PeerAir)
  BY DEF AirInv
<1>2. /\ toPeer' \in Seq(PeerAir) /\ Len(toPeer) \in Nat /\ Len(o) \in Nat
      /\ DOMAIN toPeer = 1 .. Len(toPeer) /\ DOMAIN toPeer' = 1 .. Len(toPeer) + Len(o)
      /\ \A i \in 1 .. Len(toPeer) : toPeer'[i] = toPeer[i]
      /\ \A i \in 1 .. Len(o) : toPeer'[Len(toPeer) + i] = o[i]
  <2> DEFINE t == toPeer \o o
  <2>1. /\ t \in Seq(PeerAir) /\ Len(toPeer) \in Nat /\ Len(o) \in Nat
        /\ DOMAIN toPeer = 1 .. Len(toPeer) /\ DOMAIN t = 1 .. Len(toPeer) + Len(o)
        /\ \A i \in 1 .. Len(toPeer) : t[i] = toPeer[i]
        /\ \A i \in 1 .. Len(o) : t[Len(toPeer) + i] = o[i]
    BY <1>1, Extended
  <2> HIDE DEF t
  <2>2. toPeer' = t
    BY DEF t
  <2> QED BY <2>1, <2>2
<1>3. \A i \in DOMAIN toPeer : i \in DOMAIN toPeer' /\ toPeer'[i] = toPeer[i] /\ i <= Len(toPeer)
  BY <1>2, SMT
<1>4. ASSUME NEW i \in DOMAIN toPeer', i \notin DOMAIN toPeer
      PROVE  \E n \in 1 .. Len(o) : i = Len(toPeer) + n /\ toPeer'[i] = o[n]
  <2> DEFINE n == i - Len(toPeer)
  <2>1. n \in 1 .. Len(o) /\ i = Len(toPeer) + n
    BY <1>2, <1>4, SMT
  <2> HIDE DEF n
  <2> QED BY <1>2, <2>1
<1>5. \A i \in 1 .. Len(o) : o[i].type # "UA"
  BY SMT
<1>6. Uas' = Uas
  <2>1. \A i \in DOMAIN toPeer' : toPeer'[i].type = "UA" => i \in DOMAIN toPeer
    BY <1>4, <1>5
  <2> QED BY <1>3, <2>1 DEF Uas
<1>7. \A i \in LiveData' : i \in DOMAIN toPeer => i \in LiveData
  BY <1>3, <1>6 DEF LiveData
<1>8. \A i \in LiveData : i \in DOMAIN toPeer
  BY DEF LiveData
<1>9. \A i \in LiveData' : i \in DOMAIN toPeer'
  BY DEF LiveData
<1>10. ASSUME NEW i \in LiveData', NEW j \in LiveData', i < j, i \notin LiveData
       PROVE  j \notin LiveData
  <2>1. PICK n \in 1 .. Len(o) : i = Len(toPeer) + n
    BY <1>4, <1>7, <1>9, <1>10
  <2>2. j \in LiveData => j <= Len(toPeer) /\ j \in 1 .. Len(toPeer)
    BY <1>2, <1>3, <1>8
  <2>3. i > Len(toPeer) /\ i \in Int
    BY <1>2, <2>1, SMT
  <2> QED BY <1>2, <1>10, <2>2, <2>3, SMT
<1> QED BY <1>2, <1>3, <1>4, <1>6, <1>7, <1>8, <1>9, <1>10

\* The frames o, from V(A) + c on and with the messages from w + c on, go with what
\* is on the air: V(S) will be v ahead of V(A), and what the peer expects e.
Fits(o, w, c, v, e) ==
  /\ v = Then(link'.vs) /\ e = Then(peer.expect) /\ e <= c /\ c + Len(o) <= v
  /\ \A i \in DOMAIN o : /\ o[i].type = "I" /\ Then(o[i].ns) = c + (i - 1)
                         /\ o[i].msg = w + Then(o[i].ns)
  /\ \A i \in LiveData : /\ Then(toPeer[i].ns) \in Nat
                         /\ toPeer[i].msg = w + Then(toPeer[i].ns)
                         /\ e <= Then(toPeer[i].ns) /\ Then(toPeer[i].ns) < v
  /\ \A i, j \in LiveData : i < j /\ Then(toPeer[j].ns) <= Then(toPeer[i].ns) =>
       peer.rejecting /\ \A h \in LiveData : h <= i => e < Then(toPeer[h].ns)
  /\ \/ \A i \in LiveData : Then(toPeer[i].ns) < c
     \/ peer.rejecting /\ \A i \in LiveData : e < Then(toPeer[i].ns)
  /\ \A i \in DOMAIN received : received[i] < w + e
  /\ \A i \in DOMAIN toNode' : toNode'[i].type = "REJ" =>
       /\ peer.rejecting /\ toNode'[i].nr = peer.expect /\ e < v /\ e < c
       /\ \A h \in LiveData : e < Then(toPeer[h].ns)
       /\ \A j \in DOMAIN toNode' : toNode'[j].type = "REJ" => i = j

LEMMA NewData ==
  ASSUME AirInv, NEW o \in Seq(PeerAir),
         toPeer' = toPeer \o o, peer' = peer, received' = received,
         NEW w \in Nat, NEW c \in Nat, NEW v \in Nat, NEW e \in Nat, Fits(o, w, c, v, e)
  PROVE  DataInv(w)' /\ OrderInv' /\ toPeer' \in Seq(PeerAir) /\ Uas' = Uas
<1> DEFINE d(i) == Then(toPeer'[i].ns)
<1> USE DEF Fits
<1>1. /\ toPeer' \in Seq(PeerAir) /\ Uas' = Uas /\ Len(o) \in Nat
      /\ \A i, j \in LiveData' : i < j => i \in LiveData \/ j \notin LiveData
      /\ \A i \in LiveData' :
           \/ i \in LiveData /\ toPeer'[i] = toPeer[i]
           \/ i \notin LiveData /\ \E n \in 1 .. Len(o) :
                 i = Len(toPeer) + n /\ toPeer'[i] = o[n]
  <2>1. \A i \in DOMAIN o : o[i].type # "UA"
    OBVIOUS
  <2> QED BY <2>1, Growth
<1>2. D(link.vs)' = v /\ D(peer.expect)' = e
  BY DEF D, Then
<1>3. ASSUME NEW i \in LiveData', i \in LiveData
      PROVE  d(i) = Then(toPeer[i].ns) /\ d(i) \in Nat /\ e <= d(i) /\ d(i) < v
  <2>1. toPeer'[i] = toPeer[i]
    BY <1>1, <1>3
  <2> QED BY <1>3, <2>1 DEF D, Then
<1>4. ASSUME NEW i \in LiveData', i \notin LiveData
      PROVE  \E n \in 1 .. Len(o) : /\ i = Len(toPeer) + n /\ d(i) = c + (n - 1)
                                    /\ toPeer'[i].msg = w + d(i)
  <2>1. PICK n \in 1 .. Len(o) : i = Len(toPeer) + n /\ toPeer'[i] = o[n]
    BY <1>1, <1>4
  <2>2. n \in DOMAIN o
    BY SMT
  <2> QED BY <2>1, <2>2 DEF D, Then
<1>5. ASSUME NEW i \in LiveData'
      PROVE  toPeer'[i].msg = w + d(i) /\ e <= d(i) /\ d(i) < v /\ d(i) \in Nat
  <2>1. CASE i \in LiveData
    <3>1. toPeer'[i] = toPeer[i]
      BY <1>1, <2>1
    <3> QED BY <1>3, <2>1, <3>1 DEF D, Then
  <2>2. CASE i \notin LiveData
    <3>1. PICK n \in 1 .. Len(o) : d(i) = c + (n - 1) /\ toPeer'[i].msg = w + d(i)
      BY <1>4, <2>2
    <3>2. n \in 1 .. Len(o)
      OBVIOUS
    <3> HIDE DEF d
    <3>3. e <= d(i) /\ d(i) < v /\ d(i) \in Nat
      BY <1>1, <3>1, SMT
    <3> QED BY <3>1, <3>3
  <2> QED BY <2>1, <2>2
<1>6. DataInv(w)'
  <2>1. e <= v
    BY <1>1, SMT
  <2>2. \A i \in LiveData' : d(i) = D(toPeer[i].ns)'
    BY DEF D, Then
  <2> HIDE DEF d
  <2> QED BY <1>2, <1>5, <2>1, <2>2 DEF DataInv
<1> HIDE DEF d
<1>7. ASSUME NEW i \in LiveData', NEW j \in LiveData', i < j, d(j) <= d(i)
      PROVE  peer'.rejecting /\ \A h \in LiveData' : h <= i => e < d(h)
  <2>1. CASE i \in LiveData /\ j \in LiveData
    <3>1. peer.rejecting /\ \A h \in LiveData : h <= i => e < Then(toPeer[h].ns)
      BY <1>3, <1>7, <2>1
    <3>2. \A h \in LiveData' : h <= i => h \in LiveData
      <4> SUFFICES ASSUME NEW h \in LiveData', h <= i, h \notin LiveData PROVE FALSE
        OBVIOUS
      <4>1. PICK n \in 1 .. Len(o) : h = Len(toPeer) + n
        BY <1>4
      <4>2. i \in 1 .. Len(toPeer) /\ Len(toPeer) \in Nat
        <5>1. i \in DOMAIN toPeer /\ toPeer \in Seq(PeerAir)
          BY <2>1 DEF LiveData, AirInv
        <5> QED BY <5>1, SMT
      <4> QED BY <1>1, <4>1, <4>2, SMT
    <3> QED BY <1>3, <3>1, <3>2
  <2>2. CASE i \in LiveData /\ j \notin LiveData
    <3>1. PICK n \in 1 .. Len(o) : d(j) = c + (n - 1)
      BY <1>4, <2>2
    <3>2. d(i) = Then(toPeer[i].ns) /\ d(i) \in Nat
      BY <1>3, <2>2
    <3>3. ~(Then(toPeer[i].ns) < c)
      BY <1>1, <1>7, <3>1, <3>2, SMT
    <3>4. peer.rejecting /\ \A h \in LiveData : e < Then(toPeer[h].ns)
      BY <2>2, <3>3
    <3>5. \A h \in LiveData' : h <= i => h \in LiveData
      <4> SUFFICES ASSUME NEW h \in LiveData', h <= i, h \notin LiveData PROVE FALSE
        OBVIOUS
      <4>1. PICK m \in 1 .. Len(o) : h = Len(toPeer) + m
        BY <1>4
      <4>2. i \in 1 .. Len(toPeer) /\ Len(toPeer) \in Nat
        <5>1. i \in DOMAIN toPeer /\ toPeer \in Seq(PeerAir)
          BY <2>2 DEF LiveData, AirInv
        <5> QED BY <5>1, SMT
      <4> QED BY <1>1, <4>1, <4>2, SMT
    <3> QED BY <1>3, <3>4, <3>5
  <2>3. CASE i \notin LiveData
    <3>1. j \notin LiveData
      BY <1>1, <1>7, <2>3
    <3>2. PICK n \in 1 .. Len(o) : i = Len(toPeer) + n /\ d(i) = c + (n - 1)
      BY <1>4, <2>3
    <3>3. PICK m \in 1 .. Len(o) : j = Len(toPeer) + m /\ d(j) = c + (m - 1)
      BY <1>4, <3>1
    <3>4. Len(toPeer) \in Nat
      BY SMT DEF AirInv
    <3> QED BY <1>1, <1>7, <3>2, <3>3, <3>4, SMT
  <2> QED BY <2>1, <2>2, <2>3
<1>8. ASSUME NEW i \in DOMAIN toNode', toNode'[i].type = "REJ"
      PROVE  /\ peer'.rejecting /\ toNode'[i].nr = peer'.expect /\ e < v
             /\ \A h \in LiveData' : e < d(h)
             /\ \A j \in DOMAIN toNode' : toNode'[j].type = "REJ" => i = j
  <2>1. /\ peer.rejecting /\ toNode'[i].nr = peer.expect /\ e < v /\ e < c
        /\ \A h \in LiveData : e < Then(toPeer[h].ns)
        /\ \A j \in DOMAIN toNode' : toNode'[j].type = "REJ" => i = j
    BY <1>8
  <2>2. ASSUME NEW h \in LiveData' PROVE e < d(h)
    <3>1. CASE h \in LiveData
      BY <1>3, <2>1, <3>1
    <3>2. CASE h \notin LiveData
      <4>1. PICK n \in 1 .. Len(o) : d(h) = c + (n - 1)
        BY <1>4, <3>2
      <4> QED BY <1>1, <2>1, <4>1, SMT
    <3> QED BY <3>1, <3>2
  <2> QED BY <2>1, <2>2
<1>9. OrderInv'
  <2>1. \A i : d(i) = D(toPeer[i].ns)'
    BY DEF D, Then, d
  <2> QED BY <1>2, <1>7, <1>8, <2>1 DEF OrderInv
<1>10. toPeer' \in Seq(PeerAir) /\ Uas' = Uas
  BY ONLY <1>1
<1> QED BY ONLY <1>6, <1>9, <1>10

\* What is sent again: everything from N(R) on.
Again(nr) ==
  [i \in 1 .. Minus(link.vs, nr) |->
     IFrame(link, AX25MODULO(nr + (i - 1)), link.txdata_by_ns[AX25MODULO(nr + (i - 1))])]

LEMMA AgainFrames ==
  ASSUME IInv, LinkInv', link.state \in Up, NEW nr \in SeqNo, D(nr) <= D(link.vs), Advanced(nr)
  PROVE  /\ Again(nr) \in Seq(PeerAir) /\ Len(Again(nr)) = D(link.vs)' /\ D(link.vs)' \in Nat
         /\ \A i \in DOMAIN Again(nr) :
              /\ Again(nr)[i].type = "I" /\ Then(Again(nr)[i].ns) = i - 1
              /\ \A w \in Nat : SentInv(w) => Again(nr)[i].msg = w + D(nr) + (i - 1)
<1> DEFINE m == Minus(link.vs, nr)
           x(i) == AX25MODULO(nr + (i - 1))
           g(i) == IFrame(link, x(i), link.txdata_by_ns[x(i)])
<1>1. /\ LinkInv /\ link.va \in SeqNo /\ link.vs \in SeqNo /\ Typed(link) /\ Windowed(link)
      /\ \A y \in SeqNo : D(y) \in 0 .. Modulo - 1
  <2>1. LinkInv
    BY DEF IInv
  <2> QED BY <2>1, Distances DEF LinkInv, Idle, Good
<1>2. m \in 0 .. Modulo - 1 /\ D(link.vs)' = m
  BY <1>1, Distance DEF D, Advanced
<1>3. \A y \in SeqNo : Minus(y, nr) < m =>
        D(nr) <= D(y) /\ D(y) < D(link.vs) /\ Minus(y, nr) = D(y) - D(nr)
  <2>1. /\ \A y \in SeqNo : D(nr) <= D(y) => D(y)' = D(y) - D(nr)
        /\ \A y \in SeqNo : D(y)' < D(link.vs)' => D(nr) <= D(y) /\ D(y) < D(link.vs)
    BY <1>1, Nearer DEF Advanced
  <2>2. \A y \in SeqNo : D(y)' = Minus(y, nr)
    BY DEF D, Advanced
  <2> QED BY <1>2, <2>1, <2>2
<1>4. m \in Nat /\ \A i \in 1 .. m : i - 1 \in 0 .. Modulo - 1 /\ i - 1 < m
  BY <1>2, LinkAssumption, SMT
<1> HIDE DEF m
<1>5. \A i \in 1 .. m : x(i) \in SeqNo /\ Minus(x(i), nr) = i - 1
  BY <1>4, Onward
<1> HIDE DEF x
<1>6. \A i \in 1 .. m : D(x(i)) = D(nr) + (i - 1) /\ D(x(i)) < D(link.vs)
  <2> TAKE i \in 1 .. m
  <2>1. x(i) \in SeqNo /\ Minus(x(i), nr) = i - 1 /\ i - 1 < m
    BY <1>4, <1>5
  <2>2. Minus(x(i), nr) = D(x(i)) - D(nr) /\ D(x(i)) < D(link.vs)
    BY <1>3, <2>1
  <2>3. D(x(i)) \in 0 .. Modulo - 1 /\ D(nr) \in 0 .. Modulo - 1
    BY <1>1, <2>1
  <2> QED BY <2>1, <2>2, <2>3, LinkAssumption, SMT
<1>7. \A i \in 1 .. m : g(i) \in PeerAir
  <2> TAKE i \in 1 .. m
  <2>1. x(i) \in SeqNo /\ D(x(i)) < D(link.vs)
    BY <1>5, <1>6
  <2>2. link.txdata_by_ns[x(i)] \in Msgs
    <3>1. link.txdata_by_ns[x(i)] # None
      BY <1>1, <2>1 DEF Windowed, D
    <3>2. link.txdata_by_ns[x(i)] \in Msgs \cup {None}
      BY <1>1, <2>1 DEF Typed, Slots
    <3> QED BY <3>1, <3>2
  <2>3. link.vr \in SeqNo
    BY <1>1 DEF Typed
  <2> QED BY <2>1, <2>2, <2>3, SMT DEF IFrame, Frame, Frames, FrameTypes, PeerAir
<1>8. \A i \in 1 .. m : g(i).type = "I" /\ g(i).ns = x(i) /\ g(i).msg = link.txdata_by_ns[x(i)]
  BY SMT DEF IFrame, Frame
<1> HIDE DEF g
<1>9. Again(nr) = [i \in 1 .. m |-> g(i)]
  BY DEF Again, m, g, x
<1>10. /\ Again(nr) \in Seq(PeerAir) /\ Len(Again(nr)) = m /\ DOMAIN Again(nr) = 1 .. m
       /\ \A i \in 1 .. m : Again(nr)[i] = g(i)
  BY <1>4, <1>7, <1>9, SMT
<1>11. \A i \in 1 .. m : Then(x(i)) = i - 1
  BY <1>5 DEF Then, Advanced
<1>12. ASSUME NEW i \in 1 .. m, NEW w \in Nat, SentInv(w)
       PROVE  link.txdata_by_ns[x(i)] = w + D(nr) + (i - 1)
  <2>1. link.txdata_by_ns[x(i)] = w + D(x(i))
    BY <1>5, <1>6, <1>12 DEF SentInv
  <2>2. D(nr) \in 0 .. Modulo - 1
    BY <1>1
  <2> QED BY <1>6, <2>1, <2>2, LinkAssumption, SMT
<1> QED BY <1>2, <1>4, <1>8, <1>10, <1>11, <1>12

LEMMA AckResend ==
  ASSUME IInv, LinkInv', link.state \in Up, toNode # <<>>, NEW f, f = Head(toNode),
         f.type = "REJ", Advanced(f.nr), toNode' = Tail(toNode),
         toPeer' = toPeer \o Again(f.nr),
         peer' = peer, cut' = cut, received' = received, given' = given
  PROVE  /\ toPeer' \in Seq(PeerAir) /\ PhaseInv' /\ AckInv' /\ OrderInv' /\ ReceivedInv'
         /\ \E w \in Nat : SentInv(w)' /\ DataInv(w)'
<1> DEFINE o == Again(f.nr)
<1>1. LinkInv /\ AirInv /\ PhaseInv /\ OrderInv /\ peer.expect \in SeqNo
  BY SMT DEF IInv, PeerInv, Peer
<1>2. /\ f.nr \in SeqNo /\ f = toNode[1] /\ 1 \in DOMAIN toNode /\ f.type # "SABM"
      /\ DOMAIN toNode = 1 .. Len(toNode) /\ Len(toNode) \in Nat
  <2>1. /\ toNode \in Seq(NodeAir) /\ f = toNode[1] /\ f \in NodeAir /\ Len(toNode) \in Nat \ {0}
        /\ DOMAIN toNode = 1 .. Len(toNode)
    BY <1>1, Shortened DEF AirInv
  <2> QED BY <2>1, SMT DEF NodeAir, Frames
<1>3. D(f.nr) <= D(link.vs)
  BY <1>2 DEF IInv, AckInv
<1>4. /\ o \in Seq(PeerAir) /\ Len(o) = D(link.vs)' /\ D(link.vs)' \in Nat
      /\ \A i \in DOMAIN o : /\ o[i].type = "I" /\ Then(o[i].ns) = i - 1
                             /\ \A w \in Nat : SentInv(w) => o[i].msg = w + D(f.nr) + (i - 1)
  BY <1>2, <1>3, AgainFrames
<1> HIDE DEF o
<1>5. toPeer' \in Seq(PeerAir) /\ Uas' = Uas
  <2>1. \A i \in DOMAIN o : o[i].type # "UA"
    BY <1>4
  <2> QED BY <1>1, <1>4, <2>1, Growth DEF o
<1>6. /\ PhaseInv' /\ AckInv' /\ ReceivedInv'
      /\ f.nr \in SeqNo /\ D(f.nr) <= D(link.vs)
      /\ cut = NULL => peer.state # "connecting" /\ D(f.nr) <= D(peer.expect)
      /\ \A w, n \in Nat : n = D(f.nr) /\ SentInv(w) => SentInv(w + n)'
  BY <1>2, <1>5, AckStep
<1>7. \A x \in SeqNo : D(x) \in 0 .. Modulo - 1
  BY <1>1, Distances
<1>8. PICK n \in 0 .. Modulo - 1 : n = D(f.nr)
  BY <1>2, <1>7
<1>9. PICK w \in Nat : SentInv(w) /\ DataInv(w)
  BY DEF IInv
<1>10. n \in Nat /\ w + n \in Nat
  BY <1>8, <1>9, LinkAssumption, SMT
<1>11. SentInv(w + n)'
  BY <1>6, <1>8, <1>9, <1>10
<1>12. DataInv(w + n)' /\ OrderInv'
  <2>1. CASE cut # NULL
    <3>1. LiveData' = {} /\ cut' # NULL
      <4>1. cut # NULL => LiveData = {} /\ Uas = {}
        BY <1>1, CutOff
      <4>2. peer.state = "connecting" /\ Uas' = {}
        BY <1>1, <1>5, <2>1, <4>1 DEF PhaseInv
      <4> QED BY <2>1, <4>2 DEF LiveData
    <3> QED BY <3>1 DEF DataInv, OrderInv
  <2>2. CASE cut = NULL
    <3>1. /\ peer.rejecting /\ f.nr = peer.expect
          /\ \A h \in LiveData : D(peer.expect) < D(toPeer[h].ns)
          /\ \A j \in DOMAIN toNode : toNode[j].type = "REJ" => j = 1
      BY <1>1, <1>2, <2>2 DEF OrderInv
    <3>2. /\ \A x \in SeqNo : D(f.nr) <= D(x) => D(x)' = D(x) - D(f.nr)
          /\ D(link.vs)' = D(link.vs) - D(f.nr)
      <4>1. \A x \in SeqNo : D(f.nr) <= D(x) => D(x)' = D(x) - D(f.nr)
        BY <1>1, <1>6, Nearer DEF Advanced
      <4>2. Minus(link.vs, link'.va) = D(link.vs) - D(f.nr)
        <5>1. link.vs \in SeqNo
          BY <1>1, Distances
        <5> QED BY <1>3, <4>1, <5>1 DEF D
      <4> QED BY <4>1, <4>2 DEF D, Advanced
    <3>3. Then(peer.expect) = 0
      <4>1. Then(peer.expect) = D(f.nr) - D(f.nr) /\ D(f.nr) \in Int
        <5>1. D(f.nr) \in Int
          BY <1>2, <1>7, LinkAssumption, SMT
        <5>2. D(f.nr) <= D(f.nr)
          BY <5>1, SMT
        <5> QED BY <3>1, <3>2, <5>1, <5>2, <1>2 DEF Then, D
      <4> QED BY <4>1, SMT
    <3>4. ASSUME NEW i \in LiveData
          PROVE  /\ Then(toPeer[i].ns) \in Nat /\ toPeer[i].msg = w + n + Then(toPeer[i].ns)
                 /\ 0 < Then(toPeer[i].ns) /\ Then(toPeer[i].ns) < D(link.vs)'
                 /\ Then(toPeer[i].ns) = D(toPeer[i].ns) - n /\ D(toPeer[i].ns) \in Int
      <4>1. toPeer[i].ns \in SeqNo
        BY <1>1, LiveUncut
      <4>2. /\ toPeer[i].msg = w + D(toPeer[i].ns) /\ D(toPeer[i].ns) < D(link.vs)
            /\ n < D(toPeer[i].ns)
        BY <1>8, <1>9, <3>1 DEF DataInv
      <4>3. D(toPeer[i].ns) \in 0 .. Modulo - 1 /\ D(link.vs) \in 0 .. Modulo - 1
        <5>1. link.vs \in SeqNo
          BY <1>1, Distances
        <5> QED BY <1>7, <4>1, <5>1
      <4>4. D(f.nr) <= D(toPeer[i].ns)
        BY <1>8, <4>2, <4>3, LinkAssumption, SMT
      <4>5. Then(toPeer[i].ns) = D(toPeer[i].ns) - n
        BY <1>8, <3>2, <4>1, <4>4 DEF Then, D
      <4>6. D(link.vs)' = D(link.vs) - n
        BY <1>8, <3>2
      <4>7. D(toPeer[i].ns) \in Int /\ D(link.vs) \in Int /\ w \in Int
        BY <4>3, <1>9, LinkAssumption, SMT
      <4>8. w + n + (D(toPeer[i].ns) - n) = w + D(toPeer[i].ns)
        BY <1>10, <4>7, SMT
      <4>9. /\ D(toPeer[i].ns) - n \in Nat /\ 0 < D(toPeer[i].ns) - n
            /\ D(toPeer[i].ns) - n < D(link.vs) - n
        BY <1>10, <4>2, <4>7, SMT
      <4> QED BY <4>2, <4>5, <4>6, <4>7, <4>8, <4>9
    <3>5. ASSUME NEW i \in LiveData, NEW j \in LiveData, i < j,
                 Then(toPeer[j].ns) <= Then(toPeer[i].ns)
          PROVE  peer.rejecting /\ \A h \in LiveData : h <= i => 0 < Then(toPeer[h].ns)
      BY <3>1, <3>4
    <3>6. \A i \in DOMAIN received : received[i] < w + n + 0
      <4>1. \A i \in DOMAIN received : received[i] < w + D(peer.expect)
        BY <1>9, <2>2 DEF DataInv
      <4>2. D(peer.expect) = n /\ w + n + 0 = w + n
        BY <1>8, <1>10, <3>1, SMT
      <4> QED BY <4>1, <4>2
    <3>7. \A i \in DOMAIN toNode' : toNode'[i].type # "REJ"
      <4>1. Behead(toNode, toNode', 1)
        BY <1>1, Beheaded DEF AirInv
      <4>2. \A i \in DOMAIN toNode' : i + 1 \in DOMAIN toNode /\ i + 1 # 1 /\ toNode'[i] = toNode[i + 1]
        BY <4>1, SMT DEF Behead
      <4> QED BY <3>1, <4>2
    <3>8. PICK v \in Nat : v = D(link.vs)'
      BY <1>4
    <3>9. PICK z \in Nat : z = 0 /\ z + Len(o) <= v /\ z <= z
      BY <1>4, <3>8, SMT
    <3>10. \A i \in DOMAIN o : Then(o[i].ns) = z + (i - 1) /\ o[i].msg = (w + n) + Then(o[i].ns)
      <4> SUFFICES ASSUME NEW i \in DOMAIN o
                   PROVE Then(o[i].ns) = z + (i - 1) /\ o[i].msg = (w + n) + Then(o[i].ns)
        OBVIOUS
      <4>1. Then(o[i].ns) = i - 1 /\ o[i].msg = w + n + (i - 1) /\ i \in Int
        <5>1. i \in Int
          BY <1>4, SMT
        <5> QED BY <1>4, <1>8, <1>9, <5>1
      <4> QED BY <1>10, <3>9, <4>1, SMT
    <3>11. v = Then(link'.vs)
      BY <3>8 DEF D, Then
    <3>12. \A i \in LiveData : /\ Then(toPeer[i].ns) \in Nat
                               /\ toPeer[i].msg = (w + n) + Then(toPeer[i].ns)
                               /\ z < Then(toPeer[i].ns) /\ z <= Then(toPeer[i].ns)
                               /\ Then(toPeer[i].ns) < v
      <4> TAKE i \in LiveData
      <4> QED BY <3>4, <3>8, <3>9, SMT
    <3>13. PICK u \in Nat : u = w + n
      BY <1>10
    <3>14. DataInv(u)' /\ OrderInv'
      <4>1. toPeer' = toPeer \o o
        BY DEF o
      <4>2. \A i \in DOMAIN o : /\ o[i].type = "I" /\ Then(o[i].ns) = z + (i - 1)
                                /\ o[i].msg = u + Then(o[i].ns)
        BY <1>4, <3>10, <3>13
      <4>3. \A i, j \in LiveData : i < j /\ Then(toPeer[j].ns) <= Then(toPeer[i].ns) =>
              peer.rejecting /\ \A h \in LiveData : h <= i => z < Then(toPeer[h].ns)
        BY <3>5, <3>9
      <4>4. /\ \A i \in DOMAIN received : received[i] < u + z
            /\ z = Then(peer.expect)
            /\ peer.rejecting /\ \A i \in LiveData : z < Then(toPeer[i].ns)
        BY <3>1, <3>3, <3>6, <3>9, <3>12, <3>13
      <4>5. Fits(o, u, z, v, z)
        BY <3>7, <3>9, <3>11, <3>12, <3>13, <4>2, <4>3, <4>4 DEF Fits
      <4> QED BY <1>1, <1>4, <4>1, <4>5, NewData
    <3> QED BY <3>13, <3>14
  <2> QED BY <2>1, <2>2
<1> QED BY <1>5, <1>6, <1>10, <1>11, <1>12

\* A frame with an acknowledgement, on a connection.
LEMMA DataKeep ==
  ASSUME IInv, NodeReceive, Head(toNode).type # "SABM", link.state \in Up
  PROVE  IInv'
<1> DEFINE f == Head(toNode)
           L == lm_data_indication(link, f)
<1>1. /\ LinkInv /\ AirInv /\ PeerInv /\ AckInv /\ PhaseInv /\ Idle(link) /\ Good(link, TRUE)
      /\ 0 <= seizes /\ toNode \in Seq(NodeAir) /\ toNode # <<>>
      /\ link.up = <<>> /\ link.out = <<>>
      /\ ~link.peer_receiver_busy /\ ~link.radio_channel_busy
  BY LinkNow DEF NodeReceive, IInv, LinkInv, Idle
<1>2. /\ toNode' = Tail(toNode) /\ NodeStep(L, 0) /\ cut' = cut /\ given' = given
  BY DEF NodeReceive
<1>3. /\ toNode' \in Seq(NodeAir) /\ f \in NodeAir /\ f = toNode[1] /\ 1 \in DOMAIN toNode
  <2>1. /\ Tail(toNode) \in Seq(NodeAir) /\ Head(toNode) = toNode[1] /\ toNode[1] \in NodeAir
        /\ Len(toNode) \in Nat \ {0} /\ DOMAIN toNode = 1 .. Len(toNode)
    BY <1>1, Shortened
  <2>2. 1 \in DOMAIN toNode
    BY <2>1, SMT
  <2> QED BY <1>2, <2>1, <2>2
<1>4. Receivable(f) /\ f.type \in {"I", "RR", "REJ"} /\ f.nr \in SeqNo
  BY <1>3, SMT DEF Receivable, NodeAir, Frames
<1>5. D(f.nr) <= D(link.vs) /\ (f.type = "REJ" => D(f.nr) < D(link.vs))
  BY <1>1, <1>3 DEF AckInv
<1>6. is_good_nr(link, f.nr) /\ (f.type = "REJ" => f.nr # link.vs)
  <2>1. is_good_nr(link, f.nr)
    BY <1>5 DEF is_good_nr, D
  <2>2. D(link.vs) \in Int
    BY <1>1, Distances, LinkAssumption, SMT
  <2>3. ~(D(link.vs) < D(link.vs))
    BY <2>2, SMT
  <2> QED BY <1>5, <2>1, <2>3
<1> HIDE DEF f
<1>7. /\ f.type \in {"I", "RR"} => Acknowledges(link, L, f.nr)
      /\ f.type = "REJ" => Resends(link, L, f.nr)
  BY <1>1, <1>4, <1>6, DataReceived
<1>8. Good(L, TRUE)
  <2>1. Owes(link) => TRUE
    OBVIOUS
  <2> QED BY <1>1, <1>4, <2>1, DataIndication
<1> HIDE DEF L
<1>9. <<>> \in Seq(Msgs) /\ <<>> \in Seq(Replies)
  BY SMT
<1>10. GoesOn(link, L) /\ L.va = f.nr
       /\ \A x \in SeqNo : Minus(x, f.nr) < Minus(link.vs, f.nr) =>
                            L.txdata_by_ns[x] = link.txdata_by_ns[x]
  BY <1>4, <1>7 DEF Acknowledges, Resends
<1>11. /\ L.state \in Up /\ ~L.peer_receiver_busy /\ ~L.radio_channel_busy
       /\ L.up \in Seq(Msgs) /\ L.vs = link.vs /\ L.i_frame_queue = link.i_frame_queue
  BY <1>1, <1>9, <1>10 DEF GoesOn
<1>12. /\ LinkInv'
       /\ seizes' \in 0 .. MaxSeize /\ delivered' \in Seq(Msgs)
       /\ toPeer' = toPeer \o L.out
       /\ load' = load /\ peer' = peer /\ received' = received
       /\ link'.state = L.state /\ link'.vs = L.vs /\ link'.va = L.va
       /\ link'.i_frame_queue = L.i_frame_queue /\ link'.txdata_by_ns = L.txdata_by_ns
  BY <1>1, <1>2, <1>8, <1>11, NodeKept
<1>13. Advanced(f.nr)
  BY <1>10, <1>11, <1>12 DEF Advanced
<1>14. /\ toPeer' \in Seq(PeerAir) /\ PhaseInv' /\ AckInv' /\ OrderInv' /\ ReceivedInv'
       /\ \E w \in Nat : SentInv(w)' /\ DataInv(w)'
  <2>1. CASE f.type \in {"I", "RR"}
    <3>1. L.out \in Seq(Replies)
      BY <1>1, <1>7, <1>9, <2>1 DEF Acknowledges
    <3>2. f.type # "SABM"
      BY <2>1
    <3> QED BY <1>1, <1>2, <1>12, <1>13, <3>1, <3>2, AckQuiet DEF f
  <2>2. CASE f.type = "REJ"
    <3>1. L.out = Again(f.nr)
      BY <1>1, <1>7, <2>2 DEF Resends, Again
    <3> QED BY <1>1, <1>2, <1>12, <1>13, <2>2, <3>1, AckResend DEF f
  <2> QED BY <1>4, <2>1, <2>2
<1>15. AirInv'
  BY <1>3, <1>14 DEF AirInv
<1>16. PeerInv'
  BY <1>1, <1>2, <1>12 DEF PeerInv
<1> QED BY <1>12, <1>14, <1>15, <1>16 DEF IInv

\* The peer connects (anew).
LEMMA BeginKeep ==
  ASSUME IInv, NodeReceive, Head(toNode).type = "SABM"
  PROVE  IInv'
<1> DEFINE f == Head(toNode)
           L == lm_data_indication(link, f)
           ua == UFrame("UA", "res", f.pf)
           q == link.i_frame_queue
<1>1. /\ LinkInv /\ AirInv /\ PeerInv /\ PhaseInv /\ ReceivedInv /\ Idle(link) /\ Good(link, TRUE)
      /\ 0 <= seizes /\ toNode \in Seq(NodeAir) /\ toNode # <<>>
      /\ link.up = <<>> /\ link.out = <<>> /\ ~link.radio_channel_busy /\ q \in Seq(Msgs)
  BY LinkNow DEF NodeReceive, IInv, LinkInv, Idle, Good, Typed
<1>2. toNode' = Tail(toNode) /\ NodeStep(L, 0) /\ cut' = NULL /\ given' = given
  BY DEF NodeReceive
<1>3. /\ f \in NodeAir /\ 1 \in Sabms /\ Len(toNode) \in Nat
      /\ toNode' \in Seq(NodeAir) /\ Len(toNode') = Len(toNode) - 1 /\ DOMAIN toNode' = 1 .. Len(toNode')
  <2>1. /\ Tail(toNode) \in Seq(NodeAir) /\ Head(toNode) = toNode[1] /\ toNode[1] \in NodeAir
        /\ Len(toNode) \in Nat \ {0} /\ DOMAIN toNode = 1 .. Len(toNode)
        /\ Len(Tail(toNode)) = Len(toNode) - 1 /\ DOMAIN Tail(toNode) = 1 .. Len(toNode) - 1
    BY <1>1, Shortened
  <2>2. 1 \in DOMAIN toNode
    BY <2>1, SMT
  <2> QED BY <1>2, <2>1, <2>2 DEF Sabms
<1>4. /\ DOMAIN toNode' = {} /\ peer.state = "connecting" /\ Uas = {}
      /\ peer.expect = 0 /\ ~peer.rejecting
      /\ peer.base = peer.start /\ peer.next = peer.start
  <2>1. Len(toNode) = 1
    BY <1>1, <1>3 DEF PhaseInv
  <2>2. DOMAIN toNode' = {}
    BY <1>3, <2>1, SMT
  <2> QED BY <1>1, <1>3, <2>2 DEF PhaseInv
<1>5. Receivable(f) /\ f.pf \in BOOLEAN
  BY <1>3, SMT DEF Receivable, NodeAir, Frames
<1> HIDE DEF f
<1>6. Begins(link, L, f)
  BY <1>1, <1>5, ConnectReceived DEF f
<1>7. Good(L, TRUE)
  <2>1. Owes(link) => TRUE
    OBVIOUS
  <2> QED BY <1>1, <1>5, <2>1, DataIndication
<1> HIDE DEF L
<1>8. /\ L.state = "connected" /\ L.state \in Up /\ L.vs = 0 /\ L.va = 0
      /\ L.out = Append(<<>>, ua) /\ L.up = <<>>
      /\ ~L.peer_receiver_busy /\ ~L.radio_channel_busy
      /\ L.i_frame_queue = q \/ L.i_frame_queue = <<>>
  BY <1>1, <1>6 DEF Begins, Up
<1>9. <<>> \in Seq(Msgs) /\ L.up \in Seq(Msgs)
  BY <1>8, SMT
<1>10. /\ LinkInv'
       /\ seizes' \in 0 .. MaxSeize /\ delivered' \in Seq(Msgs)
       /\ toPeer' = toPeer \o L.out
       /\ load' = load /\ peer' = peer /\ received' = received
       /\ link'.state = L.state /\ link'.vs = L.vs /\ link'.va = L.va
       /\ link'.i_frame_queue = L.i_frame_queue /\ link'.txdata_by_ns = L.txdata_by_ns
  BY <1>1, <1>2, <1>7, <1>8, <1>9, NodeKept
<1>11. ua \in PeerAir /\ ua.type = "UA"
  <2>1. 0 \in SeqNo
    BY LinkAssumption, SMT DEF SeqNo
  <2> QED BY <1>5, <2>1, SMT DEF UFrame, Frame, Frames, FrameTypes, PeerAir
<1> HIDE DEF ua
<1>12. /\ toPeer' = Append(toPeer, ua) /\ toPeer \in Seq(PeerAir)
  <2>1. toPeer \in Seq(PeerAir)
    BY <1>1 DEF AirInv
  <2> QED BY <1>8, <1>10, <1>11, <2>1, SMT
<1>13. /\ toPeer' \in Seq(PeerAir) /\ Len(toPeer) \in Nat
       /\ DOMAIN toPeer = 1 .. Len(toPeer) /\ DOMAIN toPeer' = 1 .. Len(toPeer) + 1
       /\ \A i \in 1 .. Len(toPeer) : toPeer'[i] = toPeer[i]
       /\ toPeer'[Len(toPeer) + 1] = ua
  <2> DEFINE t == Append(toPeer, ua)
  <2>1. /\ t \in Seq(PeerAir) /\ Len(toPeer) \in Nat
        /\ DOMAIN toPeer = 1 .. Len(toPeer) /\ DOMAIN t = 1 .. Len(toPeer) + 1
        /\ \A i \in 1 .. Len(toPeer) : t[i] = toPeer[i]
        /\ t[Len(toPeer) + 1] = ua
    BY <1>11, <1>12, Grown
  <2> HIDE DEF t
  <2>2. toPeer' = t
    BY <1>12 DEF t
  <2> QED BY <2>1, <2>2
<1>14. \A i \in Uas' : i = Len(toPeer) + 1
  <2> SUFFICES ASSUME NEW i \in Uas', i # Len(toPeer) + 1 PROVE FALSE
    OBVIOUS
  <2>1. i \in DOMAIN toPeer' /\ toPeer'[i].type = "UA"
    BY DEF Uas
  <2>2. i \in 1 .. Len(toPeer)
    BY <1>13, <2>1, SMT
  <2>3. i \in Uas
    BY <1>13, <2>1, <2>2 DEF Uas
  <2> QED BY <1>4, <2>3
<1>15. LiveData' = {}
  <2> SUFFICES ASSUME NEW i \in LiveData' PROVE FALSE
    OBVIOUS
  <2>1. peer'.state # "connected"
    BY <1>4, <1>10
  <2>2. PICK j \in Uas' : j <= i
    BY <2>1 DEF LiveData
  <2>3. i \in DOMAIN toPeer' /\ toPeer'[i].type = "I"
    BY DEF LiveData
  <2>4. i = Len(toPeer) + 1
    BY <1>13, <1>14, <2>2, <2>3, SMT
  <2> QED BY <1>11, <1>13, <2>3, <2>4
<1>16. AirInv'
  BY <1>3, <1>13 DEF AirInv
<1>17. NULL \in (SUBSET Msgs) \cup {NULL} /\ PeerInv'
  BY <1>1, <1>2, <1>10 DEF PeerInv
<1>18. PhaseInv'
  <2>1. Sabms' = {}
    BY <1>4 DEF Sabms
  <2> QED BY <1>2, <1>4, <1>8, <1>10, <1>14, <2>1 DEF PhaseInv
<1>19. AckInv' /\ OrderInv'
  BY <1>4, <1>15 DEF AckInv, OrderInv
<1>20. /\ given \in Nat /\ Len(q) \in Nat /\ Len(<<>>) = 0 /\ DOMAIN <<>> = {}
  <2>1. given \in Nat
    BY <1>1, DeliveryAssumption, SMT DEF PeerInv
  <2> QED BY <1>1, <2>1, SMT
<1>21. \A i \in DOMAIN received : received[i] \in Int
  <2>1. received \in Seq(Msgs) /\ Msgs \subseteq Int
    BY <1>1, DeliveryAssumption, SMT DEF PeerInv
  <2>2. \A i \in DOMAIN received : received[i] \in Msgs
    BY <2>1, SMT
  <2> QED BY <2>1, <2>2
<1>22. ReceivedInv' /\ \A i \in DOMAIN received : received[i] < given - Len(link'.i_frame_queue)
  <2>1. CASE link'.i_frame_queue = q
    BY <1>1, <1>2, <1>10, <2>1 DEF ReceivedInv
  <2>2. CASE link'.i_frame_queue = <<>>
    <3>1. \A i \in DOMAIN received : received[i] < given - Len(link'.i_frame_queue)
      BY <1>1, <1>20, <1>21, <2>2, SMT DEF ReceivedInv
    <3> QED BY <1>1, <1>2, <1>10, <3>1 DEF ReceivedInv
  <2> QED BY <1>8, <1>10, <2>1, <2>2
<1>23. PICK u \in Nat : u = given - Len(link'.i_frame_queue)
  <2>1. PICK w \in Nat : SentInv(w)
    BY DEF IInv
  <2>2. w + D(link.vs) <= given - Len(q) /\ D(link.vs) \in 0 .. Modulo - 1
    BY <1>1, <2>1, Distances DEF SentInv
  <2>3. given - Len(q) \in Nat /\ given - Len(<<>>) \in Nat
    BY <1>20, <2>1, <2>2, LinkAssumption, SMT
  <2> QED BY <1>8, <1>10, <2>3
<1>24. Minus(0, 0) = 0 /\ D(link.vs)' = 0 /\ D(peer.expect)' = 0
       /\ \A x \in SeqNo : D(x)' \in 0 .. Modulo - 1
  <2>1. 0 \in SeqNo /\ 0 \in 0 .. Modulo
    BY LinkAssumption, SMT DEF SeqNo
  <2>2. Minus(0, 0) = IF 0 <= 0 THEN 0 - 0 ELSE 0 + Modulo - 0
    BY <2>1, MinusValue
  <2>3. \A x \in SeqNo : Minus(x, 0) \in 0 .. Modulo - 1
    BY <2>1, Distance
  <2>4. Minus(0, 0) = 0
    BY <2>2, SMT
  <2> QED BY <1>4, <1>8, <1>10, <2>3, <2>4 DEF D
<1>25. SentInv(u)'
  <2>1. \A i \in DOMAIN link'.i_frame_queue :
          link'.i_frame_queue[i] = given' - Len(link'.i_frame_queue) + i - 1
    <3>1. CASE link'.i_frame_queue = q
      BY <1>2, <3>1 DEF IInv, SentInv
    <3>2. CASE link'.i_frame_queue = <<>>
      BY <1>20, <3>2
    <3> QED BY <1>8, <1>10, <3>1, <3>2
  <2>2. u + D(link.vs)' = given' - Len(link'.i_frame_queue)
        /\ u + D(link.vs)' <= given' - Len(link'.i_frame_queue)
    BY <1>2, <1>23, <1>24, SMT
  <2>3. \A x \in SeqNo : ~(D(x)' < D(link.vs)')
    <3> TAKE x \in SeqNo
    <3>1. D(x)' \in 0 .. Modulo - 1
      BY <1>24
    <3> QED BY <1>24, <3>1, LinkAssumption, SMT
  <2> QED BY <2>1, <2>2, <2>3 DEF SentInv
<1>26. DataInv(u)'
  <2>1. D(peer.expect)' <= D(link.vs)' /\ u + D(peer.expect)' = u
    BY <1>23, <1>24, SMT
  <2>2. \A i \in DOMAIN received' : received'[i] < u + D(peer.expect)'
    BY <1>10, <1>22, <1>23, <2>1
  <2> QED BY <1>15, <2>1, <2>2 DEF DataInv
<1> QED BY <1>10, <1>16, <1>17, <1>18, <1>19, <1>22, <1>25, <1>26 DEF IInv

\* What we have queued goes on the air.
LEMMA PopKeep ==
  ASSUME IInv, NEW L, Good(L, TRUE), link.state \in Up,
         NEW n \in 1 .. Len(link.i_frame_queue), Pops(link, L, n),
         NEW taken \in {0, 1}, taken <= seizes, NodeStep(L, taken),
         toNode' = toNode, cut' = cut, given' = given
  PROVE  IInv'
<1> DEFINE q == link.i_frame_queue
           s == D(link.vs)
           o == L.out
           Ns(i) == AX25MODULO(link.vs + i - 1)
           g(i) == IFrame(link, Ns(i), q[i])
<1>1. /\ LinkInv /\ AirInv /\ PeerInv /\ PhaseInv /\ AckInv /\ OrderInv /\ ReceivedInv
      /\ link.up = <<>> /\ link.out = <<>>
      /\ ~link.peer_receiver_busy /\ ~link.radio_channel_busy
      /\ q \in Seq(Msgs) /\ link.vs \in SeqNo /\ link.vr \in SeqNo
  BY DEF IInv, LinkInv, Idle, Good, Typed
<1>2. \A x \in SeqNo : D(x) \in 0 .. Modulo - 1
  BY <1>1, Distances
<1>3. /\ L.va = link.va /\ Minus(L.vs, link.va) = s + n /\ L.state = link.state
      /\ L.i_frame_queue = SubSeq(q, n + 1, Len(q))
      /\ \A x \in SeqNo : D(x) < s => L.txdata_by_ns[x] = link.txdata_by_ns[x]
      /\ \A x \in SeqNo : s <= D(x) /\ D(x) < s + n => L.txdata_by_ns[x] = q[D(x) - s + 1]
      /\ \A i \in 1 .. n : Ns(i) \in SeqNo /\ D(Ns(i)) = s + (i - 1)
      /\ o = [i \in 1 .. n |-> g(i)]
      /\ ~L.radio_channel_busy /\ ~L.peer_receiver_busy /\ L.up = <<>>
  BY <1>1 DEF Pops, D
<1> HIDE DEF Ns
<1>4. L.state \in Up /\ L.up \in Seq(Msgs)
  <2>1. <<>> \in Seq(Msgs)
    BY SMT
  <2> QED BY <1>3, <2>1
<1>5. /\ LinkInv'
      /\ seizes' \in 0 .. MaxSeize /\ delivered' \in Seq(Msgs)
      /\ toPeer' = toPeer \o o
      /\ load' = load /\ peer' = peer /\ received' = received
      /\ link'.state = L.state /\ link'.vs = L.vs /\ link'.va = L.va
      /\ link'.i_frame_queue = L.i_frame_queue /\ link'.txdata_by_ns = L.txdata_by_ns
  BY <1>3, <1>4, NodeKept
<1>6. \A x : D(x) = Then(x)
  BY <1>3, <1>5 DEF D, Then
<1>7. D(link.vs)' = s + n /\ s \in 0 .. Modulo - 1 /\ s \in Nat /\ n \in Nat \ {0}
  <2>1. s \in 0 .. Modulo - 1
    BY <1>1, <1>2
  <2>2. s \in Nat /\ n \in Nat \ {0}
    BY <1>1, <2>1, LinkAssumption, SMT
  <2> QED BY <1>3, <1>5, <2>1, <2>2 DEF D
<1>8. /\ Len(q) \in Nat /\ n <= Len(q) /\ DOMAIN q = 1 .. Len(q)
      /\ \A i \in 1 .. n : i \in DOMAIN q /\ q[i] \in Msgs
      /\ Len(link'.i_frame_queue) = Len(q) - n /\ link'.i_frame_queue = SubSeq(q, n + 1, Len(q))
      /\ \A i \in DOMAIN link'.i_frame_queue :
           i \in Int /\ link'.i_frame_queue[i] = q[n + i] /\ n + i \in DOMAIN q
  <2> DEFINE t == SubSeq(q, n + 1, Len(q))
  <2>1. /\ Len(q) \in Nat /\ n <= Len(q) /\ DOMAIN q = 1 .. Len(q)
        /\ \A i \in 1 .. n : i \in DOMAIN q /\ q[i] \in Msgs
        /\ Len(t) = Len(q) - n
        /\ \A i \in DOMAIN t : i \in Int /\ t[i] = q[n + i] /\ n + i \in DOMAIN q
    BY <1>1, SMT
  <2> HIDE DEF t
  <2>2. link'.i_frame_queue = t
    BY <1>3, <1>5 DEF t
  <2> QED BY <2>1, <2>2 DEF t
<1> HIDE DEF q
<1>9. \A i \in 1 .. n : g(i) \in PeerAir /\ g(i).type = "I" /\ g(i).ns = Ns(i) /\ g(i).msg = q[i]
  <2> TAKE i \in 1 .. n
  <2>1. Ns(i) \in SeqNo /\ q[i] \in Msgs
    BY <1>3, <1>8
  <2> QED BY <1>1, <2>1, SMT DEF IFrame, Frame, Frames, FrameTypes, PeerAir
<1> HIDE DEF g, o
<1>10. /\ o \in Seq(PeerAir) /\ Len(o) = n /\ DOMAIN o = 1 .. n
       /\ \A i \in 1 .. n : o[i] = g(i)
  <2>1. o = [i \in 1 .. n |-> g(i)] /\ \A i \in 1 .. n : g(i) \in PeerAir
    BY <1>3, <1>9
  <2>2. n \in Nat
    BY <1>7, SMT
  <2> QED BY <2>1, <2>2, SMT
<1>11. toPeer' \in Seq(PeerAir) /\ Uas' = Uas
  <2>1. \A i \in DOMAIN o : o[i].type # "UA"
    BY <1>9, <1>10
  <2> QED BY <1>1, <1>5, <1>10, <2>1, Growth
<1>12. AirInv' /\ PeerInv'
  BY <1>1, <1>5, <1>11 DEF AirInv, PeerInv
<1>13. PhaseInv'
  BY <1>1, <1>3, <1>5, <1>11 DEF PhaseInv, Sabms
<1>14. AckInv'
  <2> SUFFICES ASSUME NEW i \in DOMAIN toNode, toNode[i].type # "SABM"
               PROVE  /\ D(toNode[i].nr) <= s + n
                      /\ toNode[i].type = "REJ" => D(toNode[i].nr) < s + n
                      /\ \A j \in DOMAIN toNode :
                           i < j /\ toNode[j].type # "SABM" => D(toNode[i].nr) <= D(toNode[j].nr)
                      /\ cut = NULL => D(toNode[i].nr) <= D(peer.expect)
    <3>1. \A x : Minus(x, link'.va) = D(x)
      BY <1>6 DEF Then
    <3> QED BY <1>5, <1>7, <3>1 DEF AckInv, D
  <2>1. toNode[i] \in NodeAir
    BY <1>1, SMT DEF AirInv
  <2>2. toNode[i].nr \in SeqNo
    BY <2>1, SMT DEF NodeAir, Frames
  <2>3. D(toNode[i].nr) \in 0 .. Modulo - 1
    BY <1>2, <2>2
  <2>4. /\ D(toNode[i].nr) <= s
        /\ toNode[i].type = "REJ" => D(toNode[i].nr) < s
        /\ \A j \in DOMAIN toNode :
             i < j /\ toNode[j].type # "SABM" => D(toNode[i].nr) <= D(toNode[j].nr)
        /\ cut = NULL => D(toNode[i].nr) <= D(peer.expect)
    BY <1>1 DEF AckInv
  <2>5. D(toNode[i].nr) <= s + n /\ D(toNode[i].nr) < s + n
    BY <1>7, <2>3, <2>4, LinkAssumption, SMT
  <2> QED BY <2>4, <2>5
<1>15. /\ given \in Nat /\ \A i \in DOMAIN received : received[i] \in Int
  <2>1. received \in Seq(Msgs) /\ Msgs \subseteq Int /\ given \in Nat
    BY <1>1, DeliveryAssumption, SMT DEF PeerInv
  <2>2. \A i \in DOMAIN received : received[i] \in Msgs
    BY <2>1, SMT
  <2> QED BY <2>1, <2>2
<1>16. ReceivedInv'
  <2>1. ASSUME NEW i \in DOMAIN received PROVE received[i] < given - Len(link'.i_frame_queue)
    <3>1. received[i] < given - Len(q)
      BY <1>1 DEF ReceivedInv, q
    <3> QED BY <1>7, <1>8, <1>15, <3>1, SMT
  <2> QED BY <1>1, <1>5, <2>1 DEF ReceivedInv
<1>17. PICK w \in Nat : SentInv(w) /\ DataInv(w)
  BY DEF IInv
<1>18. /\ w + s = given - Len(q)
       /\ \A i \in DOMAIN q : q[i] = given - Len(q) + i - 1
       /\ \A x \in SeqNo : D(x) < s => link.txdata_by_ns[x] = w + D(x)
  BY <1>17 DEF SentInv, q
<1>22. /\ Len(q) \in Int /\ Len(link'.i_frame_queue) = Len(q) - n
       /\ n \in Int /\ s \in Int /\ w \in Int /\ given \in Int
  <2>1. Len(link'.i_frame_queue) = Len(q) - n /\ Len(q) \in Nat /\ given \in Nat
    BY <1>8, <1>15
  <2>2. w \in Int /\ s \in Int /\ n \in Int
    BY <1>7, <1>17, SMT
  <2>3. Len(q) \in Int /\ given \in Int
    BY <2>1, SMT
  <2> QED BY <2>1, <2>2, <2>3
<1>19. \A i \in 1 .. n : q[i] = w + (s + (i - 1))
  <2> TAKE i \in 1 .. n
  <2>0. i \in DOMAIN q
    BY <1>8
  <2>1. i \in DOMAIN q /\ i \in Int
    BY <2>0, SMT
  <2>3. q[i] = given - Len(q) + i - 1
    BY <1>18, <2>1
  <2>2. w + s = given - Len(q)
    BY <1>18
  <2> QED BY <1>22, <2>1, <2>2, <2>3, SMT
<1>20. SentInv(w)'
  <2>1. w + (s + n) = given - Len(link'.i_frame_queue)
    <3>1. w + s = given - Len(q)
      BY <1>18
    <3> QED BY <1>22, <3>1, SMT
  <2>2. ASSUME NEW i \in DOMAIN link'.i_frame_queue
        PROVE  link'.i_frame_queue[i] = given - Len(link'.i_frame_queue) + i - 1
    <3>1. link'.i_frame_queue[i] = given - Len(q) + (n + i) - 1 /\ i \in Int
      BY <1>8, <1>18
    <3> QED BY <1>22, <3>1, SMT
  <2>3. ASSUME NEW x \in SeqNo, D(x) < s + n
        PROVE  link'.txdata_by_ns[x] = w + D(x)
    <3>1. D(x) \in 0 .. Modulo - 1
      BY <1>2
    <3>2. CASE D(x) < s
      BY <1>3, <1>5, <1>18, <3>2
    <3>3. CASE ~(D(x) < s)
      <4>1. s <= D(x) /\ D(x) - s + 1 \in 1 .. n
        BY <1>7, <2>3, <3>1, <3>3, LinkAssumption, SMT
      <4>2. link'.txdata_by_ns[x] = q[D(x) - s + 1]
        BY <1>3, <1>5, <2>3, <4>1
      <4>3. q[D(x) - s + 1] = w + (s + ((D(x) - s + 1) - 1))
        BY <1>19, <4>1
      <4>4. s + ((D(x) - s + 1) - 1) = D(x)
        BY <1>7, <3>1, LinkAssumption, SMT
      <4> QED BY <4>2, <4>3, <4>4
    <3> QED BY <3>2, <3>3
  <2>5. \A x \in SeqNo : D(x) < s + n => link'.txdata_by_ns[x] = w + D(x)
    BY <2>3
  <2>6. \A x \in SeqNo : D(x)' = D(x)
    BY <1>6 DEF Then, D
  <2>7. w + D(link.vs)' <= given - Len(link'.i_frame_queue)
        /\ w + D(link.vs)' = given - Len(link'.i_frame_queue)
    <3>1. w + (s + n) <= w + (s + n)
      BY <1>7, <1>17, SMT
    <3> QED BY <1>7, <2>1, <3>1
  <2> QED BY <1>7, <2>2, <2>5, <2>6, <2>7 DEF SentInv
<1>21. DataInv(w)' /\ OrderInv'
  <2>1. CASE cut # NULL
    <3>1. LiveData' = {} /\ cut' # NULL
      <4>1. LiveData = {} /\ Uas = {}
        BY <1>1, <2>1, CutOff
      <4>2. peer.state = "connecting" /\ Uas' = {}
        BY <1>1, <1>11, <2>1, <4>1 DEF PhaseInv
      <4> QED BY <1>5, <2>1, <4>2 DEF LiveData
    <3> QED BY <3>1 DEF DataInv, OrderInv
  <2>2. CASE cut = NULL
    <3>1. peer.expect \in SeqNo
      BY <1>1, SMT DEF PeerInv, Peer
    <3>2. PICK e \in Nat : e = D(peer.expect)
      BY <1>2, <3>1, LinkAssumption, SMT
    <3>3. PICK c \in Nat : c = s
      BY <1>7
    <3>4. PICK v \in Nat : v = s + n
      BY <1>7, SMT
    <3>5. e <= c /\ c + Len(o) <= v /\ \A i \in DOMAIN received : received[i] < w + e
      <4>1. e <= c
        BY <1>17, <2>2, <3>2, <3>3 DEF DataInv
      <4>2. \A i \in DOMAIN received : received[i] < w + e
        BY <1>17, <2>2, <3>2 DEF DataInv
      <4>3. c + Len(o) <= v
        BY <1>7, <1>10, <3>3, <3>4, SMT
      <4> QED BY <4>1, <4>2, <4>3
    <3>6. ASSUME NEW i \in LiveData
          PROVE  /\ D(toPeer[i].ns) \in Nat /\ toPeer[i].msg = w + D(toPeer[i].ns)
                 /\ e <= D(toPeer[i].ns) /\ D(toPeer[i].ns) < c /\ D(toPeer[i].ns) < v
      <4>1. toPeer[i].ns \in SeqNo
        BY <1>1, LiveUncut
      <4>2. D(toPeer[i].ns) \in Nat
        BY <1>2, <4>1, LinkAssumption, SMT
      <4>3. /\ toPeer[i].msg = w + D(toPeer[i].ns)
            /\ e <= D(toPeer[i].ns) /\ D(toPeer[i].ns) < c
        BY <1>17, <3>2, <3>3 DEF DataInv
      <4>4. D(toPeer[i].ns) < v
        BY <1>7, <3>3, <3>4, <4>2, <4>3, SMT
      <4> QED BY <4>2, <4>3, <4>4
    <3>7. \A i, j \in LiveData : i < j /\ D(toPeer[j].ns) <= D(toPeer[i].ns) =>
            peer.rejecting /\ \A h \in LiveData : h <= i => e < D(toPeer[h].ns)
      BY <1>1, <3>2 DEF OrderInv
    <3>8. \A i \in DOMAIN toNode' : toNode'[i].type = "REJ" =>
            /\ peer.rejecting /\ toNode'[i].nr = peer.expect /\ e < c
            /\ \A h \in LiveData : e < D(toPeer[h].ns)
            /\ \A j \in DOMAIN toNode' : toNode'[j].type = "REJ" => i = j
      BY <1>1, <2>2, <3>2, <3>3 DEF OrderInv
    <3>9. e < c => e < v
      BY <1>7, <3>3, <3>4, SMT
    <3>10. \A i \in DOMAIN o : /\ o[i].type = "I" /\ D(o[i].ns) = c + (i - 1)
                               /\ o[i].msg = w + D(o[i].ns)
      BY <1>3, <1>9, <1>10, <1>19, <3>3
    <3>11. v = D(link'.vs)
      BY <1>3, <1>5, <3>4 DEF D
    <3>12. Fits(o, w, c, v, e)
      BY <1>6, <3>2, <3>5, <3>6, <3>7, <3>8, <3>9, <3>10, <3>11 DEF Fits
    <3> QED BY <1>1, <1>5, <1>10, <1>17, <3>12, NewData
  <2> QED BY <2>1, <2>2
<1> QED BY <1>5, <1>12, <1>13, <1>14, <1>16, <1>17, <1>20, <1>21 DEF IInv

LEMMA SeizedKeep == IInv /\ (NodeSeizeConfirm \/ NodeTransmits) => IInv'
<1> SUFFICES ASSUME IInv, NodeSeizeConfirm \/ NodeTransmits PROVE IInv'
  OBVIOUS
<1> DEFINE L == lm_seize_confirm(link)
<1>1. /\ Idle(link) /\ Good(link, TRUE) /\ 0 <= seizes
      /\ Behead(toNode, toNode, 0) /\ toNode \in Seq(NodeAir)
  BY LinkNow
<1>2. given' = given /\ toNode' = toNode /\ cut' = cut
  BY DEF NodeSeizeConfirm, NodeTransmits
<1>3. PICK taken \in {0, 1} : taken <= seizes /\ NodeStep(L, taken)
  <2>1. CASE NodeSeizeConfirm
    <3>1. seizes > 0 /\ seizes \in Int /\ NodeStep(L, 1)
      BY <2>1, DeliveryAssumption, SMT DEF NodeSeizeConfirm, IInv, PeerInv
    <3>2. 1 <= seizes
      BY <3>1, SMT
    <3> QED BY <3>1, <3>2
  <2>2. CASE NodeTransmits
    BY <1>1, <2>2 DEF NodeTransmits
  <2> QED BY <2>1, <2>2
<1>4. Good(L, TRUE)
  <2>1. Owes(link) => TRUE
    OBVIOUS
  <2> QED BY <1>1, <2>1, SeizeConfirmed
<1>5. \/ Steady(link, L)
      \/ link.state \in Up /\ \E n \in 1 .. Len(link.i_frame_queue) : Pops(link, L, n)
  BY <1>1, ChannelSeized
<1> HIDE DEF L
<1>6. CASE Steady(link, L)
  BY <1>1, <1>2, <1>3, <1>4, <1>6, QuietNode
<1>7. CASE link.state \in Up /\ \E n \in 1 .. Len(link.i_frame_queue) : Pops(link, L, n)
  <2>1. PICK n \in 1 .. Len(link.i_frame_queue) : Pops(link, L, n)
    BY <1>7
  <2> QED BY <1>2, <1>3, <1>4, <1>7, <2>1, PopKeep
<1> QED BY <1>5, <1>6, <1>7

\* Our client hands over a message.
LEMMA GiveKeep == IInv /\ ClientData => IInv'
<1> SUFFICES ASSUME IInv, ClientData PROVE IInv'
  OBVIOUS
<1> DEFINE L == SeizeForQueue([link EXCEPT !.i_frame_queue = Append(@, given)])
           q == link.i_frame_queue
<1>1. /\ LinkInv /\ AirInv /\ PeerInv /\ ReceivedInv /\ Idle(link)
      /\ toNode \in Seq(NodeAir) /\ 0 <= seizes /\ Behead(toNode, toNode, 0)
      /\ ~link.peer_receiver_busy /\ ~link.radio_channel_busy /\ q \in Seq(Msgs)
  BY LinkNow DEF IInv, LinkInv, Idle, Good, Typed
<1>2. /\ given < load[2] /\ given' = given + 1 /\ link.state \in Up
      /\ NodeStep(L, 0) /\ toNode' = toNode /\ cut' = cut
  BY DEF ClientData
<1>3. given \in Msgs /\ given \in Nat /\ given + 1 \in 0 .. load[2]
  <2>1. load \in (0 .. Total) \X (0 .. Total) /\ given \in 0 .. load[2]
    BY <1>1 DEF PeerInv
  <2>2. load[2] \in 0 .. Total
    BY <2>1, SMT
  <2> QED BY <1>2, <2>1, <2>2, DeliveryAssumption, SMT
<1>4. /\ Good(L, TRUE)
      /\ L.i_frame_queue = Append(q, given)
      /\ L.state = link.state /\ L.vs = link.vs /\ L.va = link.va
      /\ L.txdata_by_ns = link.txdata_by_ns
      /\ L.out = <<>> /\ L.up = <<>>
      /\ ~L.peer_receiver_busy /\ ~L.radio_channel_busy
  <2>1. /\ Good(L, TRUE)
        /\ L.i_frame_queue = Append(link.i_frame_queue, given)
        /\ L.state = link.state /\ L.vs = link.vs /\ L.va = link.va
        /\ L.txdata_by_ns = link.txdata_by_ns
        /\ L.out = <<>> /\ L.up = <<>>
        /\ L.peer_receiver_busy = link.peer_receiver_busy
        /\ L.radio_channel_busy = link.radio_channel_busy
    BY <1>1, <1>3, Appended
  <2> HIDE DEF L
  <2> QED BY <1>1, <2>1
<1> HIDE DEF L
<1>5. <<>> \in Seq(Msgs) /\ <<>> \in Seq(Replies)
  BY SMT
<1>6. /\ LinkInv'
      /\ seizes' \in 0 .. MaxSeize /\ delivered' \in Seq(Msgs)
      /\ toPeer' = toPeer \o L.out
      /\ load' = load /\ peer' = peer /\ received' = received
      /\ link'.state = L.state /\ link'.vs = L.vs /\ link'.va = L.va
      /\ link'.i_frame_queue = L.i_frame_queue /\ link'.txdata_by_ns = L.txdata_by_ns
  BY <1>1, <1>2, <1>4, <1>5, NodeKept
<1>7. /\ toPeer' \in Seq(PeerAir)
      /\ PhaseInv' /\ AckInv' /\ OrderInv'
      /\ \A w : DataInv(w) => DataInv(w)'
  BY <1>1, <1>2, <1>4, <1>5, <1>6, QuietStep
<1>8. AirInv' /\ PeerInv'
  <2>1. given' \in 0 .. load'[2]
    BY <1>2, <1>3, <1>6
  <2> QED BY <1>1, <1>2, <1>6, <1>7, <2>1 DEF AirInv, PeerInv
<1>9. /\ link'.i_frame_queue = Append(q, given) /\ Len(q) \in Nat
      /\ Len(link'.i_frame_queue) = Len(q) + 1
      /\ given' - Len(link'.i_frame_queue) = given - Len(q)
  <2>1. Len(q) \in Nat /\ Len(Append(q, given)) = Len(q) + 1
    BY <1>1, <1>3, SMT
  <2>2. (given + 1) - (Len(q) + 1) = given - Len(q)
    BY <1>3, <2>1, SMT
  <2> QED BY <1>2, <1>4, <1>6, <2>1, <2>2
<1>10. ReceivedInv'
  BY <1>1, <1>6, <1>9 DEF ReceivedInv
<1>11. ASSUME NEW w \in Nat, SentInv(w) PROVE SentInv(w)'
  <2>1. ASSUME NEW i \in DOMAIN link'.i_frame_queue
        PROVE  link'.i_frame_queue[i] = (given - Len(q)) + i - 1
    <3>1. /\ \A k \in 1 .. Len(q) : Append(q, given)[k] = q[k]
          /\ Append(q, given)[Len(q) + 1] = given
          /\ DOMAIN Append(q, given) = 1 .. Len(q) + 1 /\ DOMAIN q = 1 .. Len(q)
      BY <1>1, <1>3, Grown
    <3>2. i \in 1 .. Len(q) + 1
      BY <1>9, <3>1
    <3>3. CASE i \in 1 .. Len(q)
      BY <1>9, <1>11, <3>1, <3>3 DEF SentInv
    <3>4. CASE i \notin 1 .. Len(q)
      <4>1. i = Len(q) + 1
        BY <1>9, <3>2, <3>4, SMT
      <4>2. given = (given - Len(q)) + (Len(q) + 1) - 1
        BY <1>3, <1>9, SMT
      <4> QED BY <1>9, <3>1, <4>1, <4>2
    <3> QED BY <3>3, <3>4
  <2> QED BY <1>4, <1>6, <1>9, <1>11, <2>1 DEF SentInv, D
<1>12. \E w \in Nat : SentInv(w)' /\ DataInv(w)'
  BY <1>7, <1>11 DEF IInv
<1> QED BY <1>6, <1>7, <1>8, <1>10, <1>12 DEF IInv

-----------------------------------------------------------------------------
(* A step of the peer.                                                       *)

\* What the peer may take has moved up on the air, or gone.
LEMMA LiveBeheaded ==
  ASSUME NEW k \in {0, 1}, Behead(toPeer, toPeer', k)
  PROVE  /\ \A i \in Uas' : i + k \in Uas
         /\ \A i \in LiveData' : i \in Int /\ toPeer'[i] = toPeer[i + k]
         /\ \/ peer'.state = peer.state
            \/ k = 1 /\ 1 \in Uas
            => \A i \in LiveData' : i + k \in LiveData
<1>1. \A i \in DOMAIN toPeer' : i + k \in DOMAIN toPeer /\ toPeer'[i] = toPeer[i + k] /\ i \in Nat \ {0}
  BY SMT DEF Behead
<1>2. \A i \in Uas' : i + k \in Uas /\ i \in DOMAIN toPeer'
  BY <1>1 DEF Uas
<1>3. \A i \in LiveData' : /\ i \in DOMAIN toPeer' /\ i + k \in DOMAIN toPeer
                           /\ toPeer'[i] = toPeer[i + k] /\ toPeer[i + k].type = "I"
  BY <1>1 DEF LiveData
<1>4. \A i \in LiveData' : i \in Int
  BY <1>1, <1>3
<1>5. ASSUME peer'.state = peer.state, NEW i \in LiveData' PROVE i + k \in LiveData
  <2>1. CASE peer.state = "connected"
    BY <1>3, <2>1 DEF LiveData
  <2>2. CASE peer.state # "connected"
    <3>1. PICK j \in Uas' : j <= i
      BY <1>5, <2>2 DEF LiveData
    <3>2. j + k \in Uas /\ j \in Int /\ i \in Int
      BY <1>1, <1>2, <1>4
    <3>3. j + k <= i + k
      BY <3>1, <3>2, SMT
    <3> QED BY <1>3, <3>2, <3>3 DEF LiveData
  <2> QED BY <2>1, <2>2
<1>6. ASSUME k = 1, 1 \in Uas, NEW i \in LiveData' PROVE i + k \in LiveData
  <2>1. 1 <= i + k
    BY <1>1, <1>3, <1>6, SMT
  <2> QED BY <1>3, <1>6, <2>1 DEF LiveData
<1> QED BY <1>2, <1>3, <1>4, <1>5, <1>6

LEMMA LiveMoved ==
  ASSUME IInv, link' = link, cut' = cut, received' = received,
         peer'.expect = peer.expect, peer'.rejecting = peer.rejecting,
         NEW k \in {0, 1}, Behead(toPeer, toPeer', k), \A i \in LiveData' : i + k \in LiveData,
         \A i \in DOMAIN toNode' : toNode'[i].type = "REJ" =>
            i \in DOMAIN toNode /\ toNode'[i] = toNode[i]
  PROVE  OrderInv' /\ \A w : DataInv(w) => DataInv(w)'
<1>1. OrderInv
  BY DEF IInv
<1>2. \A i \in LiveData' : i \in Int /\ toPeer'[i] = toPeer[i + k] /\ i + k \in LiveData
  BY LiveBeheaded
<1>3. \A x : Minus(x, link'.va) = D(x)
  BY DEF D
<1>4. ASSUME NEW w, DataInv(w) PROVE DataInv(w)'
  BY <1>2, <1>3, <1>4 DEF DataInv, D
<1>5. OrderInv'
  <2>1. \A i, j \in LiveData' : /\ i < j => i + k < j + k
                                /\ i <= j => i + k <= j + k
    BY <1>2, SMT
  <2>2. ASSUME NEW i \in LiveData', NEW j \in LiveData', i < j, D(toPeer[j].ns)' <= D(toPeer[i].ns)'
        PROVE  peer'.rejecting /\ \A h \in LiveData' : h <= i => D(peer.expect)' < D(toPeer[h].ns)'
    <3>1. /\ i + k \in LiveData /\ j + k \in LiveData /\ i + k < j + k
          /\ D(toPeer[j + k].ns) <= D(toPeer[i + k].ns)
      BY <1>2, <2>1, <2>2 DEF D
    <3>2. peer.rejecting /\ \A h \in LiveData : h <= i + k => D(peer.expect) < D(toPeer[h].ns)
      BY <1>1, <3>1 DEF OrderInv
    <3> QED BY <1>2, <2>1, <3>2 DEF D
  <2>3. ASSUME cut' = NULL, NEW i \in DOMAIN toNode', toNode'[i].type = "REJ"
        PROVE  /\ peer'.rejecting /\ toNode'[i].nr = peer'.expect
               /\ D(peer.expect)' < D(link.vs)'
               /\ \A h \in LiveData' : D(peer.expect)' < D(toPeer[h].ns)'
               /\ \A j \in DOMAIN toNode' : toNode'[j].type = "REJ" => i = j
    <3>1. /\ peer.rejecting /\ toNode[i].nr = peer.expect
          /\ D(peer.expect) < D(link.vs)
          /\ \A h \in LiveData : D(peer.expect) < D(toPeer[h].ns)
          /\ \A j \in DOMAIN toNode : toNode[j].type = "REJ" => i = j
      BY <1>1, <2>3 DEF OrderInv
    <3> QED BY <1>2, <2>3, <3>1 DEF D
  <2> QED BY <2>2, <2>3 DEF OrderInv
<1> QED BY <1>4, <1>5

\* The peer reports what it expects.
LEMMA Reported ==
  ASSUME IInv, link' = link, cut' = cut, cut = NULL,
         NEW f \in NodeAir, f.type # "SABM", toNode' = Append(toNode, f),
         f.nr = peer'.expect, peer'.expect \in SeqNo,
         D(peer.expect) <= D(peer'.expect), D(peer'.expect) <= D(link.vs),
         f.type = "REJ" => D(peer'.expect) < D(link.vs)
  PROVE  toNode' \in Seq(NodeAir) /\ AckInv' /\ (Sabms = {} => Sabms' = {})
<1> DEFINE n == Len(toNode)
           e == D(peer'.expect)
<1>1. LinkInv /\ AirInv /\ AckInv /\ peer.expect \in SeqNo
  BY SMT DEF IInv, PeerInv, Peer
<1>2. /\ toNode' \in Seq(NodeAir) /\ n \in Nat
      /\ DOMAIN toNode = 1 .. n /\ DOMAIN toNode' = 1 .. n + 1
      /\ \A i \in 1 .. n : toNode'[i] = toNode[i]
      /\ toNode'[n + 1] = f
  <2> DEFINE t == Append(toNode, f)
  <2>1. /\ t \in Seq(NodeAir) /\ n \in Nat
        /\ DOMAIN toNode = 1 .. n /\ DOMAIN t = 1 .. n + 1
        /\ \A i \in 1 .. n : t[i] = toNode[i]
        /\ t[n + 1] = f
    BY <1>1, Grown DEF AirInv
  <2> HIDE DEF t
  <2>2. toNode' = t
    BY DEF t
  <2> QED BY <2>1, <2>2
<1> HIDE DEF n
<1>3. \A i \in DOMAIN toNode' : i \in DOMAIN toNode \/ i = n + 1
  BY <1>2, SMT
<1>4. \A x \in SeqNo : D(x) \in 0 .. Modulo - 1
  BY <1>1, Distances
<1>5. e \in 0 .. Modulo - 1 /\ e <= e
  <2>1. e \in 0 .. Modulo - 1
    BY <1>4
  <2> HIDE DEF e
  <2> QED BY <2>1, LinkAssumption, SMT
<1>6. ASSUME NEW i \in DOMAIN toNode, toNode[i].type # "SABM"
      PROVE  D(toNode[i].nr) <= e
  <2>1. D(toNode[i].nr) <= D(peer.expect)
    BY <1>1, <1>6 DEF AckInv
  <2>2. toNode[i] \in NodeAir
    BY <1>1, SMT DEF AirInv
  <2>3. toNode[i].nr \in SeqNo
    BY <2>2, SMT DEF NodeAir, Frames
  <2>4. D(toNode[i].nr) \in 0 .. Modulo - 1 /\ D(peer.expect) \in 0 .. Modulo - 1
    BY <1>1, <1>4, <2>3
  <2>5. D(peer.expect) <= e
    OBVIOUS
  <2> HIDE DEF e
  <2> QED BY <1>5, <2>1, <2>4, <2>5, LinkAssumption, SMT
<1>7. ASSUME NEW i \in DOMAIN toNode', toNode'[i].type # "SABM"
      PROVE  /\ link.state \in Up =>
                  /\ D(toNode'[i].nr) <= D(link.vs)
                  /\ toNode'[i].type = "REJ" => D(toNode'[i].nr) < D(link.vs)
                  /\ \A j \in DOMAIN toNode' :
                       i < j /\ toNode'[j].type # "SABM" => D(toNode'[i].nr) <= D(toNode'[j].nr)
             /\ D(toNode'[i].nr) <= e
  <2>1. CASE i \in DOMAIN toNode
    <3>1. toNode'[i] = toNode[i]
      BY <1>2, <2>1
    <3>2. /\ D(toNode'[i].nr) <= e
          /\ link.state \in Up =>
               /\ D(toNode'[i].nr) <= D(link.vs)
               /\ toNode'[i].type = "REJ" => D(toNode'[i].nr) < D(link.vs)
      BY <1>1, <1>6, <1>7, <2>1, <3>1 DEF AckInv
    <3>3. ASSUME link.state \in Up, NEW j \in DOMAIN toNode', i < j, toNode'[j].type # "SABM"
          PROVE  D(toNode'[i].nr) <= D(toNode'[j].nr)
      <4>1. CASE j \in DOMAIN toNode
        BY <1>1, <1>2, <1>7, <2>1, <3>1, <3>3, <4>1 DEF AckInv
      <4>2. CASE j = n + 1
        BY <1>2, <3>2, <4>2
      <4> QED BY <1>3, <4>1, <4>2
    <3> QED BY <3>2, <3>3
  <2>2. CASE i = n + 1
    <3>1. toNode'[i] = f
      BY <1>2, <2>2
    <3>2. \A j \in DOMAIN toNode' : ~(i < j)
      BY <1>2, <2>2, SMT
    <3> QED BY <1>5, <3>1, <3>2
  <2> QED BY <1>3, <2>1, <2>2
<1>8. AckInv'
  <2>1. \A x : Minus(x, link'.va) = D(x)
    BY DEF D
  <2> QED BY <1>7, <2>1 DEF AckInv, D
<1>9. Sabms = {} => Sabms' = {}
  BY <1>2, <1>3 DEF Sabms
<1> QED BY <1>2, <1>8, <1>9

\* The peer connects.
LEMMA Announced ==
  ASSUME IInv, link' = link, NEW f \in NodeAir, f.type = "SABM", toNode' = Append(toNode, f),
         ~OnAir("SABM"), \/ cut' = cut /\ peer' = peer
                         \/ cut' # NULL
  PROVE  toNode' \in Seq(NodeAir) /\ AckInv' /\ Sabms' = {Len(toNode')}
         /\ (toNode = <<>> => Sabms' = DOMAIN toNode')
         /\ \A i \in DOMAIN toNode' : toNode'[i].type = "REJ" =>
               i \in DOMAIN toNode /\ toNode'[i] = toNode[i]
<1> DEFINE n == Len(toNode)
<1>1. AirInv /\ AckInv
  BY DEF IInv
<1>2. /\ toNode' \in Seq(NodeAir) /\ n \in Nat /\ Len(toNode') = n + 1
      /\ DOMAIN toNode = 1 .. n /\ DOMAIN toNode' = 1 .. n + 1
      /\ \A i \in 1 .. n : toNode'[i] = toNode[i]
      /\ toNode'[n + 1] = f
  <2> DEFINE t == Append(toNode, f)
  <2>1. /\ t \in Seq(NodeAir) /\ n \in Nat /\ Len(t) = n + 1
        /\ DOMAIN toNode = 1 .. n /\ DOMAIN t = 1 .. n + 1
        /\ \A i \in 1 .. n : t[i] = toNode[i]
        /\ t[n + 1] = f
    BY <1>1, Grown DEF AirInv
  <2> HIDE DEF t
  <2>2. toNode' = t
    BY DEF t
  <2> QED BY <2>1, <2>2
<1>3. toNode = <<>> => n = 0
  BY SMT
<1> HIDE DEF n
<1>4. \A i \in DOMAIN toNode' : (i \in DOMAIN toNode /\ toNode'[i] = toNode[i]) \/ i = n + 1
  BY <1>2, SMT
<1>5. \A i \in DOMAIN toNode' : toNode'[i].type # "SABM" => i \in DOMAIN toNode /\ toNode'[i] = toNode[i]
  BY <1>2, <1>4
<1>6. AckInv'
  <2>1. \A x : Minus(x, link'.va) = D(x)
    BY DEF D
  <2> QED BY <1>1, <1>5, <2>1 DEF AckInv, D
<1>7. \A i \in DOMAIN toNode : toNode[i].type # "SABM"
  BY DEF OnAir
<1>8. n + 1 \in DOMAIN toNode'
  BY <1>2, SMT
<1>9. Sabms' = {n + 1}
  BY <1>2, <1>4, <1>7, <1>8 DEF Sabms
<1>10. toNode = <<>> => Sabms' = DOMAIN toNode'
  BY <1>2, <1>3, <1>9, SMT
<1>11. \A i \in DOMAIN toNode' : toNode'[i].type = "REJ" =>
               i \in DOMAIN toNode /\ toNode'[i] = toNode[i]
  BY <1>5
<1> QED BY <1>2, <1>6, <1>9, <1>10, <1>11

\* What the peer takes for acknowledged it has sent.
LEMMA PeerAcked ==
  ASSUME IInv, NEW nr \in SeqNo
  PROVE  /\ Acked(nr) \in Nat /\ peer.base <= Acked(nr) /\ Acked(nr) <= peer.next
         /\ peer.start <= Acked(nr)
<1> DEFINE b == (peer.base - peer.start) % Modulo
           d == Minus(nr, b)
<1>1. /\ peer.start \in Nat /\ peer.base \in Nat /\ peer.next \in Nat
      /\ peer.start <= peer.base /\ peer.base <= peer.next
  BY SMT DEF IInv, PeerInv, Peer
<1>2. b \in SeqNo
  BY <1>1, LinkAssumption, SMT DEF SeqNo
<1> HIDE DEF b
<1>3. d \in 0 .. Modulo - 1
  BY <1>2, Distance
<1>4. Acked(nr) = IF d <= peer.next - peer.base THEN peer.base + d ELSE peer.base
  BY DEF Acked, b
<1> HIDE DEF d
<1> QED BY <1>1, <1>3, <1>4, LinkAssumption, SMT

\* What does not concern the connection.
LEMMA NodeUntouched ==
  ASSUME IInv, UNCHANGED <<load, nodeVars>>, UNCHANGED cut,
         peer' \in Peer, peer'.start <= peer'.base, peer'.base <= peer'.next,
         peer'.start < peer'.next => peer'.next <= load[1],
         received' \in Seq(Msgs)
  PROVE  /\ LinkInv' /\ PeerInv' /\ link' = link /\ given' = given
         /\ \A w : SentInv(w) => SentInv(w)'
<1>1. link' = link /\ given' = given /\ seizes' = seizes /\ delivered' = delivered /\ load' = load
  BY DEF nodeVars
<1>2. LinkInv' /\ PeerInv'
  BY <1>1 DEF IInv, LinkInv, PeerInv
<1>3. \A w : SentInv(w) => SentInv(w)'
  BY <1>1 DEF SentInv, D
<1> QED BY <1>1, <1>2, <1>3

LEMMA Heads ==
  ASSUME IInv, toPeer # <<>>, toPeer' = Tail(toPeer)
  PROVE  /\ Behead(toPeer, toPeer', 1) /\ toPeer' \in Seq(PeerAir)
         /\ 1 \in DOMAIN toPeer /\ Head(toPeer) = toPeer[1] /\ Head(toPeer) \in PeerAir
         /\ Head(toPeer).nr \in SeqNo /\ Head(toPeer).ns \in SeqNo /\ Head(toPeer).pf \in BOOLEAN
<1>1. toPeer \in Seq(PeerAir)
  BY DEF IInv, AirInv
<1>2. Behead(toPeer, toPeer', 1) /\ toPeer' \in Seq(PeerAir)
  BY <1>1, Beheaded
<1>3. /\ Head(toPeer) = toPeer[1] /\ toPeer[1] \in PeerAir /\ Len(toPeer) \in Nat \ {0}
      /\ DOMAIN toPeer = 1 .. Len(toPeer)
  BY <1>1, Shortened
<1>4. 1 \in DOMAIN toPeer
  BY <1>3, SMT
<1>5. Head(toPeer).nr \in SeqNo /\ Head(toPeer).ns \in SeqNo /\ Head(toPeer).pf \in BOOLEAN
  BY <1>3, SMT DEF PeerAir, Frames
<1> QED BY <1>2, <1>3, <1>4, <1>5

\* Distances tell numbers apart, and the next number is one further.
LEMMA Apart ==
  ASSUME LinkInv, NEW x \in SeqNo
  PROVE  /\ \A y \in SeqNo : D(x) = D(y) => x = y
         /\ D(x) < Modulo - 1 => D(AX25MODULO(x + 1)) = D(x) + 1
         /\ AX25MODULO(x + 1) \in SeqNo
<1>1. link.va \in SeqNo
  BY Distances
<1>2. \A y \in SeqNo : D(y) = IF link.va <= y THEN y - link.va ELSE y + Modulo - link.va
  <2> TAKE y \in SeqNo
  <2>1. link.va \in 0 .. Modulo
    BY <1>1, LinkAssumption, SMT DEF SeqNo
  <2> QED BY <2>1, MinusValue DEF D
<1>3. AX25MODULO(x + 1) = IF x + 1 < Modulo THEN x + 1 ELSE (x + 1) - Modulo
  <2>1. x + 1 \in Nat /\ x + 1 < 2 * Modulo
    BY LinkAssumption, SMT DEF SeqNo
  <2> QED BY <2>1, Wrap
<1> DEFINE z == AX25MODULO(x + 1)
<1>4. z \in SeqNo
  BY <1>3, LinkAssumption, SMT DEF SeqNo
<1>5. z = IF x + 1 < Modulo THEN x + 1 ELSE (x + 1) - Modulo
  BY <1>3
<1> HIDE DEF z
<1>6. ASSUME NEW y \in SeqNo, D(x) = D(y) PROVE x = y
  <2>1. /\ D(x) = IF link.va <= x THEN x - link.va ELSE x + Modulo - link.va
        /\ D(y) = IF link.va <= y THEN y - link.va ELSE y + Modulo - link.va
    BY <1>2
  <2>2. (IF link.va <= x THEN x - link.va ELSE x + Modulo - link.va)
          = IF link.va <= y THEN y - link.va ELSE y + Modulo - link.va
    BY <1>6, <2>1
  <2>3. /\ x \in 0 .. Modulo - 1 /\ y \in 0 .. Modulo - 1 /\ link.va \in 0 .. Modulo - 1
        /\ Modulo \in Nat
    BY <1>1, LinkAssumption DEF SeqNo
  <2> QED BY <2>2, <2>3, SMT
<1>7. ASSUME D(x) < Modulo - 1 PROVE D(z) = D(x) + 1
  <2>1. /\ D(x) = IF link.va <= x THEN x - link.va ELSE x + Modulo - link.va
        /\ D(z) = IF link.va <= z THEN z - link.va ELSE z + Modulo - link.va
    BY <1>2, <1>4
  <2> QED BY <1>1, <1>4, <1>5, <1>7, <2>1, LinkAssumption, SMT DEF SeqNo
<1> QED BY <1>4, <1>6, <1>7 DEF z

\* What the peer sends, other than SABMs.
LEMMA PeerFrames ==
  ASSUME IInv, NEW pf \in BOOLEAN, NEW nr \in SeqNo
  PROVE  /\ \A type \in {"RR", "REJ"} : LET f == SFrame(type, "res", pf, nr)
                                         IN  f \in NodeAir /\ f.type = type /\ f.nr = nr
         /\ \A m \in Msgs : LET f == MessageFrame(m, pf)
                            IN  /\ peer.start <= m => f \in NodeAir
                                /\ f.type = "I" /\ f.nr = peer.expect
         /\ Sabm \in NodeAir /\ Sabm.type = "SABM"
<1>1. 0 \in SeqNo /\ peer.expect \in SeqNo /\ peer.start \in Nat
  BY LinkAssumption, SMT DEF SeqNo, IInv, PeerInv, Peer
<1>2. \A type \in {"RR", "REJ"} : LET f == SFrame(type, "res", pf, nr)
                                   IN  f \in NodeAir /\ f.type = type /\ f.nr = nr
  BY <1>1, SMT DEF SFrame, Frame, Frames, FrameTypes, NodeAir
<1>3. Sabm \in NodeAir /\ Sabm.type = "SABM"
  BY <1>1, SMT DEF Sabm, UFrame, Frame, Frames, FrameTypes, NodeAir
<1>4. ASSUME NEW m \in Msgs
      PROVE  LET f == MessageFrame(m, pf)
             IN  (peer.start <= m => f \in NodeAir) /\ f.type = "I" /\ f.nr = peer.expect
  <2> DEFINE ns == (m - peer.start) % Modulo
  <2>1. m \in Nat
    BY DeliveryAssumption, SMT
  <2>2. peer.start <= m => ns \in SeqNo
    BY <1>1, <2>1, LinkAssumption, SMT DEF SeqNo
  <2>3. MessageFrame(m, pf) = Frame("I", "cmd", pf, peer.expect, ns, m)
    BY DEF MessageFrame
  <2> HIDE DEF ns
  <2> QED BY <1>1, <2>2, <2>3, SMT DEF Frame, Frames, FrameTypes, NodeAir
<1> QED BY <1>2, <1>3, <1>4

\* The frame that the peer waits for.
LEMMA TakenInSequence ==
  ASSUME IInv, NEW f, f = Head(toPeer), toPeer # <<>>, toPeer' = Tail(toPeer),
         f.type = "I", peer.state = "connected", f.ns = peer.expect,
         UNCHANGED <<load, nodeVars>>, UNCHANGED cut, PeerTakesI(f)
  PROVE  IInv'
<1> DEFINE e == D(peer.expect)
           next == AX25MODULO(peer.expect + 1)
           rr == SFrame("RR", "res", f.pf, next)
<1>1. /\ LinkInv /\ AirInv /\ PeerInv /\ PhaseInv /\ AckInv /\ OrderInv /\ ReceivedInv
      /\ peer \in Peer /\ peer.expect \in SeqNo
  BY SMT DEF IInv, PeerInv, Peer
<1>2. /\ Behead(toPeer, toPeer', 1) /\ toPeer' \in Seq(PeerAir) /\ 1 \in DOMAIN toPeer
      /\ f = toPeer[1] /\ f \in PeerAir /\ f.nr \in SeqNo /\ f.ns \in SeqNo /\ f.pf \in BOOLEAN
  BY Heads
<1>3. f.msg \in Msgs
  BY <1>2 DEF PeerAir
<1>4. /\ received' = Append(received, f.msg) /\ toNode' = Append(toNode, rr)
      /\ peer' = [peer EXCEPT !.base = Acked(f.nr), !.expect = next, !.rejecting = FALSE]
  <2>1. /\ received' = Append(received, f.msg) /\ toNode' = Append(toNode, rr)
        /\ peer' = [[peer EXCEPT !.base = Acked(f.nr)]
                      EXCEPT !.expect = AX25MODULO(@ + 1), !.rejecting = FALSE]
    BY DEF PeerTakesI, PeerEmits
  <2> QED BY <1>1, <2>1, Zenon DEF Peer
<1>5. next \in SeqNo
  BY <1>1, Apart
<1> HIDE DEF next
<1>6. /\ peer' \in Peer /\ peer'.state = "connected" /\ peer'.expect = next /\ ~peer'.rejecting
      /\ peer'.start = peer.start /\ peer'.base = Acked(f.nr) /\ peer'.next = peer.next
  <2>1. Acked(f.nr) \in Nat
    BY <1>2, PeerAcked
  <2>2. FALSE \in BOOLEAN
    OBVIOUS
  <2>3. peer' \in Peer
    BY <1>1, <1>4, <1>5, <2>1, <2>2, Zenon DEF Peer
  <2>4. DOMAIN peer = {"state", "start", "base", "next", "expect", "rejecting", "restarts"}
    BY <1>1, SMT DEF Peer
  <2>5. /\ peer'.state = peer.state /\ peer'.expect = next /\ peer'.rejecting = FALSE
        /\ peer'.start = peer.start /\ peer'.base = Acked(f.nr) /\ peer'.next = peer.next
    BY <1>4, <2>4, SMT
  <2> QED BY <2>3, <2>5
<1>7. received \in Seq(Msgs) /\ received' \in Seq(Msgs) /\ load' = load
  <2>1. received \in Seq(Msgs)
    BY <1>1 DEF PeerInv
  <2> QED BY <1>3, <1>4, <2>1, SMT
<1>8. /\ LinkInv' /\ PeerInv' /\ link' = link /\ given' = given
      /\ \A w : SentInv(w) => SentInv(w)'
  <2>1. /\ peer'.start <= peer'.base /\ peer'.base <= peer'.next
        /\ peer'.start < peer'.next => peer'.next <= load[1]
    BY <1>1, <1>2, <1>6, PeerAcked DEF PeerInv
  <2> QED BY <1>6, <1>7, <2>1, NodeUntouched
<1>9. cut = NULL /\ Sabms = {} /\ Uas = {} /\ cut' = NULL
  BY <1>1 DEF PhaseInv
<1>10. 1 \in LiveData
  BY <1>2 DEF LiveData
<1>11. PICK w \in Nat : SentInv(w) /\ DataInv(w)
  BY DEF IInv
<1>12. /\ f.msg = w + e /\ e < D(link.vs) /\ e <= D(link.vs)
       /\ \A i \in DOMAIN received : received[i] < w + e
  BY <1>2, <1>9, <1>10, <1>11 DEF DataInv
<1>13. e \in 0 .. Modulo - 1 /\ D(link.vs) \in 0 .. Modulo - 1 /\ e \in Nat /\ D(link.vs) \in Nat
       /\ e < Modulo - 1
  <2>1. e \in 0 .. Modulo - 1 /\ D(link.vs) \in 0 .. Modulo - 1
    BY <1>1, Distances
  <2> HIDE DEF e
  <2> QED BY <1>12, <2>1, LinkAssumption, SMT
<1>14. D(next) = e + 1
  BY <1>1, <1>13, Apart DEF next
<1>15. \A i \in DOMAIN toNode : toNode[i].type # "REJ"
  <2> SUFFICES ASSUME NEW i \in DOMAIN toNode, toNode[i].type = "REJ" PROVE FALSE
    OBVIOUS
  <2>1. e < D(toPeer[1].ns)
    BY <1>1, <1>9, <1>10 DEF OrderInv
  <2>2. e < e
    BY <1>2, <2>1
  <2> HIDE DEF e
  <2> QED BY <1>13, <2>2, SMT
<1>16. ASSUME NEW i \in LiveData, NEW j \in LiveData, i < j
       PROVE  D(toPeer[i].ns) < D(toPeer[j].ns)
  <2>1. i \in DOMAIN toPeer /\ 1 <= i
    <3>1. i \in DOMAIN toPeer
      BY DEF LiveData
    <3> QED BY <1>1, <3>1, SMT DEF AirInv
  <2>2. ~(D(toPeer[j].ns) <= D(toPeer[i].ns))
    <3> SUFFICES ASSUME D(toPeer[j].ns) <= D(toPeer[i].ns) PROVE FALSE
      OBVIOUS
    <3>1. e < D(toPeer[1].ns)
      BY <1>1, <1>10, <1>16, <2>1 DEF OrderInv
    <3>2. e < e
      BY <1>2, <3>1
    <3> HIDE DEF e
    <3> QED BY <1>13, <3>2, SMT
  <2>3. D(toPeer[i].ns) \in 0 .. Modulo - 1 /\ D(toPeer[j].ns) \in 0 .. Modulo - 1
    <3>1. toPeer[i].ns \in SeqNo /\ toPeer[j].ns \in SeqNo
      BY <1>1, LiveUncut
    <3> QED BY <1>1, <3>1, Distances
  <2> QED BY <2>2, <2>3, LinkAssumption, SMT
<1>17. \A i \in LiveData' : i \in Int /\ toPeer'[i] = toPeer[i + 1] /\ i + 1 \in LiveData
  BY <1>1, <1>2, <1>6, LiveBeheaded
<1>18. \A i \in LiveData' : i \in DOMAIN toPeer' /\ 1 < i + 1
  <2> TAKE i \in LiveData'
  <2>1. i \in DOMAIN toPeer'
    BY DEF LiveData
  <2> QED BY <1>2, <2>1, SMT DEF Behead
<1>19. /\ rr \in NodeAir /\ rr.type = "RR" /\ rr.nr = next
  BY <1>2, <1>5, PeerFrames
<1>20. toNode' \in Seq(NodeAir) /\ AckInv' /\ Sabms' = {}
  <2>1. D(peer.expect) <= D(peer'.expect) /\ D(peer'.expect) <= D(link.vs)
    <3>1. D(peer'.expect) = e + 1
      BY <1>6, <1>14
    <3>2. e <= e + 1 /\ e + 1 <= D(link.vs)
      <4> HIDE DEF e
      <4> QED BY <1>12, <1>13, SMT
    <3> QED BY <3>1, <3>2
  <2>2. rr.type # "SABM" /\ rr.type # "REJ" /\ rr.nr = peer'.expect /\ peer'.expect \in SeqNo
    BY <1>5, <1>6, <1>19
  <2> HIDE DEF rr
  <2> QED BY <1>4, <1>8, <1>9, <1>19, <2>1, <2>2, Reported
<1>21. AirInv'
  BY <1>2, <1>20 DEF AirInv
<1>22. PhaseInv'
  <2>1. Uas' = {}
    BY <1>2, <1>9, LiveBeheaded
  <2> QED BY <1>6, <1>9, <1>20, <2>1 DEF PhaseInv
<1>23. \A i \in DOMAIN toNode' : toNode'[i].type # "REJ"
  <2>1. toNode \in Seq(NodeAir)
    BY <1>1 DEF AirInv
  <2>2. \A i \in DOMAIN Append(toNode, rr) :
          \/ i \in DOMAIN toNode /\ Append(toNode, rr)[i] = toNode[i]
          \/ Append(toNode, rr)[i] = rr
    <3> HIDE DEF rr
    <3> QED BY <1>19, <2>1, SMT
  <2> HIDE DEF rr
  <2> QED BY <1>4, <1>15, <1>19, <2>2
<1>24. \A x : D(x)' = Minus(x', link.va)
  BY <1>8 DEF D
<1>25. ASSUME NEW i \in LiveData', NEW j \in LiveData', i < j
       PROVE  ~(D(toPeer[j].ns)' <= D(toPeer[i].ns)')
  <2>1. /\ i + 1 \in LiveData /\ j + 1 \in LiveData /\ i + 1 < j + 1
        /\ D(toPeer[j].ns)' = D(toPeer[j + 1].ns) /\ D(toPeer[i].ns)' = D(toPeer[i + 1].ns)
    <3>1. i \in Int /\ j \in Int
      BY <1>17
    <3>2. i + 1 < j + 1
      BY <1>25, <3>1, SMT
    <3> QED BY <1>8, <1>17, <3>2 DEF D
  <2>2. D(toPeer[i + 1].ns) < D(toPeer[j + 1].ns)
    BY <1>16, <2>1
  <2>3. D(toPeer[i + 1].ns) \in Int /\ D(toPeer[j + 1].ns) \in Int
    <3>1. toPeer[i + 1].ns \in SeqNo /\ toPeer[j + 1].ns \in SeqNo
      BY <1>1, <2>1, LiveUncut
    <3>2. D(toPeer[i + 1].ns) \in 0 .. Modulo - 1 /\ D(toPeer[j + 1].ns) \in 0 .. Modulo - 1
      BY <1>1, <3>1, Distances
    <3> QED BY <3>2, LinkAssumption, SMT
  <2>4. ~(D(toPeer[j + 1].ns) <= D(toPeer[i + 1].ns))
    BY <2>2, <2>3, SMT
  <2> QED BY <2>1, <2>4
<1>26. OrderInv'
  BY <1>23, <1>25 DEF OrderInv
<1>27. D(peer.expect)' = e + 1
  <2>1. D(peer.expect)' = D(next)
    BY <1>6, <1>8 DEF D
  <2> QED BY <1>14, <2>1
<1>28. /\ Len(received) \in Nat /\ DOMAIN received = 1 .. Len(received)
       /\ DOMAIN received' = 1 .. Len(received) + 1
       /\ \A i \in 1 .. Len(received) : received'[i] = received[i]
       /\ received'[Len(received) + 1] = w + e
  <2> DEFINE t == Append(received, f.msg)
  <2>1. /\ Len(received) \in Nat /\ DOMAIN received = 1 .. Len(received)
        /\ DOMAIN t = 1 .. Len(received) + 1
        /\ \A i \in 1 .. Len(received) : t[i] = received[i]
        /\ t[Len(received) + 1] = f.msg
    BY <1>3, <1>7, Grown
  <2> HIDE DEF t
  <2>2. received' = t
    BY <1>4 DEF t
  <2> QED BY <1>12, <2>1, <2>2
<1>29. \A i \in DOMAIN received' : (i \in DOMAIN received /\ received'[i] = received[i])
                                   \/ (i = Len(received) + 1 /\ received'[i] = w + e)
  <2> TAKE i \in DOMAIN received'
  <2>1. i \in DOMAIN received \/ i = Len(received) + 1
    BY <1>28, SMT
  <2> QED BY <1>28, <2>1
<1>30. \A i \in DOMAIN received : received[i] \in Int
  <2>1. Msgs \subseteq Int
    BY DeliveryAssumption, SMT
  <2>2. \A i \in DOMAIN received : received[i] \in Msgs
    BY <1>7, SMT
  <2> QED BY <2>1, <2>2
<1>31. \A i \in DOMAIN received' : received'[i] < w + (e + 1)
  <2> TAKE i \in DOMAIN received'
  <2>1. CASE i \in DOMAIN received /\ received'[i] = received[i]
    <3>1. received[i] < w + e /\ received[i] \in Int
      BY <1>12, <1>30, <2>1
    <3> HIDE DEF e
    <3> QED BY <1>11, <1>13, <2>1, <3>1, SMT
  <2>2. CASE received'[i] = w + e
    <3> HIDE DEF e
    <3> QED BY <1>11, <1>13, <2>2, SMT
  <2> QED BY <1>29, <2>1, <2>2
<1>32. DataInv(w)'
  <2>1. ASSUME NEW i \in LiveData'
        PROVE  /\ toPeer'[i].msg = w + D(toPeer[i].ns)'
               /\ e + 1 <= D(toPeer[i].ns)'
               /\ D(toPeer[i].ns)' < D(link.vs)'
    <3>1. /\ i + 1 \in LiveData /\ toPeer'[i] = toPeer[i + 1]
          /\ D(toPeer[i].ns)' = D(toPeer[i + 1].ns) /\ D(link.vs)' = D(link.vs)
      BY <1>8, <1>17 DEF D
    <3>2. toPeer[i + 1].msg = w + D(toPeer[i + 1].ns) /\ D(toPeer[i + 1].ns) < D(link.vs)
      BY <1>11, <3>1 DEF DataInv
    <3>3. e < D(toPeer[i + 1].ns)
      BY <1>2, <1>10, <1>16, <1>18, <3>1
    <3>4. D(toPeer[i + 1].ns) \in Int
      <4>1. toPeer[i + 1].ns \in SeqNo
        BY <1>1, <3>1, LiveUncut
      <4>2. D(toPeer[i + 1].ns) \in 0 .. Modulo - 1
        BY <1>1, <4>1, Distances
      <4> QED BY <4>2, LinkAssumption, SMT
    <3>5. e + 1 <= D(toPeer[i + 1].ns)
      <4> HIDE DEF e
      <4> QED BY <1>13, <3>3, <3>4, SMT
    <3> QED BY <3>1, <3>2, <3>5
  <2>2. e + 1 <= D(link.vs)'
    <3>1. e + 1 <= D(link.vs)
      <4> HIDE DEF e
      <4> QED BY <1>12, <1>13, SMT
    <3> QED BY <1>8, <3>1 DEF D
  <2> HIDE DEF e
  <2> QED BY <1>27, <1>31, <2>1, <2>2 DEF DataInv
<1>33. ReceivedInv'
  <2>1. ASSUME NEW i \in DOMAIN received', NEW j \in DOMAIN received', i < j
        PROVE  received'[i] < received'[j]
    <3>1. i \in 1 .. Len(received) + 1 /\ j \in 1 .. Len(received) + 1
      BY <1>28
    <3>2. i \in DOMAIN received
      BY <1>28, <2>1, <3>1, SMT
    <3>3. received'[i] = received[i]
      BY <1>28, <3>2
    <3>4. CASE j \in DOMAIN received
      BY <1>1, <1>28, <2>1, <3>2, <3>3, <3>4 DEF ReceivedInv, InOrder
    <3>5. CASE received'[j] = w + e
      BY <1>12, <3>2, <3>3, <3>5
    <3> QED BY <1>29, <3>4, <3>5
  <2>2. w + e < given - Len(link.i_frame_queue)
    <3>1. w + D(link.vs) <= given - Len(link.i_frame_queue)
      BY <1>11 DEF SentInv
    <3>2. given \in Int /\ Len(link.i_frame_queue) \in Int
      <4>1. link.i_frame_queue \in Seq(Msgs)
        BY <1>1 DEF LinkInv, Idle, Good, Typed
      <4>2. load \in (0 .. Total) \X (0 .. Total) /\ given \in 0 .. load[2]
        BY <1>1 DEF PeerInv
      <4>3. load[2] \in Nat
        BY <4>2, DeliveryAssumption, SMT
      <4> QED BY <4>1, <4>2, <4>3, SMT
    <3> HIDE DEF e
    <3> QED BY <1>11, <1>12, <1>13, <3>1, <3>2, SMT
  <2>3. \A i \in DOMAIN received' : received'[i] < given - Len(link.i_frame_queue)
    BY <1>1, <1>29, <2>2 DEF ReceivedInv
  <2> QED BY <1>8, <2>1, <2>3 DEF ReceivedInv, InOrder
<1> QED BY <1>8, <1>11, <1>20, <1>21, <1>22, <1>26, <1>32, <1>33 DEF IInv

\* The peer goes on as it was, and takes nothing.
LEMMA PeerGoesOn ==
  ASSUME IInv, UNCHANGED <<load, nodeVars>>, UNCHANGED cut, received' = received,
         peer' \in Peer, peer'.start = peer.start, peer'.base <= peer'.next,
         peer'.start <= peer'.base, peer'.start < peer'.next => peer'.next <= load[1],
         peer'.expect = peer.expect, peer'.rejecting = peer.rejecting,
         NEW k \in {0, 1}, Behead(toPeer, toPeer', k), toPeer' \in Seq(PeerAir),
         \A i \in LiveData' : i + k \in LiveData,
         PhaseInv', AckInv', toNode' \in Seq(NodeAir),
         \A i \in DOMAIN toNode' : toNode'[i].type = "REJ" =>
            i \in DOMAIN toNode /\ toNode'[i] = toNode[i]
  PROVE  IInv'
<1>1. received' \in Seq(Msgs)
  BY DEF IInv, PeerInv
<1>2. /\ LinkInv' /\ PeerInv' /\ link' = link /\ given' = given
      /\ \A w : SentInv(w) => SentInv(w)'
  BY <1>1, NodeUntouched
<1>3. OrderInv' /\ \A w : DataInv(w) => DataInv(w)'
  BY <1>2, LiveMoved
<1>4. ReceivedInv'
  BY <1>2 DEF IInv, ReceivedInv
<1>5. AirInv'
  BY DEF AirInv
<1>6. \E w \in Nat : SentInv(w)' /\ DataInv(w)'
  BY <1>2, <1>3 DEF IInv
<1> QED BY <1>2, <1>3, <1>4, <1>5, <1>6 DEF IInv

\* The phase is what it was, or an I frame or a report has gone out on a connection.
LEMMA PhaseGoesOn ==
  ASSUME IInv, link' = link, cut' = cut, peer'.state = peer.state,
         peer'.expect = peer.expect, peer'.rejecting = peer.rejecting,
         peer'.start = peer.start,
         NEW k \in {0, 1}, Behead(toPeer, toPeer', k),
         \/ toNode' = toNode /\ (peer.state = "connecting" => peer' = peer)
         \/ /\ peer.state = "connected"
            /\ \E f \in NodeAir : /\ toNode' = Append(toNode, f) /\ f.type \in {"I", "RR"}
                                  /\ f.nr = peer.expect
  PROVE  /\ PhaseInv' /\ AckInv' /\ toNode' \in Seq(NodeAir)
         /\ \A i \in LiveData' : i + k \in LiveData
         /\ \A i \in DOMAIN toNode' : toNode'[i].type = "REJ" =>
              i \in DOMAIN toNode /\ toNode'[i] = toNode[i]
<1>1. LinkInv /\ AirInv /\ PhaseInv /\ AckInv /\ peer.expect \in SeqNo /\ toNode \in Seq(NodeAir)
  BY SMT DEF IInv, PeerInv, Peer, AirInv
<1>2. /\ \A i \in Uas' : i + k \in Uas
      /\ \A i \in LiveData' : i + k \in LiveData
  BY LiveBeheaded
<1>3. \A i, j \in Uas' : i = j
  <2> TAKE i, j \in Uas'
  <2>1. i + k = j + k
    BY <1>1, <1>2 DEF PhaseInv
  <2>2. i \in Int /\ j \in Int
    <3>1. i \in DOMAIN toPeer' /\ j \in DOMAIN toPeer'
      BY DEF Uas
    <3> QED BY <3>1, SMT DEF Behead
  <2> QED BY <2>1, <2>2, SMT
<1>4. CASE toNode' = toNode /\ (peer.state = "connecting" => peer' = peer)
  <2>1. Sabms' = Sabms
    BY <1>4 DEF Sabms
  <2>2. PhaseInv'
    BY <1>1, <1>2, <1>3, <1>4, <2>1 DEF PhaseInv
  <2>3. AckInv'
    BY <1>1, <1>4 DEF AckInv, D
  <2> QED BY <1>1, <1>2, <1>4, <2>2, <2>3
<1>5. CASE /\ peer.state = "connected"
           /\ \E f \in NodeAir : /\ toNode' = Append(toNode, f) /\ f.type \in {"I", "RR"}
                                 /\ f.nr = peer.expect
  <2>1. PICK f \in NodeAir : /\ toNode' = Append(toNode, f) /\ f.type \in {"I", "RR"}
                             /\ f.nr = peer.expect
    BY <1>5
  <2>2. cut = NULL /\ Sabms = {} /\ Uas = {} /\ Uas' = {}
    BY <1>1, <1>2, <1>5 DEF PhaseInv
  <2>3. D(peer.expect) <= D(link.vs) /\ D(peer.expect) <= D(peer.expect)
    <3>1. D(peer.expect) <= D(link.vs)
      BY <2>2 DEF IInv, DataInv
    <3>2. D(peer.expect) \in 0 .. Modulo - 1
      BY <1>1, Distances
    <3> QED BY <3>1, <3>2, LinkAssumption, SMT
  <2>4. f.type # "SABM" /\ f.type # "REJ"
    BY <2>1
  <2>5. toNode' \in Seq(NodeAir) /\ AckInv' /\ Sabms' = {}
    BY <1>1, <2>1, <2>2, <2>3, <2>4, Reported
  <2>6. PhaseInv'
    BY <1>1, <1>5, <2>2, <2>5 DEF PhaseInv
  <2>7. \A i \in DOMAIN toNode' : toNode'[i].type = "REJ" =>
              i \in DOMAIN toNode /\ toNode'[i] = toNode[i]
    <3>1. \A i \in DOMAIN Append(toNode, f) :
            \/ i \in DOMAIN toNode /\ Append(toNode, f)[i] = toNode[i]
            \/ Append(toNode, f)[i] = f
      BY <1>1, SMT
    <3> QED BY <2>1, <2>4, <3>1
  <2> QED BY <1>2, <2>5, <2>6, <2>7
<1> QED BY <1>4, <1>5

\* A frame with data that the peer does not wait for.
LEMMA TakenOutOfSequence ==
  ASSUME IInv, NEW f, f = Head(toPeer), toPeer # <<>>, toPeer' = Tail(toPeer),
         f.type = "I", peer.state = "connected", f.ns # peer.expect,
         UNCHANGED <<load, nodeVars>>, UNCHANGED cut, PeerTakesI(f)
  PROVE  IInv'
<1> DEFINE e == D(peer.expect)
           rej == SFrame("REJ", "res", f.pf, peer.expect)
<1>1. /\ LinkInv /\ AirInv /\ PeerInv /\ PhaseInv /\ AckInv /\ OrderInv /\ ReceivedInv
      /\ peer \in Peer /\ peer.expect \in SeqNo
  BY SMT DEF IInv, PeerInv, Peer
<1>2. /\ Behead(toPeer, toPeer', 1) /\ toPeer' \in Seq(PeerAir) /\ 1 \in DOMAIN toPeer
      /\ f = toPeer[1] /\ f \in PeerAir /\ f.nr \in SeqNo /\ f.ns \in SeqNo /\ f.pf \in BOOLEAN
  BY Heads
<1>3. /\ received' = received
      /\ peer' = [peer EXCEPT !.base = Acked(f.nr), !.rejecting = TRUE]
      /\ \/ peer.rejecting /\ toNode' = toNode
         \/ ~peer.rejecting /\ toNode' = Append(toNode, rej)
  <2>1. peer' = [[peer EXCEPT !.base = Acked(f.nr)] EXCEPT !.rejecting = TRUE]
    BY DEF PeerTakesI
  <2> QED BY <1>1, <2>1, Zenon DEF Peer, PeerTakesI, PeerEmits
<1>4. /\ peer' \in Peer /\ peer'.state = peer.state /\ peer'.expect = peer.expect
      /\ peer'.rejecting /\ peer'.rejecting = TRUE
      /\ peer'.start = peer.start /\ peer'.base = Acked(f.nr) /\ peer'.next = peer.next
  <2>1. Acked(f.nr) \in Nat
    BY <1>2, PeerAcked
  <2>2. TRUE \in BOOLEAN
    OBVIOUS
  <2>3. peer' \in Peer
    BY <1>1, <1>3, <2>1, <2>2, Zenon DEF Peer
  <2>4. DOMAIN peer = {"state", "start", "base", "next", "expect", "rejecting", "restarts"}
    BY <1>1, SMT DEF Peer
  <2>5. /\ peer'.state = peer.state /\ peer'.expect = peer.expect /\ peer'.rejecting = TRUE
        /\ peer'.start = peer.start /\ peer'.base = Acked(f.nr) /\ peer'.next = peer.next
    BY <1>3, <2>4, SMT
  <2> QED BY <2>3, <2>5
<1>5. /\ peer'.start <= peer'.base /\ peer'.base <= peer'.next
      /\ peer'.start < peer'.next => peer'.next <= load[1]
  BY <1>1, <1>2, <1>4, PeerAcked DEF PeerInv
<1>6. cut = NULL /\ Sabms = {} /\ Uas = {} /\ cut' = NULL /\ link' = link
  BY <1>1 DEF PhaseInv, nodeVars
<1>7. CASE peer.rejecting
  <2>1. peer.rejecting = TRUE
    BY <1>1, <1>7 DEF Peer
  <2>2. toNode' = toNode /\ (peer.state = "connecting" => peer' = peer)
    BY <1>3, <1>7
  <2>3. /\ PhaseInv' /\ AckInv' /\ toNode' \in Seq(NodeAir)
        /\ \A i \in LiveData' : i + 1 \in LiveData
        /\ \A i \in DOMAIN toNode' : toNode'[i].type = "REJ" =>
              i \in DOMAIN toNode /\ toNode'[i] = toNode[i]
    BY <1>2, <1>4, <1>6, <2>1, <2>2, PhaseGoesOn
  <2> QED BY <1>2, <1>3, <1>4, <1>5, <2>1, <2>3, PeerGoesOn
<1>8. CASE ~peer.rejecting
  <2>1. PICK w \in Nat : SentInv(w) /\ DataInv(w)
    BY DEF IInv
  <2>2. 1 \in LiveData
    BY <1>2 DEF LiveData
  <2>3. D(f.ns) \in 0 .. Modulo - 1 /\ e \in 0 .. Modulo - 1 /\ D(link.vs) \in 0 .. Modulo - 1
    BY <1>1, <1>2, Distances
  <2>4. e < D(f.ns) /\ D(f.ns) < D(link.vs) /\ e < D(link.vs) /\ e <= D(link.vs) /\ e <= e
    <3>1. e <= D(f.ns) /\ D(f.ns) < D(link.vs)
      BY <1>2, <2>1, <2>2 DEF DataInv
    <3>2. e # D(f.ns)
      BY <1>1, <1>2, Apart
    <3> HIDE DEF e
    <3> QED BY <2>3, <3>1, <3>2, LinkAssumption, SMT
  <2>5. rej \in NodeAir /\ rej.type = "REJ" /\ rej.nr = peer.expect
    BY <1>1, <1>2, PeerFrames
  <2>6. toNode' = Append(toNode, rej)
    BY <1>3, <1>8
  <2> HIDE DEF rej
  <2>7. toNode' \in Seq(NodeAir) /\ AckInv' /\ Sabms' = {}
    <3>1. rej.type # "SABM"
      BY <2>5
    <3> QED BY <1>1, <1>4, <1>6, <2>4, <2>5, <2>6, <3>1, Reported
  <2>8. /\ \A i \in LiveData' : i \in Int /\ toPeer'[i] = toPeer[i + 1] /\ i + 1 \in LiveData
        /\ Uas' = {}
    BY <1>2, <1>4, <1>6, LiveBeheaded
  <2>9. PhaseInv'
    BY <1>4, <1>6, <2>7, <2>8 DEF PhaseInv
  <2>10. \A i, j \in LiveData : i < j => ~(D(toPeer[j].ns) <= D(toPeer[i].ns))
    BY <1>1, <1>8 DEF OrderInv
  <2>11. /\ LinkInv' /\ PeerInv' /\ link' = link /\ given' = given
         /\ \A u : SentInv(u) => SentInv(u)'
    <3>1. received' \in Seq(Msgs)
      BY <1>1, <1>3 DEF PeerInv
    <3> QED BY <1>4, <1>5, <3>1, NodeUntouched
  <2>12. /\ \A x : Minus(x, link'.va) = D(x)
         /\ D(peer.expect)' = e /\ D(link.vs)' = D(link.vs)
    BY <1>4, <1>6 DEF D
  <2>13. DataInv(w)'
    BY <1>3, <1>6, <2>1, <2>8, <2>12 DEF DataInv, D
  <2>14. \A h \in LiveData' : e < D(toPeer[h].ns)'
    <3> TAKE h \in LiveData'
    <3>1. h + 1 \in LiveData /\ D(toPeer[h].ns)' = D(toPeer[h + 1].ns)
      BY <1>6, <2>8 DEF D
    <3>2. 1 < h + 1
      <4>1. h \in DOMAIN toPeer'
        BY DEF LiveData
      <4> QED BY <1>2, <4>1, SMT DEF Behead
    <3>3. ~(D(toPeer[h + 1].ns) <= D(f.ns))
      BY <1>2, <2>2, <2>10, <3>1, <3>2
    <3>4. D(toPeer[h + 1].ns) \in 0 .. Modulo - 1
      <4>1. toPeer[h + 1].ns \in SeqNo
        BY <1>1, <3>1, LiveUncut
      <4> QED BY <1>1, <4>1, Distances
    <3>5. e < D(toPeer[h + 1].ns)
      <4> HIDE DEF e
      <4> QED BY <2>3, <2>4, <3>3, <3>4, LinkAssumption, SMT
    <3> QED BY <3>1, <3>5
  <2>15. \A i \in LiveData', j \in LiveData' : i < j => ~(D(toPeer[j].ns)' <= D(toPeer[i].ns)')
    <3> TAKE i \in LiveData', j \in LiveData'
    <3> SUFFICES ASSUME i < j PROVE ~(D(toPeer[j].ns)' <= D(toPeer[i].ns)')
      OBVIOUS
    <3>1. /\ i + 1 \in LiveData /\ j + 1 \in LiveData /\ i \in Int /\ j \in Int
          /\ D(toPeer[i].ns)' = D(toPeer[i + 1].ns) /\ D(toPeer[j].ns)' = D(toPeer[j + 1].ns)
      BY <1>6, <2>8 DEF D
    <3>2. i + 1 < j + 1
      BY <3>1, SMT
    <3> QED BY <2>10, <3>1, <3>2
  <2>16. \A i \in DOMAIN toNode : toNode[i].type # "REJ"
    BY <1>1, <1>6, <1>8 DEF OrderInv
  <2>17. \A i \in DOMAIN toNode' : toNode'[i].type = "REJ" => toNode'[i] = rej /\ i = Len(toNode) + 1
    <3>1. toNode \in Seq(NodeAir)
      BY <1>1 DEF AirInv
    <3>2. \A i \in DOMAIN Append(toNode, rej) :
            \/ i \in DOMAIN toNode /\ Append(toNode, rej)[i] = toNode[i]
            \/ Append(toNode, rej)[i] = rej /\ i = Len(toNode) + 1
      BY <2>5, <3>1, SMT
    <3> QED BY <2>6, <2>16, <3>2
  <2>18. OrderInv'
    <3>1. \A i \in DOMAIN toNode' : toNode'[i].type = "REJ" =>
            /\ toNode'[i].nr = peer'.expect
            /\ \A j \in DOMAIN toNode' : toNode'[j].type = "REJ" => i = j
      BY <1>4, <2>5, <2>17
    <3> QED BY <1>4, <2>4, <2>12, <2>14, <2>15, <3>1 DEF OrderInv
  <2>19. ReceivedInv'
    BY <1>1, <1>3, <2>11 DEF ReceivedInv
  <2>20. AirInv'
    BY <1>2, <2>7 DEF AirInv
  <2> QED BY <2>1, <2>7, <2>9, <2>11, <2>13, <2>18, <2>19, <2>20 DEF IInv
<1> QED BY <1>7, <1>8

\* The peer as it is between events.
LEMMA PeerNow ==
  ASSUME IInv
  PROVE  /\ peer \in Peer /\ peer.start \in Nat /\ peer.base \in Nat /\ peer.next \in Nat
         /\ peer.start <= peer.base /\ peer.base <= peer.next /\ peer.expect \in SeqNo
         /\ (peer.start < peer.next => peer.next <= load[1])
         /\ load[1] \in 0 .. Total /\ received \in Seq(Msgs)
         /\ DOMAIN peer = {"state", "start", "base", "next", "expect", "rejecting", "restarts"}
         /\ Behead(toPeer, toPeer, 0) /\ toPeer \in Seq(PeerAir) /\ toNode \in Seq(NodeAir)
<1>1. PeerInv /\ AirInv /\ peer \in Peer
  BY DEF IInv, PeerInv
<1>2. /\ peer.start \in Nat /\ peer.base \in Nat /\ peer.next \in Nat /\ peer.expect \in SeqNo
      /\ DOMAIN peer = {"state", "start", "base", "next", "expect", "rejecting", "restarts"}
  BY <1>1, SMT DEF Peer
<1>3. load \in (0 .. Total) \X (0 .. Total)
  BY <1>1 DEF PeerInv
<1>4. load[1] \in 0 .. Total
  BY <1>3, SMT
<1> QED BY <1>1, <1>2, <1>4, Beheaded DEF PeerInv, AirInv

LEMMA PeerSendKeeps == IInv /\ (PeerSend \/ PeerResend) => IInv'
<1> SUFFICES ASSUME IInv, PeerSend \/ PeerResend PROVE IInv'
  OBVIOUS
<1>1. /\ peer \in Peer /\ peer.start \in Nat /\ peer.base \in Nat /\ peer.next \in Nat
      /\ peer.start <= peer.base /\ peer.base <= peer.next /\ peer.expect \in SeqNo
      /\ (peer.start < peer.next => peer.next <= load[1])
      /\ load[1] \in 0 .. Total
      /\ DOMAIN peer = {"state", "start", "base", "next", "expect", "rejecting", "restarts"}
      /\ Behead(toPeer, toPeer, 0) /\ toPeer \in Seq(PeerAir)
  BY PeerNow
<1>2. /\ UNCHANGED <<load, nodeVars>> /\ UNCHANGED cut /\ received' = received
      /\ toPeer' = toPeer /\ link' = link /\ peer.state = "connected"
  BY DEF PeerSend, PeerResend, PeerIdle, nodeVars, peerVars
<1>3. /\ peer' \in Peer /\ peer'.start = peer.start /\ peer'.base = peer.base
      /\ peer'.state = peer.state /\ peer'.expect = peer.expect /\ peer'.rejecting = peer.rejecting
      /\ peer'.base <= peer'.next /\ peer'.start <= peer'.base
      /\ peer'.start < peer'.next => peer'.next <= load[1]
  <2>1. CASE PeerSend
    <3>1. peer' = [peer EXCEPT !.next = peer.next + 1] /\ peer.next < load[1]
      BY <2>1, Zenon DEF PeerSend
    <3>2. peer.next + 1 \in Nat /\ peer.base <= peer.next + 1 /\ peer.next + 1 <= load[1]
      BY <1>1, <3>1, SMT
    <3>3. peer' \in Peer
      BY <1>1, <3>1, <3>2, Zenon DEF Peer
    <3>4. /\ peer'.start = peer.start /\ peer'.base = peer.base /\ peer'.next = peer.next + 1
          /\ peer'.state = peer.state /\ peer'.expect = peer.expect /\ peer'.rejecting = peer.rejecting
      BY <1>1, <3>1, SMT
    <3> QED BY <1>1, <3>2, <3>3, <3>4
  <2>2. CASE PeerResend
    BY <1>1, <2>2 DEF PeerResend, peerVars
  <2> QED BY <2>1, <2>2
<1>4. \E f \in NodeAir : /\ toNode' = Append(toNode, f) /\ f.type \in {"I", "RR"}
                         /\ f.nr = peer.expect
  <2>1. PICK m \in Msgs, pf \in BOOLEAN :
          toNode' = Append(toNode, MessageFrame(m, pf)) /\ peer.start <= m
    <3>1. CASE PeerSend
      <4>1. toNode' = Append(toNode, MessageFrame(peer.next, FALSE)) /\ peer.next < load[1]
        BY <3>1 DEF PeerSend, PeerEmits
      <4>2. peer.next \in Msgs /\ peer.start <= peer.next
        BY <1>1, <4>1, DeliveryAssumption, SMT
      <4> QED BY <4>1, <4>2
    <3>2. CASE PeerResend
      <4>1. toNode' = Append(toNode, MessageFrame(peer.base, TRUE)) /\ peer.base < peer.next
        BY <3>2 DEF PeerResend, PeerEmits
      <4>2. peer.base \in Msgs /\ peer.start <= peer.base
        BY <1>1, <4>1, DeliveryAssumption, SMT
      <4> QED BY <4>1, <4>2
    <3> QED BY <3>1, <3>2
  <2> DEFINE f == MessageFrame(m, pf)
  <2>2. f \in NodeAir /\ f.type = "I" /\ f.nr = peer.expect
    BY <1>1, <2>1, PeerFrames
  <2> HIDE DEF f
  <2>3. toNode' = Append(toNode, f)
    BY <2>1 DEF f
  <2> QED BY <2>2, <2>3
<1>5. Behead(toPeer, toPeer', 0) /\ toPeer' \in Seq(PeerAir) /\ cut' = cut
  BY <1>1, <1>2
<1>6. /\ PhaseInv' /\ AckInv' /\ toNode' \in Seq(NodeAir)
      /\ \A i \in LiveData' : i + 0 \in LiveData
      /\ \A i \in DOMAIN toNode' : toNode'[i].type = "REJ" =>
            i \in DOMAIN toNode /\ toNode'[i] = toNode[i]
  BY <1>2, <1>3, <1>4, <1>5, PhaseGoesOn
<1> QED BY <1>2, <1>3, <1>5, <1>6, PeerGoesOn

\* A frame is lost on its way to the peer, or it takes no notice of it.
LEMMA PeerIgnores ==
  ASSUME IInv, toPeer # <<>>, toPeer' = Tail(toPeer), UNCHANGED <<load, nodeVars>>,
         UNCHANGED cut, peer' = peer, received' = received, toNode' = toNode
  PROVE  IInv'
<1>1. /\ peer \in Peer /\ peer.start <= peer.base /\ peer.base <= peer.next
      /\ (peer.start < peer.next => peer.next <= load[1])
  BY PeerNow
<1>2. Behead(toPeer, toPeer', 1) /\ toPeer' \in Seq(PeerAir)
  BY Heads
<1>3. link' = link
  BY DEF nodeVars
<1>4. /\ PhaseInv' /\ AckInv' /\ toNode' \in Seq(NodeAir)
      /\ \A i \in LiveData' : i + 1 \in LiveData
      /\ \A i \in DOMAIN toNode' : toNode'[i].type = "REJ" =>
            i \in DOMAIN toNode /\ toNode'[i] = toNode[i]
  BY <1>2, <1>3, PhaseGoesOn
<1> QED BY <1>1, <1>2, <1>4, PeerGoesOn

LEMMA LossToNodeKeeps == IInv /\ LoseToNode => IInv'
<1> SUFFICES ASSUME IInv, LoseToNode PROVE IInv'
  OBVIOUS
<1>1. /\ toNode # <<>> /\ toNode' = Tail(toNode) /\ UNCHANGED <<load, nodeVars>>
      /\ toPeer' = toPeer /\ peer' = peer /\ received' = received /\ cut' = cut /\ link' = link
      /\ given' = given
  BY DEF LoseToNode, nodeVars, peerVars
<1>2. toNode \in Seq(NodeAir) /\ toPeer \in Seq(PeerAir)
  BY PeerNow
<1>3. Behead(toNode, toNode', 1) /\ toNode' \in Seq(NodeAir)
  BY <1>1, <1>2, Beheaded
<1>4. LinkInv' /\ PeerInv' /\ ReceivedInv' /\ \A w : SentInv(w) => SentInv(w)'
  BY <1>1 DEF IInv, LinkInv, PeerInv, ReceivedInv, SentInv, D, nodeVars
<1>5. <<>> \in Seq(Replies) /\ toPeer' = toPeer \o <<>>
  BY <1>1, <1>2, SMT
<1>6. /\ toPeer' \in Seq(PeerAir)
      /\ PhaseInv' /\ AckInv' /\ OrderInv'
      /\ \A w : DataInv(w) => DataInv(w)'
  BY <1>1, <1>3, <1>4, <1>5, QuietStep
<1>7. AirInv'
  BY <1>3, <1>6 DEF AirInv
<1>8. \E w \in Nat : SentInv(w)' /\ DataInv(w)'
  BY <1>4, <1>6 DEF IInv
<1> QED BY <1>4, <1>6, <1>7, <1>8 DEF IInv

\* The peer takes a supervisory frame: it may send data again, and reports.
LEMMA TakenSupervisory ==
  ASSUME IInv, NEW f, f = Head(toPeer), toPeer # <<>>, toPeer' = Tail(toPeer),
         peer.state = "connected", UNCHANGED <<load, nodeVars>>, UNCHANGED cut, PeerTakesS(f)
  PROVE  IInv'
<1>1. /\ peer \in Peer /\ peer.start \in Nat /\ peer.base \in Nat /\ peer.next \in Nat
      /\ peer.start <= peer.base /\ peer.base <= peer.next /\ peer.expect \in SeqNo
      /\ (peer.start < peer.next => peer.next <= load[1])
      /\ load[1] \in 0 .. Total
      /\ DOMAIN peer = {"state", "start", "base", "next", "expect", "rejecting", "restarts"}
  BY PeerNow
<1>2. /\ Behead(toPeer, toPeer', 1) /\ toPeer' \in Seq(PeerAir) /\ f.nr \in SeqNo
  BY Heads
<1>3. link' = link /\ received' = received /\ cut' = cut
  BY DEF nodeVars, PeerTakesS
<1>4. /\ peer' \in Peer /\ peer'.start = peer.start
      /\ peer'.state = peer.state /\ peer'.expect = peer.expect /\ peer'.rejecting = peer.rejecting
      /\ peer'.base <= peer'.next /\ peer'.start <= peer'.base
      /\ peer'.start < peer'.next => peer'.next <= load[1]
  <2>1. CASE peer' = [peer EXCEPT !.base = Acked(f.nr)]
    <3>1. /\ Acked(f.nr) \in Nat /\ Acked(f.nr) <= peer.next /\ peer.start <= Acked(f.nr)
      BY <1>2, PeerAcked
    <3>2. peer' \in Peer
      BY <1>1, <2>1, <3>1, Zenon DEF Peer
    <3>3. /\ peer'.start = peer.start /\ peer'.base = Acked(f.nr) /\ peer'.next = peer.next
          /\ peer'.state = peer.state /\ peer'.expect = peer.expect /\ peer'.rejecting = peer.rejecting
      BY <1>1, <2>1, SMT
    <3> QED BY <1>1, <3>1, <3>2, <3>3
  <2>2. CASE peer' = peer
    BY <1>1, <2>2
  <2>3. peer' = [peer EXCEPT !.base = Acked(f.nr)] \/ peer' = peer
    BY DEF PeerTakesS
  <2> QED BY <2>1, <2>2, <2>3
<1>5. \/ toNode' = toNode
      \/ \E h \in NodeAir : /\ toNode' = Append(toNode, h) /\ h.type \in {"I", "RR"}
                            /\ h.nr = peer.expect
  <2>1. CASE toNode' = Append(toNode, SFrame("RR", "res", TRUE, peer.expect))
    <3> DEFINE h == SFrame("RR", "res", TRUE, peer.expect)
    <3>1. h \in NodeAir /\ h.type = "RR" /\ h.nr = peer.expect
      BY <1>1, PeerFrames
    <3> HIDE DEF h
    <3>2. toNode' = Append(toNode, h)
      BY <2>1 DEF h
    <3> QED BY <3>1, <3>2
  <2>2. CASE \E m \in peer.base .. peer.next - 1 : toNode' = Append(toNode, MessageFrame(m, FALSE))
    <3>1. PICK m \in peer.base .. peer.next - 1 : toNode' = Append(toNode, MessageFrame(m, FALSE))
      BY <2>2
    <3>2. m \in Msgs /\ peer.start <= m
      BY <1>1, DeliveryAssumption, SMT
    <3> DEFINE h == MessageFrame(m, FALSE)
    <3>3. h \in NodeAir /\ h.type = "I" /\ h.nr = peer.expect
      BY <1>1, <3>2, PeerFrames
    <3> HIDE DEF h
    <3>4. toNode' = Append(toNode, h)
      BY <3>1 DEF h
    <3> QED BY <3>3, <3>4
  <2>3. \/ toNode' = toNode
        \/ toNode' = Append(toNode, SFrame("RR", "res", TRUE, peer.expect))
        \/ \E m \in peer.base .. peer.next - 1 : toNode' = Append(toNode, MessageFrame(m, FALSE))
    BY DEF PeerTakesS, PeerEmits
  <2> QED BY <2>1, <2>2, <2>3
<1>6. /\ PhaseInv' /\ AckInv' /\ toNode' \in Seq(NodeAir)
      /\ \A i \in LiveData' : i + 1 \in LiveData
      /\ \A i \in DOMAIN toNode' : toNode'[i].type = "REJ" =>
            i \in DOMAIN toNode /\ toNode'[i] = toNode[i]
  <2>1. peer.state # "connecting"
    OBVIOUS
  <2> QED BY <1>2, <1>3, <1>4, <1>5, <2>1, PhaseGoesOn
<1> QED BY <1>2, <1>3, <1>4, <1>6, PeerGoesOn

\* The answer to its SABM, or to frames of a connection that we have given up.
LEMMA TakenUnnumbered ==
  ASSUME IInv, NEW f, f = Head(toPeer), toPeer # <<>>, toPeer' = Tail(toPeer),
         UNCHANGED <<load, nodeVars>>, UNCHANGED cut, PeerTakesU(f),
         toNode' = toNode, received' = received
  PROVE  IInv'
<1>1. /\ peer \in Peer /\ peer.start <= peer.base /\ peer.base <= peer.next
      /\ (peer.start < peer.next => peer.next <= load[1])
      /\ DOMAIN peer = {"state", "start", "base", "next", "expect", "rejecting", "restarts"}
  BY PeerNow
<1>2. /\ Behead(toPeer, toPeer', 1) /\ toPeer' \in Seq(PeerAir)
      /\ 1 \in DOMAIN toPeer /\ f = toPeer[1]
  BY Heads
<1>3. link' = link /\ cut' = cut /\ LinkInv /\ AirInv /\ PhaseInv /\ AckInv
  BY DEF nodeVars, IInv
<1> DEFINE s == CASE f.type = "DM" /\ peer.state # "connecting" -> "disconnected"
                  [] f.type = "UA" /\ peer.state = "connecting" -> "connected"
                  [] OTHER -> peer.state
<1>4. \/ s = peer.state
      \/ s = "disconnected" /\ peer.state # "connecting"
      \/ s = "connected" /\ peer.state = "connecting" /\ f.type = "UA"
  OBVIOUS
<1>5. peer' = [peer EXCEPT !.state = s]
  BY Zenon DEF PeerTakesU
<1> HIDE DEF s
<1>6. /\ peer'.state = s /\ peer'.start = peer.start /\ peer'.base = peer.base
      /\ peer'.next = peer.next /\ peer'.expect = peer.expect /\ peer'.rejecting = peer.rejecting
  BY <1>1, <1>5, SMT
<1>7. peer' \in Peer
  <2>1. s \in {"connecting", "connected", "disconnected"}
    BY <1>1, <1>4, SMT DEF Peer
  <2> QED BY <1>1, <1>5, <2>1, Zenon DEF Peer
<1>8. CASE s = peer.state
  <2>1. peer' = peer
    BY <1>1, <1>5, <1>8, Zenon DEF Peer
  <2> QED BY <2>1, PeerIgnores
<1>9. CASE s = "disconnected" /\ peer.state # "connecting"
  <2>1. Uas' = {} /\ LiveData' = {}
    <3>1. Uas = {}
      BY <1>3, <1>9 DEF PhaseInv
    <3>2. Uas' = {}
      BY <1>2, <3>1, LiveBeheaded
    <3> QED BY <1>6, <1>9, <3>2 DEF LiveData
  <2>2. PhaseInv'
    BY <1>3, <1>6, <1>9, <2>1 DEF PhaseInv, Sabms
  <2>3. AckInv' /\ toNode' \in Seq(NodeAir)
    BY <1>3, <1>6 DEF AckInv, D, AirInv
  <2>4. \A i \in LiveData' : i + 1 \in LiveData
    BY <2>1
  <2> QED BY <1>1, <1>2, <1>6, <1>7, <2>2, <2>3, <2>4, PeerGoesOn
<1>10. CASE s = "connected" /\ peer.state = "connecting" /\ f.type = "UA"
  <2>1. 1 \in Uas
    BY <1>2, <1>10 DEF Uas
  <2>2. Sabms = {} /\ cut = NULL /\ \A i \in Uas : i = 1
    BY <1>3, <2>1 DEF PhaseInv
  <2>3. Uas' = {}
    <3> SUFFICES ASSUME NEW i \in Uas' PROVE FALSE
      OBVIOUS
    <3>1. i + 1 \in Uas /\ i \in DOMAIN toPeer'
      BY <1>2, LiveBeheaded DEF Uas
    <3>2. i + 1 = 1
      BY <2>2, <3>1
    <3> QED BY <1>2, <3>1, <3>2, SMT DEF Behead
  <2>4. PhaseInv'
    <3>1. Sabms' = Sabms
      BY DEF Sabms
    <3> QED BY <1>3, <1>6, <1>10, <2>2, <2>3, <3>1 DEF PhaseInv
  <2>5. AckInv' /\ toNode' \in Seq(NodeAir)
    BY <1>3, <1>6 DEF AckInv, D, AirInv
  <2>6. \A i \in LiveData' : i + 1 \in LiveData
    BY <1>2, <2>1, LiveBeheaded
  <2> QED BY <1>1, <1>2, <1>6, <1>7, <2>4, <2>5, <2>6, PeerGoesOn
<1> QED BY <1>4, <1>8, <1>9, <1>10

LEMMA PeerReceiveKeeps == IInv /\ PeerReceive => IInv'
<1> SUFFICES ASSUME IInv, PeerReceive PROVE IInv'
  OBVIOUS
<1> DEFINE f == Head(toPeer)
<1>1. /\ toPeer # <<>> /\ toPeer' = Tail(toPeer) /\ UNCHANGED <<load, nodeVars>> /\ UNCHANGED cut
  BY DEF PeerReceive
<1>2. \/ f.type = "I" /\ peer.state = "connected" /\ PeerTakesI(f)
      \/ peer.state = "connected" /\ PeerTakesS(f)
      \/ PeerTakesU(f) /\ toNode' = toNode /\ received' = received
      \/ toNode' = toNode /\ peer' = peer /\ received' = received
  BY DEF PeerReceive, peerVars
<1> HIDE DEF f
<1>3. CASE f.type = "I" /\ peer.state = "connected" /\ PeerTakesI(f)
  BY <1>1, <1>3, TakenInSequence, TakenOutOfSequence DEF f
<1>4. CASE peer.state = "connected" /\ PeerTakesS(f)
  BY <1>1, <1>4, TakenSupervisory DEF f
<1>5. CASE PeerTakesU(f) /\ toNode' = toNode /\ received' = received
  BY <1>1, <1>5, TakenUnnumbered DEF f
<1>6. CASE toNode' = toNode /\ peer' = peer /\ received' = received
  BY <1>1, <1>6, PeerIgnores
<1> QED BY <1>2, <1>3, <1>4, <1>5, <1>6

LEMMA LossToPeerKeeps == IInv /\ LoseToPeer => IInv'
BY PeerIgnores DEF LoseToPeer, peerVars

\* The peer announces a connection, the one it wanted or another: nothing that it
\* would take is under way any more.
LEMMA PeerConnects ==
  ASSUME IInv, UNCHANGED <<load, nodeVars>>, UNCHANGED <<toPeer, received>>,
         toNode' = Append(toNode, Sabm), ~OnAir("SABM"), ~OnAir("UA"),
         peer' \in Peer, peer'.state = "connecting", peer'.expect = 0, ~peer'.rejecting,
         peer'.base = peer'.start, peer'.next = peer'.start,
         \/ UNCHANGED <<peer, cut>>
         \/ cut' # NULL /\ cut' \in SUBSET Msgs
  PROVE  IInv'
<1>1. /\ PhaseInv /\ AirInv /\ OrderInv /\ ReceivedInv /\ toNode \in Seq(NodeAir)
      /\ toPeer \in Seq(PeerAir)
  BY DEF IInv, AirInv
<1>2. link' = link /\ given' = given /\ toPeer' = toPeer
  BY DEF nodeVars
<1>3. Sabm \in NodeAir /\ Sabm.type = "SABM"
  <2>1. 0 \in SeqNo
    BY LinkAssumption, SMT DEF SeqNo
  <2> QED BY <2>1, PeerFrames
<1>4. /\ toNode' \in Seq(NodeAir) /\ AckInv' /\ Sabms' = {Len(toNode')}
      /\ (toNode = <<>> => Sabms' = DOMAIN toNode')
      /\ \A i \in DOMAIN toNode' : toNode'[i].type = "REJ" =>
            i \in DOMAIN toNode /\ toNode'[i] = toNode[i]
  <2>1. \/ cut' = cut /\ peer' = peer
        \/ cut' # NULL
    OBVIOUS
  <2> QED BY <1>2, <1>3, <2>1, Announced
<1>5. Sabms = {} /\ Uas = {} /\ Uas' = {} /\ LiveData' = {}
  <2>1. Sabms = {} /\ Uas = {}
    BY DEF OnAir, Sabms, Uas
  <2>2. Uas' = {}
    BY <1>2, <2>1 DEF Uas
  <2> QED BY <2>1, <2>2 DEF LiveData
<1>6. PhaseInv'
  <2>1. cut' = NULL => link'.va = 0 /\ Sabms' = DOMAIN toNode'
    <3> SUFFICES ASSUME cut' = NULL PROVE link.va = 0 /\ Sabms' = DOMAIN toNode'
      BY <1>2
    <3>1. link.va = 0 /\ DOMAIN toNode = {}
      BY <1>1, <1>5 DEF PhaseInv
    <3>2. toNode = <<>>
      BY <1>1, <3>1, SMT
    <3> QED BY <1>4, <3>1, <3>2
  <2>2. \A i, j \in Uas' : i = j
    BY <1>5
  <2> QED BY <1>4, <1>5, <2>1, <2>2 DEF PhaseInv
<1>7. /\ LinkInv' /\ AirInv' /\ PeerInv' /\ ReceivedInv'
      /\ \A w : SentInv(w) => SentInv(w)'
  <2>1. LinkInv' /\ ReceivedInv'
    BY <1>1, <1>2 DEF IInv, LinkInv, ReceivedInv
  <2>2. \A w : SentInv(w) => SentInv(w)'
    BY <1>2 DEF SentInv, D
  <2>3. AirInv'
    BY <1>1, <1>2, <1>4 DEF AirInv
  <2>4. PeerInv
    BY DEF IInv
  <2>5. /\ load' = load /\ seizes' = seizes /\ delivered' = delivered /\ received' = received
    BY DEF nodeVars
  <2>6. cut' \in (SUBSET Msgs) \cup {NULL}
    BY <2>4 DEF PeerInv
  <2>7. peer'.start \in Nat
    BY SMT DEF Peer
  <2>8. /\ peer'.start <= peer'.base /\ peer'.base <= peer'.next
        /\ peer'.start < peer'.next => peer'.next <= load'[1]
    BY <2>7, SMT
  <2>9. PeerInv'
    BY <1>2, <2>4, <2>5, <2>6, <2>8 DEF PeerInv
  <2> QED BY <2>1, <2>2, <2>3, <2>9
<1>8. OrderInv'
  <2>1. cut' = NULL => \A i \in DOMAIN toNode' : toNode'[i].type # "REJ"
    <3> SUFFICES ASSUME cut' = NULL, NEW i \in DOMAIN toNode', toNode'[i].type = "REJ"
                 PROVE  FALSE
      OBVIOUS
    <3>1. i \in Sabms'
      BY <1>4, <1>6 DEF PhaseInv
    <3>2. toNode'[i].type = "SABM"
      BY <3>1 DEF Sabms
    <3> QED BY <3>2
  <2> QED BY <1>5, <2>1 DEF OrderInv
<1>9. PICK w \in Nat : SentInv(w) /\ DataInv(w)
  BY DEF IInv
<1>10. DataInv(w)'
  <2>1. CASE UNCHANGED <<peer, cut>>
    BY <1>2, <1>5, <1>9, <2>1 DEF DataInv, D
  <2>2. CASE cut' # NULL
    BY <1>5, <2>2 DEF DataInv
  <2> QED BY <2>1, <2>2
<1> QED BY <1>4, <1>6, <1>7, <1>8, <1>9, <1>10 DEF IInv

LEMMA PeerConnectAgainKeeps == IInv /\ PeerConnectAgain => IInv'
<1> SUFFICES ASSUME IInv, PeerConnectAgain PROVE IInv'
  OBVIOUS
<1>1. /\ UNCHANGED <<load, nodeVars>> /\ UNCHANGED <<toPeer, received>> /\ UNCHANGED <<peer, cut>>
      /\ toNode' = Append(toNode, Sabm) /\ ~OnAir("SABM") /\ ~OnAir("UA")
      /\ peer.state = "connecting" /\ peer' = peer
  BY DEF PeerConnectAgain, PeerIdle, PeerEmits, peerVars
<1>2. /\ peer \in Peer /\ peer.expect = 0 /\ ~peer.rejecting
      /\ peer.base = peer.start /\ peer.next = peer.start
  BY <1>1 DEF IInv, PeerInv, PhaseInv
<1> QED BY <1>1, <1>2, PeerConnects

\* One of any Period successive messages is the first of a packet.
LEMMA PacketBegins ==
  ASSUME NEW n \in Nat
  PROVE  \E m \in n .. n + Segments : m % Period = 0
<1>1. Segments \in Nat \ {0} /\ Period \in Nat \ {0} /\ Period = Segments + 1
  BY DeliveryAssumption, SMT DEF Period
<1> DEFINE q == (n + Segments) \div Period
           r == (n + Segments) % Period
           m == Period * q
<1>2. q \in Nat /\ r \in 0 .. Period - 1 /\ n + Segments = m + r
  <2>1. n + Segments \in Nat
    BY <1>1, SMT
  <2> HIDE DEF Period
  <2> QED BY <1>1, <2>1, SMT
<1>3. m % Period = 0 /\ m \in Nat
  <2>1. \A p \in Nat \ {0}, k \in Nat : (p * k) % p = 0 /\ p * k \in Nat
    BY SMT
  <2> QED BY <1>1, <1>2, <2>1
<1> HIDE DEF q, r, m, Period
<1>4. m \in n .. n + Segments
  BY <1>1, <1>2, <1>3, SMT
<1> QED BY <1>3, <1>4

LEMMA PeerRestartKeeps == IInv /\ PeerRestart => IInv'
<1> SUFFICES ASSUME IInv, PeerRestart PROVE IInv'
  OBVIOUS
<1> DEFINE first == CHOOSE m \in peer.next .. peer.next + Segments : m % Period = 0
<1>1. /\ peer.restarts < MaxRestarts /\ ~OnAir("SABM") /\ ~OnAir("UA")
      /\ toNode' = Append(toNode, Sabm)
      /\ peer' = [state |-> "connecting", start |-> first, base |-> first, next |-> first,
                  expect |-> 0, rejecting |-> FALSE, restarts |-> peer.restarts + 1]
      /\ cut' = Undelivered
      /\ UNCHANGED <<load, nodeVars>> /\ UNCHANGED <<toPeer, received>>
  BY Zenon DEF PeerRestart, PeerEmits
<1>2. /\ PeerInv /\ peer \in Peer /\ peer.start \in Nat /\ peer.next \in Nat
      /\ peer.start < peer.next => peer.next <= load[1]
      /\ load[1] \in 0 .. Total
  BY PeerNow DEF IInv
<1>3. first \in Nat
  <2>1. first \in peer.next .. peer.next + Segments
    BY <1>2, PacketBegins
  <2> HIDE DEF first
  <2> QED BY <1>2, <2>1, DeliveryAssumption, SMT
<1> HIDE DEF first
<1>4. peer.restarts + 1 \in 0 .. MaxRestarts
  <2>1. peer.restarts \in 0 .. MaxRestarts
    BY <1>2, SMT DEF Peer
  <2> QED BY <1>1, <2>1, DeliveryAssumption, SMT
<1>5. peer' \in Peer
  <2>1. 0 \in SeqNo
    BY LinkAssumption, SMT DEF SeqNo
  <2> QED BY <1>1, <1>3, <1>4, <2>1, SMT DEF Peer
<1>6. /\ peer'.state = "connecting" /\ peer'.expect = 0 /\ ~peer'.rejecting
      /\ peer'.base = peer'.start /\ peer'.next = peer'.start
  BY <1>1
<1>7. cut' \in SUBSET Msgs /\ cut' # NULL
  <2>1. \A m \in peer.start .. peer.next - 1 : m \in Msgs
    BY <1>2, DeliveryAssumption, SMT
  <2>2. cut # NULL => cut \in SUBSET Msgs
    BY <1>2 DEF PeerInv
  <2>3. Undelivered \in SUBSET Msgs
    BY <2>1, <2>2 DEF Undelivered
  <2> QED BY <1>1, <2>3, DeliveryAssumption
<1> QED BY <1>1, <1>5, <1>6, <1>7, PeerConnects

-----------------------------------------------------------------------------
(* The specification.                                                        *)

LEMMA LinkAtFirst ==
  LET L == lm_data_indication(NewLink, UFrame("SABM", "cmd", TRUE))
  IN  /\ Good(L, TRUE) /\ L.state = "connected" /\ L.vs = 0 /\ L.va = 0
      /\ L.i_frame_queue = <<>> /\ ~L.peer_receiver_busy /\ ~L.radio_channel_busy
      /\ L.vr = 0 /\ L.rxdata_by_ns = [x \in SeqNo |-> None]
<1> DEFINE Z == [NewLink EXCEPT !.state = "disconnected"]
           f == UFrame("SABM", "cmd", TRUE)
           L == lm_data_indication(NewLink, f)
<1>1. 0 \in SeqNo /\ 0 \in 0 .. n2_retry /\ Minus(0, 1) \in SeqNo
  <2>1. 0 \in SeqNo /\ 0 \in 0 .. n2_retry /\ 1 \in 0 .. Modulo
    BY LinkAssumption, SMT DEF SeqNo
  <2> QED BY <2>1, MinusType
<1>2. Good(Z, TRUE)
  BY <1>1, SMT DEF NewLink, Good, Typed, Windowed, Owes, Fields, Slots, States, Up
<1>3. /\ <<>> \in Seq(Frames) /\ <<>> \in Seq(Msgs) /\ 0 \in 0 .. 2
  BY SMT
<1>4. /\ Z \in Link /\ Z.seize = 0 /\ Z.out = <<>> /\ Z.up = <<>> /\ Z.state = "disconnected"
      /\ ~Z.peer_receiver_busy /\ Z.i_frame_queue = <<>> /\ ~Z.radio_channel_busy
      /\ Fresh(NewLink) = NewLink
  <2>1. NewLink \in Link
    BY <1>1, <1>3, SMT DEF NewLink, Link, States
  <2>2. "disconnected" \in States
    BY DEF States
  <2>3. Z \in Link
    BY <2>1, <2>2, Zenon DEF Link
  <2>4. /\ DOMAIN NewLink = Fields /\ NewLink.seize = 0 /\ NewLink.out = <<>> /\ NewLink.up = <<>>
        /\ NewLink.peer_receiver_busy = FALSE /\ NewLink.i_frame_queue = <<>>
        /\ NewLink.radio_channel_busy = FALSE
    BY SMT DEF NewLink, Fields
  <2>5. /\ Z.seize = 0 /\ Z.out = <<>> /\ Z.up = <<>> /\ Z.state = "disconnected"
        /\ ~Z.peer_receiver_busy /\ Z.i_frame_queue = <<>> /\ ~Z.radio_channel_busy
    BY <2>4, SMT DEF Fields
  <2>6. Fresh(NewLink) = NewLink
    BY <2>1, <2>4, Zenon DEF Link, Fresh
  <2> QED BY <2>3, <2>5, <2>6
<1>5. Idle(Z)
  BY <1>2, <1>4 DEF Idle
<1>6. Receivable(f) /\ f.type = "SABM"
  BY <1>1, SMT DEF UFrame, Frame, Receivable, FrameTypes
<1>7. get_link_handle(Fresh(NewLink), f) = Z /\ get_link_handle(Fresh(Z), f) = Z
  <2>1. Fresh(NewLink) = NewLink /\ NewLink.state = "none"
    BY <1>4 DEF NewLink
  <2>2. Fresh(Z) = Z /\ Z.state # "none"
    BY <1>4, <1>5, IdleFresh
  <2> HIDE DEF Z
  <2>3. get_link_handle(Fresh(NewLink), f) = Z
    BY <1>6, <2>1 DEF get_link_handle, Z
  <2>4. get_link_handle(Fresh(Z), f) = Z
    BY <2>2 DEF get_link_handle
  <2> QED BY <2>3, <2>4
<1>8. L = lm_data_indication(Z, f)
  BY <1>7 DEF lm_data_indication
<1> HIDE DEF Z, f, L
<1>9. Begins(Z, L, f)
  BY <1>5, <1>6, <1>8, ConnectReceived
<1>10. Good(L, TRUE)
  <2>1. Owes(Z) => TRUE
    OBVIOUS
  <2> QED BY <1>2, <1>6, <1>8, <2>1, DataIndication
<1>11. /\ L.state = "connected" /\ L.vs = 0 /\ L.va = 0
       /\ L.i_frame_queue = <<>> /\ ~L.peer_receiver_busy /\ ~L.radio_channel_busy
       /\ L.vr = 0 /\ L.rxdata_by_ns = [x \in SeqNo |-> None]
  BY <1>4, <1>9 DEF Begins
<1> QED BY <1>10, <1>11 DEF L, f

LEMMA InitInv == Init => IInv
<1> SUFFICES ASSUME Init PROVE IInv
  OBVIOUS
<1> DEFINE L == lm_data_indication(NewLink, UFrame("SABM", "cmd", TRUE))
<1>1. /\ Good(L, TRUE) /\ L.state = "connected" /\ L.vs = 0 /\ L.va = 0
      /\ L.i_frame_queue = <<>> /\ ~L.peer_receiver_busy /\ ~L.radio_channel_busy
  BY LinkAtFirst
<1>2. link = Fresh(L) /\ toNode = <<>> /\ toPeer = <<>> /\ received = <<>> /\ delivered = <<>>
      /\ seizes = 0 /\ given = 0 /\ cut = NULL
  BY DEF Init
<1> HIDE DEF L
<1>3. Fresh(L) \in Link /\ Fresh(L).seize = 0 /\ Good(Fresh(L), TRUE)
  BY <1>1, LinkKept
<1>4. /\ link.state = "connected" /\ link.vs = 0 /\ link.va = 0
      /\ link.i_frame_queue = <<>> /\ ~link.peer_receiver_busy /\ ~link.radio_channel_busy
      /\ link.out = <<>> /\ link.up = <<>>
  BY <1>1, <1>2, SMT DEF Fresh, Good, Typed, Fields
<1>5. LinkInv
  BY <1>2, <1>3, <1>4 DEF LinkInv, Idle, Up
<1>6. /\ <<>> \in Seq(NodeAir) /\ <<>> \in Seq(PeerAir) /\ <<>> \in Seq(Msgs)
      /\ DOMAIN <<>> = {} /\ Len(<<>>) = 0
  BY SMT
<1>7. /\ peer = [state |-> "connected", start |-> 0, base |-> 0, next |-> 0,
                 expect |-> 0, rejecting |-> FALSE, restarts |-> 0]
      /\ peer.state = "connected" /\ peer.start = 0 /\ peer.base = 0 /\ peer.next = 0
      /\ peer.expect = 0
  BY DEF Init
<1>8. load \in (0 .. Total) \X (0 .. Total) /\ load[2] \in 0 .. Total
  <2>1. load = <<Total, 0>> \/ load = <<0, Total>> \/ load = <<Mixed, Mixed>>
    BY DEF Init
  <2>2. Total \in Nat /\ Mixed \in 0 .. Total
    BY DeliveryAssumption
  <2> QED BY <2>1, <2>2, SMT
<1>9. PeerInv
  <2>1. peer \in Peer
    <3>1. 0 \in SeqNo /\ 0 \in 0 .. MaxRestarts
      BY LinkAssumption, DeliveryAssumption, SMT DEF SeqNo
    <3> QED BY <1>7, <3>1, SMT DEF Peer
  <2>2. 0 \in 0 .. MaxSeize /\ 0 \in 0 .. load[2] /\ 0 <= 0 /\ ~(0 < 0)
    BY <1>8, DeliveryAssumption, SMT
  <2> QED BY <1>2, <1>6, <1>7, <1>8, <2>1, <2>2 DEF PeerInv
<1>10. AirInv /\ Sabms = {} /\ Uas = {} /\ LiveData = {}
  BY <1>2, <1>6 DEF AirInv, Sabms, Uas, LiveData
<1>11. PhaseInv /\ AckInv /\ OrderInv
  BY <1>2, <1>6, <1>7, <1>10 DEF PhaseInv, AckInv, OrderInv
<1>12. ReceivedInv
  BY <1>2, <1>6 DEF ReceivedInv, InOrder
<1>13. D(0) = 0 /\ \A x \in SeqNo : D(x) \in 0 .. Modulo - 1
  BY <1>4, <1>5, Distances
<1>14. SentInv(0)
  <2>1. \A x \in SeqNo : ~(D(x) < D(link.vs))
    BY <1>4, <1>13, LinkAssumption, SMT
  <2>2. 0 + D(link.vs) <= given - Len(link.i_frame_queue)
        /\ 0 + D(link.vs) = given - Len(link.i_frame_queue)
    BY <1>2, <1>4, <1>6, <1>13, SMT
  <2> QED BY <1>4, <1>6, <2>1, <2>2 DEF SentInv
<1>15. DataInv(0)
  BY <1>2, <1>4, <1>6, <1>7, <1>10, <1>13, SMT DEF DataInv
<1> QED BY <1>5, <1>9, <1>10, <1>11, <1>12, <1>14, <1>15 DEF IInv

LEMMA StillKeeps == IInv /\ UNCHANGED vars => IInv'
<1> SUFFICES ASSUME IInv, UNCHANGED vars PROVE IInv'
  OBVIOUS
<1>1. /\ peer \in Peer /\ peer.start <= peer.base /\ peer.base <= peer.next
      /\ (peer.start < peer.next => peer.next <= load[1])
      /\ Behead(toPeer, toPeer, 0) /\ toPeer \in Seq(PeerAir) /\ toNode \in Seq(NodeAir)
  BY PeerNow
<1>2. /\ UNCHANGED <<load, nodeVars>> /\ UNCHANGED cut /\ received' = received
      /\ toPeer' = toPeer /\ toNode' = toNode /\ peer' = peer /\ link' = link
  BY DEF vars, nodeVars
<1>3. /\ PhaseInv' /\ AckInv' /\ toNode' \in Seq(NodeAir)
      /\ \A i \in LiveData' : i + 0 \in LiveData
      /\ \A i \in DOMAIN toNode' : toNode'[i].type = "REJ" =>
            i \in DOMAIN toNode /\ toNode'[i] = toNode[i]
  BY <1>1, <1>2, PhaseGoesOn
<1> QED BY <1>1, <1>2, <1>3, PeerGoesOn

LEMMA ReceiveKeeps == IInv /\ NodeReceive => IInv'
<1> SUFFICES ASSUME IInv, NodeReceive PROVE IInv'
  OBVIOUS
<1>1. link.state = "disconnected" \/ link.state \in Up
  BY DEF IInv, LinkInv, Idle
<1> QED BY <1>1, BeginKeep, UnnoticedKeep, DataKeep

LEMMA NextKeeps == IInv /\ [Next]_vars => IInv'
BY StillKeeps, ReceiveKeeps, SeizedKeep, TimersKeep, GiveKeep, PeerSendKeeps,
   PeerReceiveKeeps, PeerRestartKeeps, PeerConnectAgainKeeps, LossToNodeKeeps, LossToPeerKeeps
   DEF Next

LEMMA Inductive == Spec => []IInv
<1>1. Init => IInv
  BY InitInv
<1>2. IInv /\ [Next]_vars => IInv'
  BY NextKeeps
<1> QED BY <1>1, <1>2, PTL DEF Spec

\* Every variable keeps its type, V(S) and V(A) of the link and V(R) of the
\* peer among them: no event leaves the link or the air with anything else.
THEOREM LinkEndTyped == Spec => []TypeOK
<1>1. IInv => TypeOK
  <2> SUFFICES ASSUME IInv PROVE TypeOK
    OBVIOUS
  <2>1. LinkInv /\ AirInv /\ PeerInv
    BY DEF IInv
  <2>2. toNode \in Seq(Frames) /\ toPeer \in Seq(Frames)
    <3>1. NodeAir \subseteq Frames /\ PeerAir \subseteq Frames
      BY DEF NodeAir, PeerAir
    <3> QED BY <2>1, <3>1, SMT DEF AirInv
  <2> QED BY <2>1, <2>2 DEF TypeOK, LinkInv, Idle, PeerInv
<1> QED BY <1>1, Inductive, PTL

\* A conforming peer, whatever its window, never makes us set up the link anew
\* (nr_error_recovery): is_good_nr accepts every N(R) that it sends.
THEOREM NeverSetUpAnew == Spec => []NotSetUpAnew
<1>1. IInv => NotSetUpAnew
  BY DEF IInv, LinkInv, Idle, Up, NotSetUpAnew
<1> QED BY <1>1, Inductive, PTL

\* What the peer's client gets comes in order and none of it twice, and what we
\* take for acknowledged has been received: V(A) never passes the peer's V(R).
THEOREM OutboundInOrder ==
  Spec => [](/\ InOrder(received)
             /\ cut = NULL => Minus(peer.expect, link.va) <= Minus(link.vs, link.va))
<1>1. IInv => /\ InOrder(received)
              /\ cut = NULL => Minus(peer.expect, link.va) <= Minus(link.vs, link.va)
  BY DEF IInv, ReceivedInv, DataInv, D
<1> QED BY <1>1, Inductive, PTL
-----------------------------------------------------------------------------
(* The other half of the link, which receives.                              *)

\* What we send that is no answer to a SABM tells the peer that V(R) is v.
Heard(v) == {f \in Frames : f.type \in {"I", "RR", "DM"} /\ (f.type # "DM" => f.nr = v)}

\* Nothing is received, ...
Same(S, T) == T.vr = S.vr /\ T.rxdata_by_ns = S.rxdata_by_ns /\ T.up = S.up

\* ... and the peer hears of V(R) as it is.
Echo(S, T) ==
  /\ Same(S, T)
  /\ S.out \in Seq(Heard(S.vr)) => T.out \in Seq(Heard(S.vr))

LEMMA EchoStays ==
  ASSUME NEW S, NEW T, NEW U
  PROVE  /\ Echo(S, S)
         /\ Echo(S, T) /\ Echo(T, U) => Echo(S, U)
BY DEF Echo, Same

LEMMA EchoQuiet ==
  ASSUME NEW S, Typed(S)
  PROVE  /\ Echo(S, StartT1(S)) /\ Echo(S, StopT1(S))
         /\ Echo(S, StartT3(S)) /\ Echo(S, StopT3(S))
         /\ Echo(S, lm_seize_request(S)) /\ Echo(S, SeizeForQueue(S))
         /\ Echo(S, CaughtUp(S))
         /\ \A nr : Echo(S, SetVA(S, nr))
         /\ Echo(S, [S EXCEPT !.peer_receiver_busy = FALSE])
<1>1. Echo(S, StartT1(S)) /\ Echo(S, StopT1(S))
  BY SMT DEF Echo, Same, Typed, Fields, StartT1, StopT1
<1>2. Echo(S, StartT3(S)) /\ Echo(S, StopT3(S))
  BY SMT DEF Echo, Same, Typed, Fields, StartT3, StopT3
<1>3. Echo(S, lm_seize_request(S))
  BY SMT DEF Echo, Same, Typed, Fields, lm_seize_request
<1>4. Echo(S, SeizeForQueue(S))
  BY <1>3, EchoStays DEF SeizeForQueue
<1>5. Echo(S, CaughtUp(S))
  BY SMT DEF Echo, Same, Typed, Fields, CaughtUp, StartT3, enter_new_state
<1>6. ASSUME NEW nr PROVE Echo(S, SetVA(S, nr))
  BY SMT DEF Echo, Same, Typed, Fields, SetVA
<1>7. Echo(S, [S EXCEPT !.peer_receiver_busy = FALSE])
  BY SMT DEF Echo, Same, Typed, Fields
<1> QED BY <1>1, <1>2, <1>3, <1>4, <1>5, <1>6, <1>7

LEMMA EchoReplies ==
  ASSUME NEW S, Typed(S), NEW pf \in BOOLEAN
  PROVE  /\ Echo(S, enquiry_response(S, pf)) /\ DOMAIN enquiry_response(S, pf) = Fields
         /\ Echo(S, transmit_enquiry(S)) /\ DOMAIN transmit_enquiry(S) = Fields
<1>1. S.vr \in SeqNo /\ 0 \in SeqNo
  BY LinkAssumption, SMT DEF Typed, SeqNo
<1>2. /\ SFrame("RR", "res", pf, S.vr) \in Heard(S.vr)
      /\ SFrame("RR", "cmd", TRUE, S.vr) \in Heard(S.vr)
  BY <1>1, SMT DEF SFrame, Frame, Frames, FrameTypes, Heard
<1>3. ASSUME NEW f \in Heard(S.vr)
      PROVE  LET T == [lm_data_request(S, f) EXCEPT !.acknowledge_pending = FALSE]
             IN  DOMAIN T = Fields /\ Echo(S, T)
  BY SMT DEF Echo, Same, Typed, Fields, lm_data_request
<1>4. Echo(S, enquiry_response(S, pf)) /\ DOMAIN enquiry_response(S, pf) = Fields
  BY <1>2, <1>3 DEF enquiry_response
<1>5. Echo(S, transmit_enquiry(S)) /\ DOMAIN transmit_enquiry(S) = Fields
  <2> DEFINE T == [lm_data_request(S, SFrame("RR", "cmd", TRUE, S.vr))
                     EXCEPT !.acknowledge_pending = FALSE]
  <2>1. DOMAIN T = Fields /\ Echo(S, T)
    BY <1>2, <1>3
  <2> HIDE DEF T
  <2>2. Echo(T, StartT1(T)) /\ DOMAIN StartT1(T) = Fields
    BY <2>1, SMT DEF Echo, Same, Fields, StartT1
  <2> QED BY <2>1, <2>2, EchoStays DEF transmit_enquiry, T
<1> QED BY <1>4, <1>5

LEMMA EchoEnquires ==
  ASSUME NEW S, Typed(S)
  PROVE  Echo(S, Enquire(S))
<1> DEFINE B == [S EXCEPT !.rc = 1]
           E == transmit_enquiry(B)
<1>1. Typed(B) /\ Echo(S, B)
  BY LinkAssumption, SMT DEF Typed, Fields, Echo, Same
<1> HIDE DEF B
<1>2. Echo(B, E) /\ DOMAIN E = Fields
  BY <1>1, EchoReplies
<1> HIDE DEF E
<1>3. Echo(E, enter_new_state(E, "timer_recovery"))
  BY <1>2, SMT DEF Echo, Same, enter_new_state, Fields
<1> QED BY <1>1, <1>2, <1>3, EchoStays DEF Enquire, E, B

LEMMA EchoAckd ==
  ASSUME NEW S, NEW owed \in BOOLEAN, Good(S, owed), NEW nr \in SeqNo, is_good_nr(S, nr),
         S.state \in Up, ~S.peer_receiver_busy
  PROVE  /\ Echo(S, check_i_frame_ackd(S, nr)) /\ check_i_frame_ackd(S, nr).out = S.out
<1> DEFINE T == SetVA(S, nr)
           U == StopT1(T)
<1>1. Good(T, owed) /\ Typed(T) /\ Echo(S, T) /\ T.out = S.out
  <2>1. Good(T, owed)
    BY VA
  <2>2. T.out = S.out
    BY SMT DEF SetVA, Good, Typed, Fields
  <2>3. Echo(S, T)
    BY EchoQuiet DEF Good
  <2> HIDE DEF T
  <2> QED BY <2>1, <2>2, <2>3 DEF Good
<1> HIDE DEF T
<1>2. Typed(U) /\ Echo(S, U) /\ U.out = S.out
  <2>1. Good(U, owed)
    BY <1>1, Timers
  <2>2. U.out = T.out
    BY <1>1, SMT DEF StopT1, Typed, Fields
  <2> QED BY <1>1, <2>1, <2>2, EchoQuiet, EchoStays DEF Good
<1> HIDE DEF U
<1>3. Echo(S, StartT3(U)) /\ StartT3(U).out = S.out
  <2>1. StartT3(U).out = U.out
    BY <1>2, SMT DEF StartT3, Typed, Fields
  <2> QED BY <1>2, <2>1, EchoQuiet, EchoStays
<1>4. Echo(S, StartT1(T)) /\ StartT1(T).out = S.out
  <2>1. StartT1(T).out = T.out
    BY <1>1, SMT DEF StartT1, Typed, Fields
  <2> QED BY <1>1, <2>1, EchoQuiet, EchoStays
<1> QED BY <1>3, <1>4, EchoStays, Zenon DEF check_i_frame_ackd, T, U

LEMMA EchoRR ==
  ASSUME NEW S, NEW owed \in BOOLEAN, Good(S, owed), S.state \in Up, ~S.peer_receiver_busy,
         NEW f, f.nr \in SeqNo, f.cr = "11", is_good_nr(S, f.nr)
  PROVE  Echo(S, rr_rnr_frame(S, TRUE, f))
<1> DEFINE B == [S EXCEPT !.peer_receiver_busy = FALSE]
           Rp == check_need_for_response(B, f)
<1>1. /\ Good(B, owed) /\ B.state = S.state /\ B.vs = S.vs /\ B.va = S.va
      /\ ~B.peer_receiver_busy
  BY SteadyReady
<1>2. is_good_nr(B, f.nr) /\ Echo(S, B)
  BY <1>1, EchoQuiet DEF is_good_nr, Good
<1>3. rr_rnr_frame(S, TRUE, f) \in {check_i_frame_ackd(B, f.nr), SetVA(B, f.nr)}
  <2>1. Rp = B
    BY DEF check_need_for_response
  <2>2. rr_rnr_frame(S, TRUE, f) =
          CASE S.state = "disconnected" -> IF f.cr = "cmd" THEN DmResponse(S, f.pf) ELSE S
            [] S.state = "connected" ->
                 IF is_good_nr(Rp, f.nr) THEN check_i_frame_ackd(Rp, f.nr) ELSE GiveUpNr(Rp)
            [] S.state = "timer_recovery" /\ f.cr = "res" /\ f.pf -> EnquiryAnswered(B, f.nr)
            [] S.state = "timer_recovery" /\ ~(f.cr = "res" /\ f.pf) ->
                 CASE ~is_good_nr(Rp, f.nr) -> GiveUpNr(Rp)
                   [] is_good_nr(Rp, f.nr) /\ f.cr = "res" /\ SetVA(Rp, f.nr).vs = SetVA(Rp, f.nr).va ->
                         CaughtUp(StopT1(SetVA(Rp, f.nr)))
                   [] OTHER -> SetVA(Rp, f.nr)
            [] OTHER -> S
    BY DEF rr_rnr_frame
  <2> HIDE DEF Rp, B
  <2> QED BY <1>2, <2>1, <2>2, Zenon DEF Up, Rp
<1> HIDE DEF B
<1>4. Echo(B, SetVA(B, f.nr)) /\ Echo(B, check_i_frame_ackd(B, f.nr))
  BY <1>1, <1>2, EchoQuiet, EchoAckd DEF Good
<1> QED BY <1>2, <1>3, <1>4, EchoStays

\* REJ has frames sent again, by which the peer hears of V(R).
LEMMA SameResent ==
  ASSUME NEW A, NEW owed \in BOOLEAN, Good(A, owed), NEW nr
  PROVE  Same(A, Retransmit(A, nr))
<1> DEFINE Rp == invoke_retransmission(A, nr)
           Held == {d \in 0 .. Minus(A.vs, nr + 1) : A.txdata_by_ns[AX25MODULO(nr + d)] # None}
           Ns(i) == AX25MODULO(nr + Ascending(Held)[i])
           out == A.out \o [i \in 1 .. Cardinality(Held) |->
                               IFrame(A, Ns(i), A.txdata_by_ns[Ns(i)])]
<1>1. Rp = A \/ Rp = [A EXCEPT !.out = out]
  BY DEF invoke_retransmission
<1> HIDE DEF Rp, out
<1>2. DOMAIN Rp = Fields /\ Same(A, Rp)
  <2>1. Typed(A)
    BY DEF Good
  <2> QED BY <1>1, <2>1, SMT DEF Same, Typed, Fields
<1>3. Same(Rp, [StartT1(StopT3(Rp)) EXCEPT !.acknowledge_pending = FALSE])
  BY <1>2, SMT DEF Same, Fields, StartT1, StopT3
<1> QED BY <1>2, <1>3 DEF Retransmit, Rp, Same

LEMMA SameREJ ==
  ASSUME NEW S, NEW owed \in BOOLEAN, Good(S, owed), S.state \in Up, ~S.peer_receiver_busy,
         NEW f, f.nr \in SeqNo, f.cr = "11", is_good_nr(S, f.nr)
  PROVE  Same(S, rej_frame(S, f))
<1> DEFINE B == [S EXCEPT !.peer_receiver_busy = FALSE]
           V == SetVA(B, f.nr)
           W == StopT1(V)
<1>1. Good(B, owed) /\ B.state = S.state /\ B.vs = S.vs /\ B.va = S.va
  BY SteadyReady
<1>2. is_good_nr(B, f.nr) /\ Same(S, B)
  BY <1>1, EchoQuiet DEF is_good_nr, Good, Echo
<1>3. check_need_for_response(B, f) = B
  BY DEF check_need_for_response
<1> HIDE DEF B
<1>4. Good(V, owed) /\ Same(B, V)
  <2>1. Typed(B)
    BY <1>1 DEF Good
  <2>2. Echo(B, V)
    BY <2>1, EchoQuiet
  <2> QED BY <1>1, <1>2, <2>2, VA DEF Echo
<1>5. rej_frame(S, f) \in {Retransmit(W, f.nr), Retransmit(V, f.nr), V}
  <2> DEFINE Rp == check_need_for_response(B, f)
             A == SetVA(Rp, f.nr)
  <2>1. rej_frame(S, f) =
          CASE S.state = "disconnected" -> IF f.cr = "cmd" THEN DmResponse(S, f.pf) ELSE S
            [] S.state = "connected" ->
                 IF is_good_nr(Rp, f.nr) THEN Retransmit(StopT1(A), f.nr) ELSE GiveUpNr(Rp)
            [] S.state = "timer_recovery" /\ f.cr = "res" /\ f.pf -> EnquiryAnswered(B, f.nr)
            [] S.state = "timer_recovery" /\ ~(f.cr = "res" /\ f.pf) ->
                 CASE ~is_good_nr(Rp, f.nr) -> GiveUpNr(Rp)
                   [] is_good_nr(Rp, f.nr) /\ A.vs # A.va -> Retransmit(A, f.nr)
                   [] OTHER -> A
            [] OTHER -> S
    BY DEF rej_frame, B
  <2>2. Rp = B /\ A = V
    BY <1>3
  <2> HIDE DEF Rp, A, V
  <2> QED BY <1>2, <2>1, <2>2, Zenon DEF Up
<1> HIDE DEF V
<1>6. Good(W, owed) /\ Same(V, W)
  BY <1>4, StoppedT1, EchoQuiet DEF Good, Echo
<1> HIDE DEF W
<1>7. Same(V, Retransmit(V, f.nr)) /\ Same(W, Retransmit(W, f.nr))
  BY <1>4, <1>6, SameResent
<1> QED BY <1>2, <1>4, <1>5, <1>6, <1>7 DEF Same

\* An I frame in sequence, where nothing is kept, is the only one delivered.
LEMMA Accepted ==
  ASSUME NEW S, Typed(S), S.rxdata_by_ns = [x \in SeqNo |-> None],
         NEW f, f.ns = S.vr, f.msg \in Msgs, S.out = <<>>, S.up = <<>>
  PROVE  LET T == i_frame_continued(S, f)
         IN  /\ T.vr = AX25MODULO(S.vr + 1) /\ T.rxdata_by_ns = S.rxdata_by_ns
             /\ T.up = <<f.msg>> /\ T.out \in Seq(Heard(T.vr)) /\ DOMAIN T = Fields
<1> DEFINE c == Cardinality(KeptBehind(S, f.ns))
           kept == [i \in 1 .. c |-> S.rxdata_by_ns[AX25MODULO(f.ns + i)]]
           up == S.up \o <<f.msg>> \o kept
           rx == [x \in SeqNo |-> IF Minus(x, f.ns) <= c THEN None ELSE S.rxdata_by_ns[x]]
           vr == AX25MODULO(f.ns + 1 + c)
           D0 == [S EXCEPT !.up = up, !.rxdata_by_ns = rx, !.vr = vr]
           Q == [D0 EXCEPT !.acknowledge_pending = TRUE]
<1>0. S.vr \in SeqNo
  BY DEF Typed
<1>1. c = 0
  <2>1. c \in 0 .. Modulo - 1 /\ \A i \in 1 .. c : S.rxdata_by_ns[AX25MODULO(f.ns + i)] # None
    BY Behind
  <2>2. \A i \in 1 .. c : AX25MODULO(f.ns + i) \in SeqNo
    <3> TAKE i \in 1 .. c
    <3>1. f.ns + i \in Nat /\ f.ns + i < 2 * Modulo
      BY <1>0, <2>1, LinkAssumption, SMT DEF SeqNo
    <3> QED BY <3>1, Wrap, LinkAssumption, SMT DEF SeqNo
  <2> HIDE DEF c
  <2>3. 1 \notin 1 .. c
    BY <2>1, <2>2
  <2> QED BY <2>1, <2>3, LinkAssumption, SMT
<1>2. vr = AX25MODULO(S.vr + 1) /\ vr \in SeqNo
  <2> HIDE DEF c
  <2>1. S.vr \in Nat /\ S.vr < Modulo
    BY <1>0, LinkAssumption, SMT DEF SeqNo
  <2>2. f.ns + 1 + c = S.vr + 1 /\ S.vr + 1 \in Nat /\ S.vr + 1 < 2 * Modulo
    BY <1>1, <2>1, LinkAssumption, SMT
  <2>3. AX25MODULO(S.vr + 1) \in SeqNo
    BY <2>1, <2>2, Wrap, LinkAssumption, SMT DEF SeqNo
  <2> QED BY <2>2, <2>3
<1>3. up = <<f.msg>>
  <2> HIDE DEF c
  <2>1. kept = <<>>
    BY <1>1, SMT
  <2> HIDE DEF kept
  <2> QED BY <2>1, SMT
<1>4. rx = S.rxdata_by_ns
  BY Zenon
<1> HIDE DEF c, kept, rx, vr, up
<1>5. /\ Typed(D0) /\ D0.vr = vr /\ D0.rxdata_by_ns = S.rxdata_by_ns /\ D0.up = up
      /\ D0.out = <<>>
  BY <1>2, <1>4, SMT DEF Typed, Fields
<1>6. i_frame_continued(S, f) \in {enquiry_response(D0, TRUE), lm_seize_request(Q), D0}
  <2>1. AcceptInSequence(S, f) = CASE f.pf -> enquiry_response(D0, TRUE)
          [] ~f.pf /\ ~D0.acknowledge_pending -> lm_seize_request(Q)
          [] OTHER -> D0
    BY DEF AcceptInSequence, D0, c, up, rx, vr, kept
  <2> QED BY <2>1 DEF i_frame_continued
<1> HIDE DEF D0
<1>7. Echo(D0, Q) /\ Typed(Q)
  <2>1. Typed(Q)
    BY <1>5, SMT DEF Typed, Fields
  <2>2. Echo(D0, Q)
    <3>1. DOMAIN D0 = Fields
      BY <1>5 DEF Typed
    <3>2. Q.vr = D0.vr /\ Q.rxdata_by_ns = D0.rxdata_by_ns /\ Q.up = D0.up /\ Q.out = D0.out
      BY <3>1, SMT DEF Fields
    <3> QED BY <3>2 DEF Echo, Same
  <2> QED BY <2>1, <2>2
<1> HIDE DEF Q
<1>8. /\ Echo(D0, enquiry_response(D0, TRUE)) /\ DOMAIN enquiry_response(D0, TRUE) = Fields
      /\ Echo(D0, lm_seize_request(Q)) /\ DOMAIN lm_seize_request(Q) = Fields
  <2>1. Echo(Q, lm_seize_request(Q)) /\ DOMAIN lm_seize_request(Q) = Fields
    <3>1. DOMAIN lm_seize_request(Q) = Fields
      BY <1>7, SMT DEF lm_seize_request, Typed
    <3> QED BY <1>7, <3>1, EchoQuiet
  <2> QED BY <1>5, <1>7, <2>1, EchoReplies, EchoStays
<1>9. <<>> \in Seq(Heard(vr))
  BY SMT
<1> QED BY <1>2, <1>3, <1>5, <1>6, <1>8, <1>9, EchoStays DEF Echo, Same, Typed

\* One before it is not in the window, but may be answered.
LEMMA Repeated ==
  ASSUME NEW S, Typed(S), NEW f, f.ns = Minus(S.vr, 1)
  PROVE  Echo(S, i_frame_continued(S, f)) /\ DOMAIN i_frame_continued(S, f) = Fields
<1>1. S.vr \in SeqNo /\ 1 \in 0 .. Modulo
  BY LinkAssumption, SMT DEF Typed, SeqNo
<1>2. f.ns = IF 1 <= S.vr THEN S.vr - 1 ELSE S.vr + Modulo - 1
  BY <1>1, MinusValue
<1>3. f.ns \in SeqNo /\ f.ns # S.vr /\ S.vr \in 0 .. Modulo
  BY <1>1, <1>2, LinkAssumption, SMT DEF SeqNo
<1>4. Minus(f.ns, S.vr) = IF S.vr <= f.ns THEN f.ns - S.vr ELSE f.ns + Modulo - S.vr
  BY <1>3, MinusValue
<1>5. Minus(f.ns, S.vr) = Modulo - 1
  BY <1>1, <1>2, <1>3, <1>4, LinkAssumption, SMT DEF SeqNo
<1>6. ~is_ns_in_window(S, f.ns)
  <2>1. AX25MODULO(63) <= Modulo - 1 /\ AX25MODULO(63) \in Int /\ Modulo - 1 \in Int
    BY LinkAssumption, SMT DEF AX25MODULO
  <2> DEFINE n == AX25MODULO(63)
  <2> HIDE DEF n
  <2>2. ~(Modulo - 1 < n)
    BY <2>1, SMT DEF n
  <2> QED BY <1>5, <2>2 DEF is_ns_in_window, n
<1>7. i_frame_continued(S, f) \in {S, enquiry_response(S, TRUE)}
  BY <1>3, <1>6 DEF i_frame_continued
<1>8. Echo(S, enquiry_response(S, TRUE)) /\ DOMAIN enquiry_response(S, TRUE) = Fields
  BY EchoReplies
<1>9. Echo(S, S) /\ DOMAIN S = Fields
  BY EchoStays DEF Typed
<1> QED BY <1>7, <1>8, <1>9

\* What a frame other than SABM does to a link that has kept nothing.
Hears(S, L, f) ==
  /\ f.type = "I" /\ f.ns = S.vr =>
       /\ L.vr = AX25MODULO(S.vr + 1) /\ L.rxdata_by_ns = S.rxdata_by_ns
       /\ L.up = <<f.msg>> /\ L.out \in Seq(Heard(L.vr))
  /\ f.type = "I" /\ f.ns = Minus(S.vr, 1) => Echo(S, L)
  /\ f.type \in {"RR", "REJ"} => Echo(S, L)

LEMMA HearsI ==
  ASSUME NEW S, Idle(S), S.state \in Up, S.rxdata_by_ns = [x \in SeqNo |-> None],
         NEW f, f.nr \in SeqNo, f.ns \in SeqNo, f.msg \in Msgs, is_good_nr(S, f.nr), f.type = "I"
  PROVE  Hears(S, i_frame(S, f), f) /\ DOMAIN i_frame(S, f) = Fields
<1> DEFINE A == check_i_frame_ackd(S, f.nr)
           T == StopT1(A)
           C == CaughtUp(T)
           Alike(U) == Typed(U) /\ Echo(S, U) /\ U.out = <<>>
<1>0. Good(S, TRUE) /\ ~S.peer_receiver_busy /\ S.out = <<>> /\ S.up = <<>>
  BY DEF Idle
<1>1. Good(A, TRUE) /\ A.state \in Up /\ Alike(A)
  <2>1. Good(A, TRUE) /\ A.state = S.state
    BY <1>0, Acknowledged
  <2>2. Echo(S, A) /\ A.out = S.out
    BY <1>0, EchoAckd
  <2> HIDE DEF A
  <2> QED BY <1>0, <2>1, <2>2 DEF Good
<1>2. i_frame(S, f) \in {i_frame_continued(C, f), i_frame_continued(A, f)}
  BY DEF i_frame, Up
<1> HIDE DEF A
<1>3. Good(T, TRUE) /\ T.state \in Up /\ Alike(T)
  <2>1. Good(T, TRUE) /\ T.state = A.state
    BY <1>1, Timers, TimersState
  <2>2. T.out = A.out
    BY <1>1, SMT DEF StopT1, Typed, Fields
  <2>3. Echo(S, T)
    BY <1>1, EchoQuiet, EchoStays
  <2> QED BY <1>1, <2>1, <2>2, <2>3 DEF Good
<1> HIDE DEF T
<1>4. Alike(C)
  <2>1. Good(C, TRUE)
    BY <1>3, BackToConnected
  <2>2. C.out = T.out
    BY <1>3, SMT DEF CaughtUp, StartT3, enter_new_state, Typed, Fields
  <2>3. Echo(S, C)
    BY <1>3, EchoQuiet, EchoStays
  <2> QED BY <1>3, <2>1, <2>2, <2>3 DEF Good
<1> HIDE DEF C
<1>5. ASSUME NEW U, Alike(U), f.ns = S.vr \/ f.ns = Minus(S.vr, 1)
      PROVE  Hears(S, i_frame_continued(U, f), f) /\ DOMAIN i_frame_continued(U, f) = Fields
  <2>0. U.vr = S.vr /\ U.rxdata_by_ns = S.rxdata_by_ns /\ U.up = <<>> /\ U.out = <<>> /\ Typed(U)
    BY <1>0, <1>5 DEF Echo, Same
  <2>1. S.vr # Minus(S.vr, 1)
    <3>1. S.vr \in SeqNo /\ 1 \in 0 .. Modulo
      BY <1>0, LinkAssumption, SMT DEF Good, Typed, SeqNo
    <3>2. Minus(S.vr, 1) = IF 1 <= S.vr THEN S.vr - 1 ELSE S.vr + Modulo - 1
      BY <3>1, MinusValue
    <3> QED BY <3>1, <3>2, LinkAssumption, SMT DEF SeqNo
  <2>2. CASE f.ns = S.vr
    <3> DEFINE V == i_frame_continued(U, f)
    <3>1. /\ V.vr = AX25MODULO(U.vr + 1) /\ V.rxdata_by_ns = U.rxdata_by_ns
          /\ V.up = <<f.msg>> /\ V.out \in Seq(Heard(V.vr)) /\ DOMAIN V = Fields
      BY <2>0, <2>2, Accepted
    <3> HIDE DEF V
    <3>2. Hears(S, V, f)
      BY <2>0, <2>1, <2>2, <3>1, <1>0 DEF Hears
    <3> QED BY <3>1, <3>2 DEF V
  <2>3. CASE f.ns = Minus(S.vr, 1)
    <3> DEFINE V == i_frame_continued(U, f)
    <3>1. Echo(U, V) /\ DOMAIN V = Fields
      BY <2>0, <2>3, Repeated
    <3> HIDE DEF V
    <3>2. Echo(S, V)
      BY <1>5, <3>1, EchoStays
    <3>3. Hears(S, V, f)
      BY <2>1, <2>3, <3>2 DEF Hears
    <3> QED BY <3>1, <3>3 DEF V
  <2> QED BY <1>5, <2>2, <2>3
<1>6. ASSUME NEW U, Good(U, TRUE), U.state \in Up, ~(f.ns = S.vr \/ f.ns = Minus(S.vr, 1))
      PROVE  Hears(S, i_frame_continued(U, f), f) /\ DOMAIN i_frame_continued(U, f) = Fields
  <2>1. Good(i_frame_continued(U, f), TRUE)
    BY <1>6, Received
  <2> QED BY <1>6, <2>1 DEF Hears, Good, Typed
<1>7. Good(C, TRUE) /\ C.state \in Up
  BY <1>3, BackToConnected DEF C, Up
<1> QED BY <1>1, <1>2, <1>4, <1>5, <1>6, <1>7

LEMMA FrameHeard ==
  ASSUME NEW S, Idle(S), S.state \in Up, S.rxdata_by_ns = [x \in SeqNo |-> None],
         NEW f, Receivable(f), f.type \in {"I", "RR", "REJ"}, is_good_nr(S, f.nr),
         f.type = "REJ" => f.nr # S.vs
  PROVE  Hears(S, lm_data_indication(S, f), f)
<1> DEFINE g == ax25_frame_type(f)
           H == Dispatch(S, g)
           L == SeizeForQueue(H)
<1>1. /\ lm_data_indication(S, f) = L
      /\ Receivable(g) /\ g.cr = "11" /\ g.nr = f.nr /\ g.type = f.type /\ is_good_nr(S, g.nr)
      /\ g.ns = f.ns /\ g.msg = f.msg
  BY IndicationOf
<1> HIDE DEF g
<1>2. /\ Good(S, TRUE) /\ ~S.peer_receiver_busy /\ g.nr \in SeqNo /\ g.ns \in SeqNo
      /\ S.out = <<>>
  BY <1>1 DEF Idle, Receivable
<1>3. Good(H, TRUE)
  BY <1>1, <1>2, Dispatched DEF Receivable
<1>4. f.type = "I" => Hears(S, H, f)
  <2> SUFFICES ASSUME f.type = "I" PROVE Hears(S, H, f)
    OBVIOUS
  <2>1. H = i_frame(S, g) /\ g.msg \in Msgs
    BY <1>1 DEF Dispatch, Receivable
  <2>2. Hears(S, H, g)
    BY <1>1, <1>2, <2>1, HearsI
  <2> HIDE DEF H
  <2> QED BY <1>1, <2>2 DEF Hears
<1>5. f.type = "RR" => Echo(S, H)
  <2> SUFFICES ASSUME f.type = "RR" PROVE Echo(S, H)
    OBVIOUS
  <2>1. H = rr_rnr_frame(S, TRUE, g)
    BY <1>1 DEF Dispatch
  <2>2. Echo(S, rr_rnr_frame(S, TRUE, g))
    BY <1>1, <1>2, EchoRR
  <2> QED BY <2>1, <2>2
<1>6. f.type = "REJ" => Same(S, H)
  <2> SUFFICES ASSUME f.type = "REJ" PROVE Same(S, H)
    OBVIOUS
  <2>1. H = rej_frame(S, g)
    BY <1>1 DEF Dispatch
  <2>2. Same(S, rej_frame(S, g))
    BY <1>1, <1>2, SameREJ
  <2> QED BY <2>1, <2>2
<1> HIDE DEF H
<1>7. Echo(H, L) /\ L.out = H.out
  <2>1. Echo(H, L)
    BY <1>3, EchoQuiet DEF Good
  <2>2. L.out = H.out
    BY <1>3, SMT DEF SeizeForQueue, lm_seize_request, Good, Typed, Fields
  <2> QED BY <2>1, <2>2
<1>8. f.type = "REJ" => Echo(S, L)
  <2> SUFFICES ASSUME f.type = "REJ" PROVE Echo(S, L)
    OBVIOUS
  <2>1. Resends(S, L, f.nr)
    <3>1. Resends(S, lm_data_indication(S, f), f.nr)
      BY DataReceived
    <3> QED BY <1>1, <3>1
  <2> DEFINE m == Minus(S.vs, f.nr)
             Ns(i) == AX25MODULO(f.nr + (i - 1))
             F(i) == IFrame(S, Ns(i), S.txdata_by_ns[Ns(i)])
  <2>2. L.out = [i \in 1 .. m |-> F(i)]
    BY <1>2, <2>1 DEF Resends
  <2>3. S.vs \in SeqNo /\ S.vr \in SeqNo /\ S.txdata_by_ns \in Slots /\ f.nr \in SeqNo
    BY <1>1, <1>2 DEF Good, Typed
  <2>4. m \in 0 .. Modulo - 1
    BY <2>3, Distance
  <2>5. \A i \in 1 .. m : F(i) \in Heard(S.vr)
    <3> TAKE i \in 1 .. m
    <3>1. i - 1 \in 0 .. Modulo - 1
      BY <2>4, LinkAssumption, SMT
    <3>2. Ns(i) \in SeqNo
      BY <2>3, <3>1, Onward
    <3> DEFINE n == Ns(i)
               msg == S.txdata_by_ns[n]
    <3> HIDE DEF Ns
    <3>3. n \in SeqNo /\ msg \in Msgs \cup {None}
      BY <2>3, <3>2, SMT DEF Slots
    <3> HIDE DEF n, msg
    <3>4. IFrame(S, n, msg) \in Heard(S.vr)
      BY <2>3, <3>3, SMT DEF IFrame, Frame, Frames, FrameTypes, Heard
    <3> QED BY <3>4 DEF n, msg
  <2>6. L.out \in Seq(Heard(S.vr))
    <3> HIDE DEF F, m
    <3> QED BY <2>2, <2>4, <2>5, LinkAssumption, SMT
  <2> QED BY <1>6, <1>7, <2>6 DEF Echo, Same
<1>9. f.type = "RR" => Echo(S, L)
  BY <1>5, <1>7, EchoStays
<1>10. f.type = "I" => Hears(S, L, f)
  BY <1>4, <1>7, EchoStays DEF Hears, Echo, Same
<1>11. Hears(S, L, f)
  <2> HIDE DEF L
  <2> QED BY <1>8, <1>9, <1>10 DEF Hears
<1> QED BY <1>1, <1>11

LEMMA SeizedHeard ==
  ASSUME NEW S, Idle(S)
  PROVE  Echo(S, lm_seize_confirm(S))
<1> DEFINE P == i_frame_pop_off_queue(S)
<1>1. Good(S, TRUE) /\ Fresh(S) = S /\ Typed(S) /\ S.out = <<>>
  BY IdleFresh DEF Idle
<1>3. lm_seize_confirm(S) = IF S.state \notin Up THEN S
                            ELSE IF P.acknowledge_pending THEN enquiry_response(P, FALSE) ELSE P
  BY <1>1 DEF lm_seize_confirm
<1>4. \/ P = S
      \/ S.state \in Up /\ \E n \in 1 .. Len(S.i_frame_queue) : Pops(S, P, n)
  BY <1>1, Popped
<1> HIDE DEF P
<1>5. CASE P = S
  <2>1. Echo(S, enquiry_response(P, FALSE))
    BY <1>1, <1>5, EchoReplies
  <2> QED BY <1>3, <1>5, <2>1, EchoStays
<1>6. ASSUME S.state \in Up, NEW n \in 1 .. Len(S.i_frame_queue), Pops(S, P, n)
      PROVE  Echo(S, P) /\ ~P.acknowledge_pending
  <2> DEFINE Ns(i) == AX25MODULO(S.vs + i - 1)
             F(i) == IFrame(S, Ns(i), S.i_frame_queue[i])
  <2>1. P.out = [i \in 1 .. n |-> F(i)] /\ Same(S, P) /\ ~P.acknowledge_pending
    BY <1>1, <1>6 DEF Pops, Same
  <2>2. \A i \in 1 .. n : Ns(i) \in SeqNo
    BY <1>6 DEF Pops
  <2>3. S.vr \in SeqNo /\ S.i_frame_queue \in Seq(Msgs) /\ n \in Nat /\ n <= Len(S.i_frame_queue)
    BY <1>1, <1>6, SMT DEF Typed
  <2>4. \A i \in 1 .. n : F(i) \in Heard(S.vr)
    <3> TAKE i \in 1 .. n
    <3> DEFINE s == Ns(i)
               msg == S.i_frame_queue[i]
    <3>1. s \in SeqNo
      BY <2>2
    <3> HIDE DEF Ns
    <3>2. msg \in Msgs
      BY <2>3, SMT
    <3> HIDE DEF s, msg
    <3>3. IFrame(S, s, msg) \in Heard(S.vr)
      BY <2>3, <3>1, <3>2, SMT DEF IFrame, Frame, Frames, FrameTypes, Heard
    <3> QED BY <3>3 DEF s, msg
  <2>5. P.out \in Seq(Heard(S.vr))
    <3> HIDE DEF F
    <3> QED BY <2>1, <2>3, <2>4, SMT
  <2> QED BY <2>1, <2>5 DEF Echo
<1> QED BY <1>3, <1>4, <1>5, <1>6

LEMMA TimersHeard ==
  ASSUME NEW S, Idle(S)
  PROVE  Echo(S, ExpireT1(S)) /\ Echo(S, ExpireT3(S))
<1>1. Good(S, TRUE) /\ Fresh(S) = S /\ Typed(S) /\ S.state # "awaiting_connection"
  BY IdleFresh, UpOrNot DEF Idle
<1>2. Echo(S, ExpireT3(S))
  <2> DEFINE B == [S EXCEPT !.t3 = "stopped"]
  <2>1. Typed(B) /\ Echo(S, B)
    BY <1>1, SMT DEF Typed, Fields, Echo, Same
  <2>2. ExpireT3(S) = t3_expiry(B)
    BY <1>1 DEF ExpireT3
  <2> HIDE DEF B
  <2>3. Echo(B, Enquire(B))
    BY <2>1, EchoEnquires
  <2> QED BY <2>1, <2>2, <2>3, EchoStays DEF t3_expiry
<1>3. Echo(S, ExpireT1(S))
  <2> DEFINE B == [S EXCEPT !.t1 = "stopped"]
             More == [B EXCEPT !.rc = @ + 1]
             dm == UFrame("DM", "res", FALSE)
             G == GiveUp(lm_data_request(B, dm))
  <2>1. Typed(B) /\ B.state = S.state /\ Echo(S, B)
    BY <1>1, SMT DEF Typed, Fields, Echo, Same
  <2>2. ExpireT1(S) = t1_expiry(B)
    BY <1>1 DEF ExpireT1
  <2> HIDE DEF B
  <2>3. Echo(B, Enquire(B))
    BY <2>1, EchoEnquires
  <2>4. ~RetriesUsedUp(B) => Echo(B, transmit_enquiry(More))
    <3> SUFFICES ASSUME ~RetriesUsedUp(B) PROVE Echo(B, transmit_enquiry(More))
      OBVIOUS
    <3>1. Typed(More)
      BY <2>1, LinkAssumption, SMT DEF RetriesUsedUp, Typed, Fields
    <3>2. Echo(B, More)
      BY <2>1, SMT DEF Typed, Fields, Echo, Same
    <3> HIDE DEF More
    <3> QED BY <3>1, <3>2, EchoReplies, EchoStays
  <2>5. Echo(B, G)
    <3>1. 0 \in SeqNo
      BY LinkAssumption, SMT DEF SeqNo
    <3>2. dm \in Heard(B.vr)
      BY <3>1, SMT DEF UFrame, Frame, Frames, FrameTypes, Heard
    <3> HIDE DEF dm
    <3>3. G.vr = B.vr /\ G.rxdata_by_ns = B.rxdata_by_ns /\ G.up = B.up /\ G.out = Append(B.out, dm)
      BY <2>1, SMT DEF GiveUp, lm_data_request, discard_i_queue, enter_new_state, Typed, Fields
    <3> HIDE DEF G
    <3> QED BY <3>2, <3>3, SMT DEF Echo, Same
  <2>6. \/ t1_expiry(B) = Enquire(B)
        \/ t1_expiry(B) = G
        \/ t1_expiry(B) = transmit_enquiry(More) /\ ~RetriesUsedUp(B)
        \/ t1_expiry(B) = B
    BY <1>1, <2>1 DEF t1_expiry
  <2> HIDE DEF G, More
  <2> QED BY <2>1, <2>2, <2>3, <2>4, <2>5, <2>6, EchoStays
<1> QED BY <1>2, <1>3

-----------------------------------------------------------------------------
(* The reassembler.                                                          *)

LEMMA NothingReassembled ==
  ASSUME Reassemble(<<>>)
  PROVE  ra' = ra /\ whole' = whole
<1> DEFINE F(g) == [n \in 0 .. 0 |-> IF n = 0 THEN [ra |-> ra, whole |-> whole]
                                     ELSE Collect(g[n - 1], <<>>[n])]
           after == CHOOSE g : g = F(g)
           W == [n \in 0 .. 0 |-> [ra |-> ra, whole |-> whole]]
<1>1. W = F(W)
  OBVIOUS
<1>2. after = F(after)
  <2> HIDE DEF F, W
  <2> QED BY <1>1
<1>3. after[0] = [ra |-> ra, whole |-> whole]
  <2>1. F(after)[0] = [ra |-> ra, whole |-> whole]
    <3> HIDE DEF after
    <3> QED BY SMT
  <2> HIDE DEF F, after
  <2> QED BY <1>2, <2>1
<1>4. Len(<<>>) = 0
  OBVIOUS
<1>5. ra' = after[0].ra /\ whole' = after[0].whole
  BY <1>4 DEF Reassemble
<1> QED BY <1>3, <1>5

LEMMA OneReassembled ==
  ASSUME NEW m, Reassemble(<<m>>)
  PROVE  LET c == Collect([ra |-> ra, whole |-> whole], m)
         IN  ra' = c.ra /\ whole' = c.whole
<1> DEFINE first == [ra |-> ra, whole |-> whole]
           F(g) == [n \in 0 .. 1 |-> IF n = 0 THEN first ELSE Collect(g[n - 1], <<m>>[n])]
           after == CHOOSE g : g = F(g)
           W == [n \in 0 .. 1 |-> IF n = 0 THEN first ELSE Collect(first, m)]
<1> HIDE DEF first
<1>1. W = F(W)
  <2>1. \A n \in 0 .. 1 : n # 0 => n = 1 /\ n - 1 = 0
    BY SMT
  <2>2. W[0] = first /\ 0 \in 0 .. 1 /\ 1 \in 0 .. 1
    BY SMT
  <2>3. ASSUME NEW n \in 0 .. 1
        PROVE  (IF n = 0 THEN first ELSE Collect(first, m))
                 = IF n = 0 THEN first ELSE Collect(W[n - 1], <<m>>[n])
    <3>1. CASE n = 0
      BY <3>1
    <3>2. CASE n # 0
      <4>1. n = 1 /\ n - 1 = 0 /\ <<m>>[n] = m
        BY <2>1, <3>2
      <4> HIDE DEF W
      <4> QED BY <2>2, <4>1
    <3> QED BY <3>1, <3>2
  <2> QED BY <2>3
<1>2. after = F(after)
  <2> HIDE DEF F, W
  <2> QED BY <1>1
<1>3. after[0] = first
  <2>1. F(after)[0] = first
    <3> HIDE DEF after
    <3> QED BY SMT
  <2> HIDE DEF F, after
  <2> QED BY <1>2, <2>1
<1>4. after[1] = Collect(first, m)
  <2>1. F(after)[1] = Collect(after[0], m)
    <3> HIDE DEF after
    <3>1. 1 \in 0 .. 1 /\ 1 # 0 /\ 1 - 1 = 0 /\ <<m>>[1] = m
      BY SMT
    <3> QED BY <3>1
  <2> HIDE DEF F, after
  <2> QED BY <1>2, <1>3, <2>1
<1>5. Len(<<m>>) = 1
  OBVIOUS
<1>6. ra' = after[1].ra /\ whole' = after[1].whole
  BY <1>5 DEF Reassemble, first
<1> QED BY <1>4, <1>6 DEF first

\* The first n segments of the packet that begins with message f.
Run(f, n) == [k \in 1 .. n |-> f + k - 1]
Collected(f, n) ==
  [ra_buff |-> [size |-> 2 * Segments - 1, len |-> 2 * n - 1, from |-> Run(f, n)],
   ra_following |-> Segments - n, done |-> <<>>]

Sound(x) ==
  DOMAIN x = {"ra_buff", "ra_following", "done"} /\ x.done = <<>> /\ [x EXCEPT !.done = <<>>] = x

\* The next message, e, of the connection that began with s continues what is in
\* ra_buff, or that is left over from the connection before.
SegmentsInv(s, e) ==
  /\ s % Period = 0
  /\ \/ ra.ra_buff = NULL /\ Sound(ra)
     \/ \E f \in Nat, n \in 1 .. Segments :
          f % Period = 0 /\ (e = s \/ e = f + n) /\ ra = Collected(f, n)
  /\ whole \in Seq(Seq(Nat)) /\ WholePackets

LEMMA RunGrows ==
  ASSUME NEW f \in Nat, NEW n \in Nat
  PROVE  /\ Run(f, n) \in Seq(Nat) /\ Append(Run(f, n), f + n) = Run(f, n + 1)
         /\ Run(f, 1) = <<f>> /\ Run(f, n + 1)[1] = f
<1>1. Run(f, n) \in Seq(Nat) /\ Len(Run(f, n)) = n
  BY SMT DEF Run
<1>2. Append(Run(f, n), f + n) = Run(f, n + 1)
  <2>1. Run(f, n + 1) \in Seq(Nat) /\ Len(Run(f, n + 1)) = n + 1
    BY SMT DEF Run
  <2>2. \A k \in 1 .. n + 1 : Append(Run(f, n), f + n)[k] = Run(f, n + 1)[k]
    BY <1>1, SMT DEF Run
  <2> QED BY <1>1, <2>1, <2>2, SMT
<1>3. Run(f, 1) = <<f>>
  BY SMT DEF Run
<1>4. Run(f, n + 1)[1] = f
  BY SMT DEF Run
<1> QED BY <1>1, <1>2, <1>3, <1>4

LEMMA Rewritten ==
  ASSUME NEW x, NEW y
  PROVE  [[x EXCEPT !.done = y] EXCEPT !.done = y] = [x EXCEPT !.done = y]
BY Zenon

LEMMA SegmentsKept ==
  ASSUME NEW s \in Nat, NEW e \in Nat, s <= e, SegmentsInv(s, e), Reassemble(<<e>>)
  PROVE  SegmentsInv(s, e + 1)'
<1> DEFINE c == Collect([ra |-> ra, whole |-> whole], e)
           d == Contents(e)
           R0 == [ra EXCEPT !.done = <<>>]
           r == R!dl_data_indication(ra, d, e)
           p == e % Period
<1>0. Segments \in Nat /\ Segments > 0 /\ Period \in Nat \ {0} /\ Period = Segments + 1
  BY DeliveryAssumption, SMT DEF Period
<1>1. /\ ra' = [r EXCEPT !.done = <<>>]
      /\ whole' = IF r.done = <<>> THEN whole ELSE Append(whole, r.done)
  <2>1. ra' = c.ra /\ whole' = c.whole
    BY OneReassembled
  <2> QED BY <2>1 DEF Collect
<1>2. p \in 0 .. Segments
  BY <1>0, SMT
<1>3. /\ p = Segments => d.segment = FALSE
      /\ p # Segments => /\ d.segment = TRUE /\ d.first = (p = 0)
                         /\ d.following = Segments - 1 - p /\ d.len = 3
  BY DEF Contents, R!PlainData, R!SegmentData
<1>4. /\ R0.done = <<>> /\ R0.ra_buff = ra.ra_buff /\ R0.ra_following = ra.ra_following
      /\ DOMAIN ra = {"ra_buff", "ra_following", "done"} /\ R0 = ra /\ ra.done = <<>>
  <2>1. DOMAIN ra = {"ra_buff", "ra_following", "done"} /\ ra.done = <<>>
    BY DEF SegmentsInv, Collected, Sound
  <2>2. R0 = ra
    <3>1. CASE Sound(ra)
      BY <3>1 DEF Sound
    <3>2. ASSUME NEW f \in Nat, NEW n \in 1 .. Segments, ra = Collected(f, n)
          PROVE  R0 = ra
      <4>1. R0 = [Collected(f, n) EXCEPT !.done = <<>>]
        BY <3>2
      <4>2. [Collected(f, n) EXCEPT !.done = <<>>] = Collected(f, n)
        BY SMT DEF Collected
      <4> HIDE DEF R0
      <4> QED BY <3>2, <4>1, <4>2
    <3> HIDE DEF R0
    <3> QED BY <3>1, <3>2 DEF SegmentsInv
  <2> HIDE DEF R0
  <2> QED BY <2>1, <2>2
<1>5. r = CASE ra.ra_buff = NULL -> IF d.segment /\ d.first THEN R!FirstSegment(R0, d, e) ELSE R0
            [] ra.ra_buff # NULL /\ d.segment /\ ~d.first
                 /\ d.following = ra.ra_following - 1 -> R!NextSegment(R0, d, e)
            [] OTHER -> R!ErrorZ(R0)
  BY <1>4 DEF R!dl_data_indication
<1> HIDE DEF d, p, R0, r
<1>6. ASSUME r.done = <<>>, DOMAIN r = {"ra_buff", "ra_following", "done"}, r.ra_buff = NULL
      PROVE  SegmentsInv(s, e + 1)'
  <2>1. ra'.ra_buff = NULL /\ Sound(ra)' /\ whole' = whole
    <3>1. DOMAIN ra' = {"ra_buff", "ra_following", "done"} /\ ra'.done = <<>>
          /\ ra'.ra_buff = NULL /\ whole' = whole
      BY <1>1, <1>6
    <3>2. [ra' EXCEPT !.done = <<>>] = ra'
      BY <1>1, Rewritten
    <3> QED BY <3>1, <3>2 DEF Sound
  <2> QED BY <2>1 DEF SegmentsInv, WholePackets
<1>7. ASSUME NEW f \in Nat, NEW n \in 1 .. Segments, f % Period = 0, e + 1 = f + n, r = Collected(f, n)
      PROVE  SegmentsInv(s, e + 1)'
  <2>1. ra' = Collected(f, n) /\ whole' = whole
    BY <1>1, <1>7 DEF Collected
  <2> QED BY <1>7, <2>1 DEF SegmentsInv, WholePackets
<1>8. CASE ra.ra_buff = NULL
  <2>1. CASE d.segment /\ d.first
    <3>1. p = 0 /\ d.following = Segments - 1 /\ d.len = 3
      <4>1. p # Segments
        BY <1>3, <2>1
      <4>2. p = 0 /\ d.following = Segments - 1 - p /\ d.len = 3
        BY <1>3, <2>1, <4>1
      <4>3. Segments - 1 - p = Segments - 1
        BY <1>0, <4>2, SMT
      <4> QED BY <4>2, <4>3
    <3>2. r = [R0 EXCEPT !.ra_following = d.following,
                         !.ra_buff = [size |-> (d.following + 1) * (d.len - 1) - 1,
                                      len |-> d.len - 2, from |-> <<e>>]]
      BY <1>5, <1>8, <2>1 DEF R!FirstSegment
    <3>3. (d.following + 1) * (d.len - 1) - 1 = 2 * Segments - 1 /\ d.len - 2 = 2 * 1 - 1
      BY <1>0, <3>1, SMT
    <3>4. r = Collected(e, 1)
      BY <1>4, <3>1, <3>2, <3>3, RunGrows DEF Collected
    <3>5. 1 \in 1 .. Segments /\ e % Period = 0
      BY <1>0, <3>1, SMT DEF p
    <3> QED BY <1>7, <3>4, <3>5
  <2>2. CASE ~(d.segment /\ d.first)
    <3>1. r = ra
      BY <1>4, <1>5, <1>8, <2>2
    <3> QED BY <1>4, <1>6, <1>8, <3>1
  <2> QED BY <2>1, <2>2
<1>9. CASE ra.ra_buff # NULL
  <2>1. PICK f \in Nat, n \in 1 .. Segments :
          f % Period = 0 /\ (e = s \/ e = f + n) /\ ra = Collected(f, n)
    BY <1>9 DEF SegmentsInv
  <2>2. CASE d.segment /\ ~d.first /\ d.following = ra.ra_following - 1
    <3>1. p # Segments /\ p # 0 /\ d.following = Segments - 1 - p /\ d.len = 3
      BY <1>3, <2>2
    <3>2. ra.ra_following = Segments - n /\ ra.ra_buff.size = 2 * Segments - 1
          /\ ra.ra_buff.len = 2 * n - 1 /\ ra.ra_buff.from = Run(f, n)
      BY <2>1 DEF Collected
    <3>3. p = n
      BY <1>0, <1>2, <2>2, <3>1, <3>2, SMT
    <3>4. e = f + n
      <4>1. e # s
        BY <3>1 DEF SegmentsInv, p
      <4> QED BY <2>1, <4>1
    <3>5. n + 1 \in 1 .. Segments /\ ra.ra_buff.len + d.len - 1 = 2 * (n + 1) - 1
          /\ d.following = Segments - (n + 1) /\ n \in Nat
      BY <1>0, <1>2, <3>1, <3>2, <3>3, SMT
    <3>6. ~(ra.ra_buff.len + d.len - 1 > ra.ra_buff.size)
      BY <1>0, <3>2, <3>5, SMT
    <3> DEFINE B == [R0 EXCEPT !.ra_following = d.following,
                               !.ra_buff.len = @ + d.len - 1,
                               !.ra_buff.from = Append(@, e)]
    <3>7. r = CASE R0.ra_buff.len + d.len - 1 > R0.ra_buff.size ->
                     R!ErrorZ([R0 EXCEPT !.ra_following = d.following])
                [] R0.ra_buff.len + d.len - 1 <= R0.ra_buff.size /\ d.following = 0 ->
                     [B EXCEPT !.ra_buff = NULL, !.done = B.ra_buff.from]
                [] OTHER -> B
      BY <1>5, <1>9, <2>2 DEF R!NextSegment
    <3>8. B = Collected(f, n + 1)
      <4>1. Append(Run(f, n), e) = Run(f, n + 1)
        BY <3>4, <3>5, RunGrows
      <4>2. B = [ra EXCEPT !.ra_following = d.following,
                           !.ra_buff.len = ra.ra_buff.len + d.len - 1,
                           !.ra_buff.from = Append(ra.ra_buff.from, e)]
        BY <1>4
      <4>3. B = [Collected(f, n) EXCEPT !.ra_following = Segments - (n + 1),
                           !.ra_buff.len = 2 * (n + 1) - 1,
                           !.ra_buff.from = Run(f, n + 1)]
        BY <2>1, <3>2, <3>5, <4>1, <4>2
      <4> HIDE DEF B
      <4> QED BY <4>3, Zenon DEF Collected
    <3> HIDE DEF B
    <3>9. CASE d.following = 0
      <4>1. r = [B EXCEPT !.ra_buff = NULL, !.done = B.ra_buff.from]
        <5>1. R0.ra_buff.len + d.len - 1 <= R0.ra_buff.size
          BY <1>0, <1>4, <3>2, <3>5, SMT
        <5> QED BY <1>4, <3>6, <3>7, <3>9, <5>1
      <4>2. n + 1 = Segments
        BY <1>0, <3>5, <3>9, SMT
      <4>3. B.ra_buff.from = Run(f, Segments) /\ DOMAIN B = {"ra_buff", "ra_following", "done"}
        BY <3>8, <4>2 DEF Collected
      <4>4. r.done = Run(f, Segments) /\ r.ra_buff = NULL
            /\ DOMAIN r = {"ra_buff", "ra_following", "done"}
        BY <4>1, <4>3
      <4>5. /\ Run(f, Segments) \in Seq(Nat) /\ Run(f, Segments)[1] = f /\ Run(f, Segments) # <<>>
        <5>1. Run(f, Segments) \in Seq(Nat) /\ Run(f, Segments)[1] = f
          BY <1>0, <3>5, <4>2, RunGrows
        <5>2. DOMAIN Run(f, Segments) # {}
          BY <1>0, SMT DEF Run
        <5> QED BY <5>1, <5>2, SMT
      <4>6. whole' = Append(whole, Run(f, Segments)) /\ whole \in Seq(Seq(Nat))
        BY <1>1, <4>4, <4>5 DEF SegmentsInv
      <4>7. whole' \in Seq(Seq(Nat))
        BY <4>5, <4>6, SMT
      <4>8. WholePackets'
        <5> SUFFICES ASSUME NEW i \in DOMAIN whole'
                     PROVE  /\ whole'[i][1] % Period = 0
                            /\ whole'[i] = [k \in 1 .. Segments |-> whole'[i][1] + k - 1]
          BY DEF WholePackets
        <5> DEFINE w == Run(f, Segments)
        <5>1. w = [k \in 1 .. Segments |-> w[1] + k - 1] /\ w[1] % Period = 0
          BY <2>1, <4>5 DEF Run
        <5> HIDE DEF w
        <5>2. \/ i \in DOMAIN whole /\ whole'[i] = whole[i]
              \/ whole'[i] = w
          <6>1. Len(whole) \in Nat /\ DOMAIN whole = 1 .. Len(whole)
            BY <4>6, SMT
          <6>2. w \in Seq(Nat)
            BY <4>5 DEF w
          <6>3. /\ DOMAIN whole' = 1 .. Len(whole) + 1
                /\ \A j \in 1 .. Len(whole) : whole'[j] = whole[j]
                /\ whole'[Len(whole) + 1] = w
            BY <4>6, <6>2, Grown DEF w
          <6> QED BY <6>1, <6>3, SMT
        <5> QED BY <5>1, <5>2 DEF SegmentsInv, WholePackets
      <4>9. ra'.ra_buff = NULL /\ Sound(ra)'
        <5>1. DOMAIN ra' = {"ra_buff", "ra_following", "done"} /\ ra'.done = <<>>
              /\ ra'.ra_buff = NULL
          BY <1>1, <4>4
        <5>2. [ra' EXCEPT !.done = <<>>] = ra'
          BY <1>1, Rewritten
        <5> QED BY <5>1, <5>2 DEF Sound
      <4> QED BY <4>7, <4>8, <4>9 DEF SegmentsInv
    <3>10. CASE d.following # 0
      <4>1. r = B
        BY <1>4, <3>6, <3>7, <3>10
      <4>2. e + 1 = f + (n + 1)
        BY <3>4, <3>5, SMT
      <4> QED BY <1>7, <2>1, <3>5, <3>8, <4>1, <4>2
    <3> QED BY <3>9, <3>10
  <2>3. CASE ~(d.segment /\ ~d.first /\ d.following = ra.ra_following - 1)
    <3>1. r = [R0 EXCEPT !.ra_buff = NULL]
      BY <1>5, <1>9, <2>3 DEF R!ErrorZ
    <3>2. r.done = <<>> /\ DOMAIN r = {"ra_buff", "ra_following", "done"} /\ r.ra_buff = NULL
      BY <1>4, <3>1
    <3> QED BY <1>6, <3>2
  <2> QED BY <2>2, <2>3
<1> QED BY <1>8, <1>9

-----------------------------------------------------------------------------
(* The invariant of the half of the link that receives, from a peer whose    *)
(* window is one.                                                            *)

\* The frames that tell the peer our V(R), of those that it will take.
Reports == {i \in DOMAIN toPeer : /\ toPeer[i].type \in {"I", "RR"}
                                  /\ peer.state = "connected" \/ \E j \in Uas : j <= i}

\* Our V(R) is message e of a connection that began with s; of what the peer has
\* handed over, up to l, that message at most is still to come.
TakenInv(s, e, l) ==
  /\ s <= e /\ l \in {e, e + 1} /\ l <= peer.next
  /\ link.vr = AX25MODULO(e - s)
  /\ link.rxdata_by_ns = [x \in SeqNo |-> None]
  /\ InOrder(delivered)
  /\ \A i \in DOMAIN delivered : delivered[i] < e
  /\ Undelivered = e .. l - 1

\* Under way are that message and the one before it, each under its number.
OfferedInv(s, e, l) ==
  \A i \in DOMAIN toNode : toNode[i].type = "I" =>
     /\ s <= toNode[i].msg /\ toNode[i].msg \in {e - 1, e} /\ toNode[i].msg < l
     /\ toNode[i].ns = AX25MODULO(toNode[i].msg - s)
     /\ \A j \in DOMAIN toNode : i < j /\ toNode[j].type = "I" => toNode[i].msg <= toNode[j].msg

\* The peer has let go of nothing that has not been delivered, and hears of V(R)
\* as it was when it last heard, then as it is.
ReportedInv(s, e, l) ==
  /\ \A i \in DOMAIN toPeer : toPeer[i].type # "SREJ"
  /\ cut = NULL =>
       /\ s = peer.start /\ peer.base \in {e - 1, e} /\ l = peer.next /\ peer.next <= peer.base + 1
       /\ \A m \in s .. e - 1 : m \in Range(delivered)
       /\ \A i \in Reports :
            /\ toPeer[i].nr \in {link.vr, AX25MODULO(peer.base - s)}
            /\ toPeer[i].nr = link.vr => \A j \in Reports : i < j => toPeer[j].nr = link.vr

InboundInv(s, e, l) ==
  TakenInv(s, e, l) /\ OfferedInv(s, e, l) /\ ReportedInv(s, e, l) /\ SegmentsInv(s, e)

JInv ==
  /\ peer.start % Period = 0
  /\ \E s, e, l \in Nat : InboundInv(s, e, l)

\* Sequence numbers of successive messages.
LEMMA Numbered ==
  ASSUME NEW a \in Nat
  PROVE  /\ AX25MODULO(a) \in SeqNo
         /\ AX25MODULO(a + 1) = AX25MODULO(AX25MODULO(a) + 1)
         /\ AX25MODULO(a) = Minus(AX25MODULO(a + 1), 1)
         /\ AX25MODULO(a + 1) # AX25MODULO(a)
         /\ AX25MODULO(0) = 0
<1> DEFINE x == a % Modulo
<1>1. Modulo \in Nat /\ Modulo > 1
  BY LinkAssumption, SMT
<1>2. x \in 0 .. Modulo - 1 /\ x \in Nat /\ x < Modulo
  BY <1>1, SMT
<1>3. (a + 1) % Modulo = IF x + 1 < Modulo THEN x + 1 ELSE 0
  <2> DEFINE q == a \div Modulo
  <2>1. a = Modulo * q + x /\ q \in Nat
    BY <1>1, SMT
  <2> HIDE DEF q, x
  <2>2. CASE x + 1 < Modulo
    <3>1. a + 1 = Modulo * q + (x + 1)
      BY <1>1, <1>2, <2>1, SMT
    <3>2. (Modulo * q + (x + 1)) % Modulo = x + 1
      BY <1>1, <1>2, <2>1, <2>2, SMT
    <3> QED BY <2>2, <3>1, <3>2
  <2>3. CASE ~(x + 1 < Modulo)
    <3>1. a + 1 = Modulo * (q + 1)
      BY <1>1, <1>2, <2>1, <2>3, SMT
    <3>2. (Modulo * (q + 1)) % Modulo = 0
      BY <1>1, <2>1, SMT
    <3> QED BY <2>3, <3>1, <3>2
  <2> QED BY <2>2, <2>3
<1> HIDE DEF x
<1>4. AX25MODULO(x + 1) = IF x + 1 < Modulo THEN x + 1 ELSE 0
  <2>1. x + 1 \in Nat /\ x + 1 < 2 * Modulo
    BY <1>1, <1>2, SMT
  <2>2. AX25MODULO(x + 1) = IF x + 1 < Modulo THEN x + 1 ELSE (x + 1) - Modulo
    BY <2>1, Wrap
  <2> QED BY <1>1, <1>2, <2>2, SMT
<1>5. AX25MODULO(a) = x /\ AX25MODULO(a + 1) = (a + 1) % Modulo
  BY DEF AX25MODULO, x
<1>6. AX25MODULO(0) = 0
  BY <1>1, SMT DEF AX25MODULO
<1>7. x \in SeqNo /\ AX25MODULO(a + 1) \in SeqNo /\ 1 \in 0 .. Modulo
  BY <1>1, <1>2, <1>3, <1>5, SMT DEF SeqNo
<1>8. Minus(AX25MODULO(a + 1), 1)
        = IF 1 <= AX25MODULO(a + 1) THEN AX25MODULO(a + 1) - 1 ELSE AX25MODULO(a + 1) + Modulo - 1
  BY <1>7, MinusValue
<1>9. x = Minus(AX25MODULO(a + 1), 1) /\ AX25MODULO(a + 1) # x
  BY <1>1, <1>2, <1>3, <1>5, <1>8, SMT
<1> QED BY <1>3, <1>4, <1>5, <1>6, <1>7, <1>9

-----------------------------------------------------------------------------
(* Our steps.                                                                *)

LEMMA NodeLeaves ==
  ASSUME IInv, NEW L, DOMAIN L = Fields, NEW taken, NodeStep(L, taken)
  PROVE  /\ link'.vr = L.vr /\ link'.rxdata_by_ns = L.rxdata_by_ns
         /\ toPeer' = toPeer \o L.out /\ delivered' = delivered \o L.up /\ Reassemble(L.up)
         /\ load' = load /\ peer' = peer /\ received' = received
         /\ delivered \in Seq(Msgs) /\ toPeer \in Seq(PeerAir) /\ peer \in Peer
         /\ link.out = <<>> /\ link.up = <<>> /\ link.vr \in SeqNo
<1>1. /\ link' = Fresh(L) /\ delivered' = delivered \o L.up /\ toPeer' = toPeer \o L.out
      /\ load' = load /\ peer' = peer /\ received' = received /\ Reassemble(L.up)
  BY DEF NodeStep, peerVars
<1>2. link'.vr = L.vr /\ link'.rxdata_by_ns = L.rxdata_by_ns
  BY <1>1, SMT DEF Fresh, Fields
<1>3. delivered \in Seq(Msgs) /\ toPeer \in Seq(PeerAir) /\ peer \in Peer
  BY DEF IInv, PeerInv, AirInv
<1>4. link.out = <<>> /\ link.up = <<>> /\ link.vr \in SeqNo
  BY DEF IInv, LinkInv, Idle, Good, Typed
<1> QED BY <1>1, <1>2, <1>3, <1>4

\* What we send tells the peer that V(R) is v.
LEMMA ReportsGrow ==
  ASSUME toPeer \in Seq(PeerAir), NEW v, NEW o \in Seq(Heard(v)), toPeer' = toPeer \o o,
         peer' = peer
  PROVE  /\ Uas' = Uas
         /\ \A i \in DOMAIN toPeer' : \/ i \in DOMAIN toPeer /\ toPeer'[i] = toPeer[i]
                                      \/ toPeer'[i] \in Heard(v)
         /\ \A i \in Reports' : \/ i \in Reports /\ toPeer'[i] = toPeer[i]
                                \/ toPeer'[i].nr = v /\ \A j \in DOMAIN toPeer : j < i
<1>1. \A f \in Heard(v) : f.type # "UA" /\ (f.type \in {"I", "RR"} => f.nr = v)
  BY SMT DEF Heard
<1>2. /\ Len(toPeer) \in Nat /\ Len(o) \in Nat
      /\ DOMAIN toPeer = 1 .. Len(toPeer) /\ DOMAIN toPeer' = 1 .. Len(toPeer) + Len(o)
      /\ \A i \in 1 .. Len(toPeer) : toPeer'[i] = toPeer[i]
      /\ \A i \in 1 .. Len(o) : toPeer'[Len(toPeer) + i] = o[i] /\ o[i] \in Heard(v)
  <2>1. \A i \in 1 .. Len(o) : o[i] \in Heard(v)
    BY SMT
  <2>2. Len(toPeer) \in Nat /\ Len(o) \in Nat /\ DOMAIN toPeer = 1 .. Len(toPeer)
    BY SMT
  <2> DEFINE t == toPeer \o o
  <2>3. /\ DOMAIN t = 1 .. Len(toPeer) + Len(o)
        /\ \A i \in 1 .. Len(toPeer) : t[i] = toPeer[i]
        /\ \A i \in 1 .. Len(o) : t[Len(toPeer) + i] = o[i]
    BY SMT
  <2>4. toPeer' = t
    OBVIOUS
  <2> HIDE DEF t
  <2> QED BY <2>1, <2>2, <2>3, <2>4
<1>3. ASSUME NEW i \in DOMAIN toPeer'
      PROVE  \/ i \in DOMAIN toPeer /\ toPeer'[i] = toPeer[i]
             \/ toPeer'[i] \in Heard(v) /\ \A j \in DOMAIN toPeer : j < i
  <2>1. CASE i <= Len(toPeer)
    BY <1>2, <2>1, SMT
  <2>2. CASE ~(i <= Len(toPeer))
    <3> DEFINE n == i - Len(toPeer)
    <3>1. n \in 1 .. Len(o) /\ i = Len(toPeer) + n /\ \A j \in DOMAIN toPeer : j < i
      BY <1>2, <2>2, SMT
    <3> HIDE DEF n
    <3> QED BY <1>2, <3>1
  <2> QED BY <2>1, <2>2
<1>4. \A i \in DOMAIN toPeer : i \in DOMAIN toPeer' /\ toPeer'[i] = toPeer[i]
  BY <1>2, SMT
<1>5. Uas' = Uas
  BY <1>1, <1>3, <1>4 DEF Uas
<1>6. ASSUME NEW i \in Reports'
      PROVE  \/ i \in Reports /\ toPeer'[i] = toPeer[i]
             \/ toPeer'[i].nr = v /\ \A j \in DOMAIN toPeer : j < i
  <2>1. i \in DOMAIN toPeer' /\ toPeer'[i].type \in {"I", "RR"}
        /\ (peer.state = "connected" \/ \E j \in Uas : j <= i)
    BY <1>5, <1>6 DEF Reports
  <2> QED BY <1>1, <1>3, <2>1 DEF Reports
<1> QED BY <1>3, <1>5, <1>6

LEMMA OfferedOn ==
  ASSUME NEW s, NEW e, NEW l, OfferedInv(s, e, l), NEW k \in {0, 1}, Behead(toNode, toNode', k)
  PROVE  OfferedInv(s, e, l)'
<1>1. /\ \A i \in DOMAIN toNode' : i + k \in DOMAIN toNode /\ toNode'[i] = toNode[i + k]
      /\ \A i, j \in DOMAIN toNode' : i < j => i + k < j + k
  BY SMT DEF Behead
<1> SUFFICES ASSUME NEW i \in DOMAIN toNode', toNode'[i].type = "I"
             PROVE  /\ s <= toNode'[i].msg /\ toNode'[i].msg \in {e - 1, e} /\ toNode'[i].msg < l
                    /\ toNode'[i].ns = AX25MODULO(toNode'[i].msg - s)
                    /\ \A j \in DOMAIN toNode' : i < j /\ toNode'[j].type = "I" =>
                                                 toNode'[i].msg <= toNode'[j].msg
  BY DEF OfferedInv
<1>2. i + k \in DOMAIN toNode /\ toNode'[i] = toNode[i + k]
  BY <1>1
<1>3. /\ s <= toNode[i + k].msg /\ toNode[i + k].msg \in {e - 1, e} /\ toNode[i + k].msg < l
      /\ toNode[i + k].ns = AX25MODULO(toNode[i + k].msg - s)
      /\ \A j \in DOMAIN toNode : i + k < j /\ toNode[j].type = "I" =>
                                  toNode[i + k].msg <= toNode[j].msg
  BY <1>2 DEF OfferedInv
<1>4. ASSUME NEW j \in DOMAIN toNode', i < j, toNode'[j].type = "I"
      PROVE  toNode'[i].msg <= toNode'[j].msg
  <2>1. j + k \in DOMAIN toNode /\ toNode'[j] = toNode[j + k] /\ i + k < j + k
    BY <1>1, <1>4
  <2> QED BY <1>2, <1>3, <1>4, <2>1
<1> QED BY <1>2, <1>3, <1>4

\* V(R) stays, and the peer hears of it as it is.
LEMMA NodeEchoes ==
  ASSUME IInv, JInv, NEW L, DOMAIN L = Fields, Echo(link, L), NEW taken, NodeStep(L, taken),
         NEW k \in {0, 1}, Behead(toNode, toNode', k), cut' = cut
  PROVE  JInv'
<1>1. /\ link'.vr = L.vr /\ link'.rxdata_by_ns = L.rxdata_by_ns
      /\ toPeer' = toPeer \o L.out /\ delivered' = delivered \o L.up /\ Reassemble(L.up)
      /\ peer' = peer
      /\ delivered \in Seq(Msgs) /\ toPeer \in Seq(PeerAir)
      /\ link.out = <<>> /\ link.up = <<>>
  BY NodeLeaves
<1>2. <<>> \in Seq(Heard(link.vr))
  BY SMT
<1>3. /\ link'.vr = link.vr /\ link'.rxdata_by_ns = link.rxdata_by_ns
      /\ L.up = <<>> /\ L.out \in Seq(Heard(link.vr))
  BY <1>1, <1>2 DEF Echo, Same
<1>4. delivered' = delivered
  BY <1>1, <1>3, SMT
<1>5. ra' = ra /\ whole' = whole
  BY <1>1, <1>3, NothingReassembled
<1>6. PICK s \in Nat, e \in Nat, l \in Nat : InboundInv(s, e, l)
  BY DEF JInv
<1>7. TakenInv(s, e, l)'
  <2>1. Undelivered' = Undelivered
    BY <1>1, <1>4 DEF Undelivered, Range
  <2> QED BY <1>1, <1>3, <1>4, <1>6, <2>1 DEF InboundInv, TakenInv, InOrder
<1>8. OfferedInv(s, e, l)'
  BY <1>6, OfferedOn DEF InboundInv
<1>9. /\ \A i \in DOMAIN toPeer' : \/ i \in DOMAIN toPeer /\ toPeer'[i] = toPeer[i]
                                   \/ toPeer'[i] \in Heard(link.vr)
      /\ \A i \in Reports' : \/ i \in Reports /\ toPeer'[i] = toPeer[i]
                             \/ toPeer'[i].nr = link.vr /\ \A j \in DOMAIN toPeer : j < i
  BY <1>1, <1>3, ReportsGrow
<1>10. ReportedInv(s, e, l)'
  <2>1. ReportedInv(s, e, l)
    BY <1>6 DEF InboundInv
  <2>2. \A i \in DOMAIN toPeer' : toPeer'[i].type # "SREJ"
    <3>1. \A f \in Heard(link.vr) : f.type # "SREJ"
      BY SMT DEF Heard
    <3> QED BY <1>9, <2>1, <3>1 DEF ReportedInv
  <2>3. ASSUME cut = NULL, NEW i \in Reports'
        PROVE  /\ toPeer'[i].nr \in {link.vr, AX25MODULO(peer.base - s)}
               /\ toPeer'[i].nr = link.vr => \A j \in Reports' : i < j => toPeer'[j].nr = link.vr
    <3>1. CASE i \in Reports /\ toPeer'[i] = toPeer[i]
      <4>1. /\ toPeer[i].nr \in {link.vr, AX25MODULO(peer.base - s)}
            /\ toPeer[i].nr = link.vr => \A j \in Reports : i < j => toPeer[j].nr = link.vr
        BY <2>1, <2>3, <3>1 DEF ReportedInv
      <4> QED BY <1>9, <3>1, <4>1
    <3>2. CASE toPeer'[i].nr = link.vr /\ \A j \in DOMAIN toPeer : j < i
      <4>1. ASSUME NEW j \in Reports', i < j PROVE toPeer'[j].nr = link.vr
        <5>1. CASE j \in Reports
          <6>1. j < i /\ j \in Nat /\ i \in Nat
            <7>1. toPeer' \in Seq(PeerAir \cup Heard(link.vr))
              <8>1. toPeer \in Seq(PeerAir \cup Heard(link.vr)) /\ L.out \in Seq(PeerAir \cup Heard(link.vr))
                BY <1>1, <1>3, SMT
              <8> QED BY <1>1, <8>1, SMT
            <7> QED BY <3>2, <4>1, <5>1, <7>1, SMT DEF Reports
          <6> QED BY <4>1, <6>1, SMT
        <5>2. CASE j \notin Reports
          BY <1>9, <4>1, <5>2
        <5> QED BY <5>1, <5>2
      <4> QED BY <3>2, <4>1
    <3> QED BY <1>9, <3>1, <3>2
  <2>4. \A m \in s .. e - 1 : m \in Range(delivered) <=> m \in Range(delivered')
    BY <1>4
  <2> QED BY <1>1, <1>3, <1>4, <2>1, <2>2, <2>3 DEF ReportedInv
<1>11. SegmentsInv(s, e)'
  BY <1>5, <1>6 DEF InboundInv, SegmentsInv, Sound, WholePackets
<1>12. peer'.start % Period = 0
  BY <1>1 DEF JInv
<1> QED BY <1>7, <1>8, <1>10, <1>11, <1>12 DEF JInv, InboundInv

LEMMA OwnEventsEcho ==
  IInv /\ JInv /\ (NodeSeizeConfirm \/ NodeTransmits \/ NodeTimer \/ ClientData) => JInv'
<1> SUFFICES ASSUME IInv, JInv, NodeSeizeConfirm \/ NodeTransmits \/ NodeTimer \/ ClientData
             PROVE  JInv'
  OBVIOUS
<1>1. /\ Idle(link) /\ Good(link, TRUE) /\ Behead(toNode, toNode, 0)
      /\ link.out = <<>> /\ link.up = <<>>
  BY LinkNow DEF Idle
<1>2. toNode' = toNode /\ cut' = cut
  BY DEF NodeSeizeConfirm, NodeTransmits, NodeTimer, ClientData
<1>3. CASE NodeSeizeConfirm \/ NodeTransmits
  <2> DEFINE L == lm_seize_confirm(link)
  <2>1. Good(L, TRUE)
    <3>1. Owes(link) => TRUE
      OBVIOUS
    <3> QED BY <1>1, <3>1, SeizeConfirmed
  <2>2. Echo(link, L)
    BY <1>1, SeizedHeard
  <2>3. NodeStep(L, 1) \/ NodeStep(L, 0)
    BY <1>3 DEF NodeSeizeConfirm, NodeTransmits
  <2> HIDE DEF L
  <2>4. DOMAIN L = Fields
    BY <2>1 DEF Good, Typed
  <2> QED BY <1>1, <1>2, <2>2, <2>3, <2>4, NodeEchoes
<1>4. CASE NodeTimer
  <2>1. Good(ExpireT1(link), TRUE) /\ Good(ExpireT3(link), TRUE)
    BY <1>1, TimersExpire
  <2>2. DOMAIN ExpireT1(link) = Fields /\ DOMAIN ExpireT3(link) = Fields
    BY <2>1 DEF Good, Typed
  <2>3. Echo(link, ExpireT1(link)) /\ Echo(link, ExpireT3(link))
    BY <1>1, TimersHeard
  <2>4. NodeStep(ExpireT1(link), 0) \/ NodeStep(ExpireT3(link), 0)
    BY <1>4 DEF NodeTimer
  <2> QED BY <1>1, <1>2, <2>2, <2>3, <2>4, NodeEchoes
<1>5. CASE ClientData
  <2> DEFINE L == SeizeForQueue([link EXCEPT !.i_frame_queue = Append(@, given)])
  <2>1. given \in Msgs
    <3>1. load \in (0 .. Total) \X (0 .. Total) /\ given \in 0 .. load[2] /\ given < load[2]
      BY <1>5 DEF ClientData, IInv, PeerInv
    <3>2. load[2] \in 0 .. Total
      BY <3>1, SMT
    <3> QED BY <3>1, <3>2, DeliveryAssumption, SMT
  <2>2. /\ Good(L, TRUE) /\ L.vr = link.vr /\ L.rxdata_by_ns = link.rxdata_by_ns
        /\ L.out = <<>> /\ L.up = <<>>
    BY <1>1, <2>1, Appended
  <2>3. NodeStep(L, 0)
    BY <1>5 DEF ClientData
  <2> HIDE DEF L
  <2>4. DOMAIN L = Fields /\ Echo(link, L)
    BY <1>1, <2>2 DEF Good, Typed, Echo, Same
  <2> QED BY <1>1, <1>2, <2>3, <2>4, NodeEchoes
<1> QED BY <1>3, <1>4, <1>5

\* What the frame at the head is, and what becomes of it.
LEMMA FrameTaken ==
  ASSUME IInv, NodeReceive
  PROVE  LET f == Head(toNode)
             L == lm_data_indication(link, f)
         IN  /\ toNode' = Tail(toNode) /\ NodeStep(L, 0) /\ DOMAIN L = Fields
             /\ Behead(toNode, toNode', 1) /\ f = toNode[1] /\ 1 \in DOMAIN toNode
             /\ Receivable(f) /\ f.type \in {"I", "RR", "REJ", "SABM"}
             /\ f.type # "SABM" => cut' = cut
             /\ f.type # "SABM" /\ link.state \in Up => is_good_nr(link, f.nr)
             /\ f.type = "REJ" /\ link.state \in Up => f.nr # link.vs
<1> DEFINE f == Head(toNode)
           L == lm_data_indication(link, f)
<1>1. /\ LinkInv /\ AckInv /\ Idle(link) /\ Good(link, TRUE)
      /\ toNode \in Seq(NodeAir) /\ toNode # <<>>
  BY LinkNow DEF NodeReceive, IInv
<1>2. /\ toNode' = Tail(toNode) /\ NodeStep(L, 0) /\ (f.type # "SABM" => cut' = cut)
  BY DEF NodeReceive
<1>3. /\ f \in NodeAir /\ f = toNode[1] /\ 1 \in DOMAIN toNode
  <2>1. /\ Head(toNode) = toNode[1] /\ toNode[1] \in NodeAir
        /\ Len(toNode) \in Nat \ {0} /\ DOMAIN toNode = 1 .. Len(toNode)
    BY <1>1, Shortened
  <2> QED BY <2>1, SMT
<1>4. Receivable(f) /\ f.type \in {"I", "RR", "REJ", "SABM"} /\ f.nr \in SeqNo
  BY <1>3, SMT DEF Receivable, NodeAir, Frames
<1>5. Behead(toNode, toNode', 1)
  BY <1>1, <1>2, Beheaded
<1>6. DOMAIN L = Fields
  <2>1. Owes(link) => TRUE
    OBVIOUS
  <2>2. Good(L, TRUE)
    BY <1>1, <1>4, <2>1, DataIndication
  <2> HIDE DEF L
  <2> QED BY <2>2 DEF Good, Typed
<1> HIDE DEF f
<1>7. f.type # "SABM" /\ link.state \in Up =>
        D(f.nr) <= D(link.vs) /\ (f.type = "REJ" => D(f.nr) < D(link.vs))
  BY <1>1, <1>3 DEF AckInv
<1>8. f.type # "SABM" /\ link.state \in Up => is_good_nr(link, f.nr)
  BY <1>7 DEF is_good_nr, D
<1>9. f.type = "REJ" /\ link.state \in Up => f.nr # link.vs
  <2>1. D(link.vs) \in Int
    BY <1>1, Distances, LinkAssumption, SMT
  <2>2. ~(D(link.vs) < D(link.vs))
    BY <2>1, SMT
  <2> QED BY <1>7, <2>2
<1> QED BY <1>2, <1>3, <1>4, <1>5, <1>6, <1>8, <1>9 DEF f

\* A frame is repeated, or acknowledges only, or comes too late.
LEMMA ReceivedBefore ==
  ASSUME IInv, JInv, NodeReceive, Head(toNode).type # "SABM",
         \/ link.state = "disconnected"
         \/ Head(toNode).type = "I" => Head(toNode).ns = Minus(link.vr, 1)
  PROVE  JInv'
<1> DEFINE f == Head(toNode)
           L == lm_data_indication(link, f)
<1>1. /\ NodeStep(L, 0) /\ DOMAIN L = Fields
      /\ Behead(toNode, toNode', 1)
      /\ Receivable(f) /\ f.type \in {"I", "RR", "REJ"}
      /\ cut' = cut
      /\ link.state \in Up => is_good_nr(link, f.nr)
      /\ f.type = "REJ" /\ link.state \in Up => f.nr # link.vs
  BY FrameTaken
<1>2. Idle(link) /\ link.rxdata_by_ns = [x \in SeqNo |-> None]
  BY LinkNow DEF JInv, InboundInv, TakenInv
<1>3. CASE link.state = "disconnected"
  <2>1. L = link
    BY <1>1, <1>2, <1>3, Unnoticed
  <2>2. Echo(link, L)
    BY <2>1, EchoStays
  <2> HIDE DEF L
  <2> QED BY <1>1, <2>2, NodeEchoes
<1>4. CASE link.state \in Up
  <2>1. Hears(link, L, f)
    BY <1>1, <1>2, <1>4, FrameHeard
  <2>2. f.type = "I" => f.ns = Minus(link.vr, 1)
    BY <1>4, UpOrNot
  <2> HIDE DEF L, f
  <2>3. Echo(link, L)
    BY <1>1, <2>1, <2>2 DEF Hears
  <2> QED BY <1>1, <2>3, NodeEchoes
<1> QED BY <1>2, <1>3, <1>4 DEF Idle

\* The next message of the peer.
LEMMA ReceivedNext ==
  ASSUME IInv, NodeReceive, link.state \in Up, Head(toNode).type = "I",
         NEW s \in Nat, NEW e \in Nat, NEW l \in Nat, InboundInv(s, e, l), Head(toNode).msg = e
  PROVE  InboundInv(s, e + 1, l)'
<1> DEFINE f == Head(toNode)
           L == lm_data_indication(link, f)
<1>1. /\ NodeStep(L, 0) /\ DOMAIN L = Fields
      /\ Behead(toNode, toNode', 1) /\ f = toNode[1] /\ 1 \in DOMAIN toNode
      /\ Receivable(f) /\ cut' = cut /\ is_good_nr(link, f.nr)
  <2>1. f.type # "SABM" /\ f.type = "I"
    OBVIOUS
  <2> HIDE DEF f, L
  <2> QED BY <2>1, FrameTaken DEF f, L
<1>2. Idle(link) /\ link.rxdata_by_ns = [x \in SeqNo |-> None]
  BY LinkNow DEF InboundInv, TakenInv
<1>3. /\ TakenInv(s, e, l) /\ OfferedInv(s, e, l) /\ ReportedInv(s, e, l) /\ SegmentsInv(s, e)
  BY DEF InboundInv
<1>4. /\ s <= e /\ e < l /\ l = e + 1 /\ f.ns = link.vr /\ f.ns = AX25MODULO(e - s)
      /\ \A j \in DOMAIN toNode : 1 < j /\ toNode[j].type = "I" => e <= toNode[j].msg
  <2>1. /\ f.msg < l /\ f.ns = AX25MODULO(f.msg - s)
        /\ \A j \in DOMAIN toNode : 1 < j /\ toNode[j].type = "I" => f.msg <= toNode[j].msg
    BY <1>1, <1>3 DEF OfferedInv
  <2>2. s <= e /\ l \in {e, e + 1} /\ link.vr = AX25MODULO(e - s)
    BY <1>3 DEF TakenInv
  <2>3. e < l /\ f.ns = AX25MODULO(e - s)
    BY <2>1
  <2>4. l = e + 1
    BY <2>2, <2>3, SMT
  <2> QED BY <2>1, <2>2, <2>3, <2>4
<1>5. /\ L.vr = AX25MODULO(link.vr + 1) /\ L.rxdata_by_ns = link.rxdata_by_ns
      /\ L.up = <<e>> /\ L.out \in Seq(Heard(L.vr))
  <2>1. f.type = "I"
    OBVIOUS
  <2> HIDE DEF f, L
  <2>2. Hears(link, L, f)
    BY <1>1, <1>2, <2>1, FrameHeard DEF L
  <2>3. f.msg = e
    BY DEF f
  <2> QED BY <1>4, <2>1, <2>2, <2>3 DEF Hears
<1> HIDE DEF L
<1>6. /\ link'.vr = L.vr /\ link'.rxdata_by_ns = link.rxdata_by_ns
      /\ toPeer' = toPeer \o L.out /\ delivered' = delivered \o <<e>> /\ Reassemble(<<e>>)
      /\ peer' = peer
      /\ delivered \in Seq(Msgs) /\ toPeer \in Seq(PeerAir) /\ peer \in Peer
  BY <1>1, <1>5, NodeLeaves
<1>7. /\ e - s \in Nat /\ (e + 1) - s = (e - s) + 1 /\ (e + 1) - s \in Nat
      /\ link'.vr = AX25MODULO((e + 1) - s) /\ link'.vr # link.vr
  <2>1. e - s \in Nat /\ (e + 1) - s = (e - s) + 1 /\ (e + 1) - s \in Nat
    BY <1>4, SMT
  <2>2. /\ AX25MODULO((e - s) + 1) = AX25MODULO(AX25MODULO(e - s) + 1)
        /\ AX25MODULO((e - s) + 1) # AX25MODULO(e - s)
    BY <2>1, Numbered
  <2> QED BY <1>4, <1>5, <1>6, <2>1, <2>2
<1>8. /\ Len(delivered) \in Nat /\ DOMAIN delivered = 1 .. Len(delivered)
      /\ DOMAIN delivered' = 1 .. Len(delivered) + 1
      /\ \A i \in 1 .. Len(delivered) : delivered'[i] = delivered[i] /\ delivered[i] \in Nat
      /\ delivered'[Len(delivered) + 1] = e
  <2>1. e \in Msgs
    BY <1>1 DEF Receivable
  <2>2. delivered' = Append(delivered, e)
    BY <1>6, SMT
  <2>3. \A i \in 1 .. Len(delivered) : delivered[i] \in Msgs
    BY <1>6, SMT
  <2>4. Msgs \subseteq Nat
    BY DeliveryAssumption, SMT
  <2> DEFINE t == Append(delivered, e)
  <2>5. /\ Len(delivered) \in Nat /\ DOMAIN delivered = 1 .. Len(delivered)
        /\ DOMAIN t = 1 .. Len(delivered) + 1
        /\ \A i \in 1 .. Len(delivered) : t[i] = delivered[i]
        /\ t[Len(delivered) + 1] = e
    BY <1>6, <2>1, Grown
  <2>6. delivered' = t
    BY <2>2
  <2> HIDE DEF t
  <2> QED BY <2>3, <2>4, <2>5, <2>6
<1>9. \A m : m \in Range(delivered') <=> m \in Range(delivered) \/ m = e
  <2>1. ASSUME NEW m, m \in Range(delivered') PROVE m \in Range(delivered) \/ m = e
    <3>1. PICK i \in 1 .. Len(delivered) + 1 : m = delivered'[i]
      BY <1>8, <2>1 DEF Range
    <3>2. i \in 1 .. Len(delivered) \/ i = Len(delivered) + 1
      BY <1>8, SMT
    <3> QED BY <1>8, <3>1, <3>2 DEF Range
  <2>2. ASSUME NEW m, m \in Range(delivered) PROVE m \in Range(delivered')
    <3>1. PICK i \in 1 .. Len(delivered) : m = delivered[i]
      BY <1>8, <2>2 DEF Range
    <3>2. i \in 1 .. Len(delivered) + 1
      BY <1>8, SMT
    <3> QED BY <1>8, <3>1, <3>2 DEF Range
  <2>3. e \in Range(delivered')
    <3>1. Len(delivered) + 1 \in 1 .. Len(delivered) + 1
      BY <1>8, SMT
    <3> QED BY <1>8, <3>1 DEF Range
  <2> QED BY <2>1, <2>2, <2>3
<1>10. TakenInv(s, e + 1, l)'
  <2>1. s <= e + 1 /\ l \in {e + 1, (e + 1) + 1} /\ l <= peer'.next
    <3>1. l <= peer'.next
      BY <1>3, <1>6 DEF TakenInv
    <3> QED BY <1>4, <3>1, SMT
  <2>2. \A i \in DOMAIN delivered : delivered[i] < e
    BY <1>3 DEF TakenInv
  <2>3. \A i \in DOMAIN delivered' : delivered'[i] < e + 1
    <3> SUFFICES ASSUME NEW i \in 1 .. Len(delivered) + 1 PROVE delivered'[i] < e + 1
      BY <1>8
    <3>1. CASE i \in 1 .. Len(delivered)
      <4>1. delivered'[i] < e /\ delivered'[i] \in Nat
        BY <1>8, <2>2, <3>1
      <4> QED BY <4>1, SMT
    <3>2. CASE i = Len(delivered) + 1
      BY <1>8, <3>2, SMT
    <3> QED BY <1>8, <3>1, <3>2, SMT
  <2>4. InOrder(delivered)'
    <3> SUFFICES ASSUME NEW i \in 1 .. Len(delivered) + 1, NEW j \in 1 .. Len(delivered) + 1, i < j
                 PROVE  delivered'[i] < delivered'[j]
      BY <1>8 DEF InOrder
    <3>1. i \in 1 .. Len(delivered)
      BY <1>8, SMT
    <3>2. CASE j \in 1 .. Len(delivered)
      <4>1. delivered[i] < delivered[j]
        BY <1>3, <1>8, <3>1, <3>2 DEF TakenInv, InOrder
      <4> QED BY <1>8, <3>1, <3>2, <4>1
    <3>3. CASE j = Len(delivered) + 1
      BY <1>8, <2>2, <3>1, <3>3
    <3> QED BY <1>8, <3>2, <3>3, SMT
  <2>5. Undelivered' = (e + 1) .. l - 1
    <3>1. \A m : m \in Undelivered' <=> m \in Undelivered /\ m # e
      BY <1>1, <1>6, <1>9 DEF Undelivered
    <3>2. Undelivered = e .. l - 1
      BY <1>3 DEF TakenInv
    <3>3. \A m : m \in (e + 1) .. l - 1 <=> m \in e .. l - 1 /\ m # e
      BY <1>4, SMT
    <3> QED BY <3>1, <3>2, <3>3
  <2> QED BY <1>2, <1>6, <1>7, <2>1, <2>3, <2>4, <2>5 DEF TakenInv
<1>11. OfferedInv(s, e + 1, l)'
  <2>1. OfferedInv(s, e, l)'
    BY <1>1, <1>3, OfferedOn
  <2> SUFFICES ASSUME NEW i \in DOMAIN toNode', toNode'[i].type = "I"
               PROVE  toNode'[i].msg \in {(e + 1) - 1, e + 1}
    BY <2>1 DEF OfferedInv
  <2>2. i + 1 \in DOMAIN toNode /\ toNode'[i] = toNode[i + 1] /\ 1 < i + 1
    BY <1>1, SMT DEF Behead
  <2>3. e <= toNode'[i].msg /\ toNode'[i].msg \in {e - 1, e}
    BY <1>4, <2>1, <2>2 DEF OfferedInv
  <2> QED BY <2>3, SMT
<1>12. /\ \A i \in DOMAIN toPeer' : \/ i \in DOMAIN toPeer /\ toPeer'[i] = toPeer[i]
                                    \/ toPeer'[i] \in Heard(L.vr)
       /\ \A i \in Reports' : \/ i \in Reports /\ toPeer'[i] = toPeer[i]
                              \/ toPeer'[i].nr = L.vr /\ \A j \in DOMAIN toPeer : j < i
  BY <1>5, <1>6, ReportsGrow
<1>13. ReportedInv(s, e + 1, l)'
  <2>1. \A i \in DOMAIN toPeer' : toPeer'[i].type # "SREJ"
    <3>1. \A f1 \in Heard(L.vr) : f1.type # "SREJ"
      BY SMT DEF Heard
    <3> QED BY <1>3, <1>12, <3>1 DEF ReportedInv
  <2>2. ASSUME cut = NULL
        PROVE  /\ s = peer.start /\ peer.base = e /\ l = peer.next /\ peer.next <= peer.base + 1
               /\ \A m \in s .. e - 1 : m \in Range(delivered)
               /\ \A i \in Reports : toPeer[i].nr = link.vr
    <3>1. /\ s = peer.start /\ peer.base \in {e - 1, e} /\ l = peer.next
          /\ peer.next <= peer.base + 1
          /\ \A m \in s .. e - 1 : m \in Range(delivered)
          /\ \A i \in Reports : toPeer[i].nr \in {link.vr, AX25MODULO(peer.base - s)}
      BY <1>3, <2>2 DEF ReportedInv
    <3>2. peer.base = e
      BY <1>4, <3>1, SMT
    <3>3. link.vr = AX25MODULO(peer.base - s)
      BY <1>4, <3>2
    <3> QED BY <3>1, <3>2, <3>3
  <2>3. ASSUME cut = NULL, NEW i \in Reports'
        PROVE  /\ toPeer'[i].nr \in {link'.vr, AX25MODULO(peer.base - s)}
               /\ toPeer'[i].nr = link'.vr => \A j \in Reports' : i < j => toPeer'[j].nr = link'.vr
    <3>1. CASE i \in Reports /\ toPeer'[i] = toPeer[i]
      <4>1. toPeer'[i].nr = link.vr /\ peer.base = e
        BY <2>2, <2>3, <3>1
      <4> QED BY <1>4, <1>7, <4>1
    <3>2. CASE toPeer'[i].nr = L.vr /\ \A j \in DOMAIN toPeer : j < i
      <4>1. ASSUME NEW j \in Reports', i < j PROVE toPeer'[j].nr = link'.vr
        <5>1. j \notin Reports
          <6> SUFFICES ASSUME j \in Reports PROVE FALSE
            OBVIOUS
          <6>1. j < i /\ j \in Nat /\ i \in Nat
            <7>1. toPeer' \in Seq(PeerAir \cup Heard(L.vr))
              <8>1. toPeer \in Seq(PeerAir \cup Heard(L.vr)) /\ L.out \in Seq(PeerAir \cup Heard(L.vr))
                BY <1>5, <1>6, SMT
              <8> QED BY <1>6, <8>1, SMT
            <7> QED BY <3>2, <4>1, <7>1, SMT DEF Reports
          <6> QED BY <4>1, <6>1, SMT
        <5> QED BY <1>6, <1>12, <4>1, <5>1
      <4> QED BY <1>6, <3>2, <4>1
    <3> QED BY <1>12, <3>1, <3>2
  <2>4. ASSUME cut = NULL
        PROVE  peer.base \in {(e + 1) - 1, e + 1} /\ \A m \in s .. (e + 1) - 1 : m \in Range(delivered')
    <3>1. peer.base = (e + 1) - 1
      BY <2>2, <2>4, SMT
    <3>2. \A m \in s .. (e + 1) - 1 : m \in s .. e - 1 \/ m = e
      BY SMT
    <3> QED BY <1>9, <2>2, <2>4, <3>1, <3>2
  <2> QED BY <1>1, <1>6, <2>1, <2>2, <2>3, <2>4 DEF ReportedInv
<1>14. SegmentsInv(s, e + 1)'
  BY <1>3, <1>4, <1>6, SegmentsKept
<1> QED BY <1>10, <1>11, <1>13, <1>14 DEF InboundInv

\* The peer's SABM: a connection begins.
LEMMA ReceivedConnect ==
  ASSUME IInv, JInv, NodeReceive, Head(toNode).type = "SABM"
  PROVE  JInv'
<1> DEFINE f == Head(toNode)
           L == lm_data_indication(link, f)
           ua == UFrame("UA", "res", f.pf)
<1>1. /\ toNode' = Tail(toNode) /\ NodeStep(L, 0) /\ DOMAIN L = Fields
      /\ f = toNode[1] /\ 1 \in DOMAIN toNode /\ Receivable(f)
  BY FrameTaken
<1>2. cut' = NULL
  BY DEF NodeReceive
<1>3. Idle(link) /\ PhaseInv /\ toNode \in Seq(NodeAir) /\ toNode # <<>>
  BY LinkNow DEF IInv, NodeReceive
<1>4. /\ L.vr = 0 /\ L.rxdata_by_ns = [x \in SeqNo |-> None] /\ L.out = Append(link.out, ua)
      /\ L.up = link.up
  <2>1. f.type = "SABM"
    OBVIOUS
  <2> HIDE DEF f, ua
  <2>2. Begins(link, L, f)
    BY <1>1, <1>3, <2>1, ConnectReceived
  <2> QED BY <2>2 DEF Begins, ua
<1>5. ua.type = "UA" /\ ua \in PeerAir
  <2>1. f.pf \in BOOLEAN /\ 0 \in SeqNo
    BY <1>1, LinkAssumption, SMT DEF Receivable, SeqNo
  <2> HIDE DEF f
  <2> QED BY <2>1, SMT DEF UFrame, Frame, PeerAir, Frames, FrameTypes
<1> HIDE DEF L, ua
<1>6. /\ link'.vr = 0 /\ link'.rxdata_by_ns = [x \in SeqNo |-> None]
      /\ toPeer' = toPeer \o <<ua>> /\ delivered' = delivered \o <<>> /\ Reassemble(<<>>)
      /\ peer' = peer
      /\ delivered \in Seq(Msgs) /\ toPeer \in Seq(PeerAir) /\ peer \in Peer
  <2>1. /\ link'.vr = L.vr /\ link'.rxdata_by_ns = L.rxdata_by_ns
        /\ toPeer' = toPeer \o L.out /\ delivered' = delivered \o L.up /\ Reassemble(L.up)
        /\ peer' = peer /\ delivered \in Seq(Msgs) /\ toPeer \in Seq(PeerAir) /\ peer \in Peer
        /\ link.out = <<>> /\ link.up = <<>>
    BY <1>1, NodeLeaves
  <2>2. Append(<<>>, ua) = <<ua>>
    OBVIOUS
  <2> QED BY <1>4, <2>1, <2>2
<1>7. delivered' = delivered /\ ra' = ra /\ whole' = whole
  <2>1. delivered' = delivered
    BY <1>6, SMT
  <2> QED BY <1>6, <2>1, NothingReassembled
<1>0. PICK p \in Nat : p = peer.start
  <2>1. peer.start \in Nat
    BY <1>6, SMT DEF Peer
  <2> QED BY <2>1
<1>8. /\ p \in Nat /\ peer.base = p /\ peer.next = p /\ peer.state = "connecting"
      /\ Uas = {} /\ toNode' = <<>>
  <2>1. 1 \in Sabms
    BY <1>1 DEF Sabms
  <2>2. /\ peer.state = "connecting" /\ Uas = {} /\ Len(toNode) = 1
        /\ peer.base = p /\ peer.next = p
    BY <1>0, <1>3, <2>1 DEF PhaseInv
  <2>3. toNode' = <<>>
    BY <1>1, <1>3, <2>2, SMT
  <2> QED BY <2>2, <2>3
<1>9. PICK s \in Nat, e \in Nat, l \in Nat : InboundInv(s, e, l)
  BY DEF JInv
<1>10. TakenInv(p, p, p)'
  <2>1. /\ e <= l /\ l <= p /\ InOrder(delivered) /\ \A i \in DOMAIN delivered : delivered[i] < e
    <3>1. /\ l \in {e, e + 1} /\ l <= peer.next /\ InOrder(delivered)
          /\ \A i \in DOMAIN delivered : delivered[i] < e
      BY <1>9 DEF InboundInv, TakenInv
    <3>2. e <= l
      BY <3>1, SMT
    <3> QED BY <1>8, <3>1, <3>2
  <2>2. \A i \in DOMAIN delivered : delivered[i] < p
    <3>1. \A i \in DOMAIN delivered : delivered[i] \in Msgs
      BY <1>6, SMT
    <3>2. \A i \in DOMAIN delivered : delivered[i] \in Nat
      BY <3>1, DeliveryAssumption, SMT
    <3>3. \A d \in Nat : d < e => d < p
      BY <1>8, <2>1, SMT
    <3> QED BY <2>1, <3>2, <3>3
  <2>3. link'.vr = AX25MODULO(p - p) /\ p <= p /\ p \in {p, p + 1}
    <3>1. p - p = 0 /\ p <= p
      BY <1>8, SMT
    <3>2. AX25MODULO(0) = 0
      BY Numbered, SMT
    <3> QED BY <1>6, <3>1, <3>2
  <2>4. Undelivered' = p .. p - 1
    <3>1. p .. p - 1 = {}
      BY <1>8, SMT
    <3>2. peer'.start .. peer'.next - 1 = {}
      BY <1>0, <1>6, <1>8, <3>1
    <3> QED BY <1>2, <3>1, <3>2 DEF Undelivered
  <2>5. p <= peer'.next
    BY <1>6, <1>8, <2>3
  <2> QED BY <1>6, <1>7, <2>1, <2>2, <2>3, <2>4, <2>5 DEF TakenInv, InOrder
<1>11. OfferedInv(p, p, p)'
  <2>1. DOMAIN toNode' = {}
    BY <1>8, SMT
  <2> QED BY <2>1 DEF OfferedInv
<1>12. ReportedInv(p, p, p)'
  <2>1. /\ DOMAIN toPeer = 1 .. Len(toPeer) /\ Len(toPeer) \in Nat
        /\ DOMAIN toPeer' = 1 .. Len(toPeer) + 1
        /\ \A i \in 1 .. Len(toPeer) : toPeer'[i] = toPeer[i]
        /\ toPeer'[Len(toPeer) + 1] = ua
    <3> DEFINE t == Append(toPeer, ua)
    <3>1. /\ DOMAIN toPeer = 1 .. Len(toPeer) /\ Len(toPeer) \in Nat
          /\ DOMAIN t = 1 .. Len(toPeer) + 1
          /\ \A i \in 1 .. Len(toPeer) : t[i] = toPeer[i]
          /\ t[Len(toPeer) + 1] = ua
      BY <1>5, <1>6, Grown
    <3>2. toPeer' = t
      BY <1>5, <1>6, SMT
    <3> HIDE DEF t
    <3> QED BY <3>1, <3>2
  <2>2. ASSUME NEW i \in DOMAIN toPeer'
        PROVE  \/ i \in DOMAIN toPeer /\ toPeer'[i] = toPeer[i]
               \/ i = Len(toPeer) + 1 /\ toPeer'[i] = ua
    <3>1. i \in 1 .. Len(toPeer) \/ i = Len(toPeer) + 1
      BY <2>1, <2>2, SMT
    <3> QED BY <2>1, <3>1
  <2>3. \A i \in DOMAIN toPeer' : toPeer'[i].type # "SREJ"
    BY <1>5, <1>9, <2>2 DEF InboundInv, ReportedInv
  <2>4. \A i \in Uas' : i = Len(toPeer) + 1
    BY <1>8, <2>2 DEF Uas
  <2>5. Reports' = {}
    <3> SUFFICES ASSUME NEW i \in Reports' PROVE FALSE
      OBVIOUS
    <3>1. i \in DOMAIN toPeer' /\ toPeer'[i].type \in {"I", "RR"} /\ Len(toPeer) + 1 <= i
      BY <1>6, <1>8, <2>4 DEF Reports
    <3>2. i = Len(toPeer) + 1
      BY <2>1, <3>1, SMT
    <3> QED BY <1>5, <2>1, <3>1, <3>2
  <2>6. /\ p = peer'.start /\ p = peer'.next /\ peer'.base \in {p - 1, p} /\ peer'.next <= peer'.base + 1
        /\ p .. p - 1 = {}
    <3>1. p <= p + 1 /\ p .. p - 1 = {}
      BY <1>8, SMT
    <3> QED BY <1>0, <1>6, <1>8, <3>1
  <2> QED BY <2>3, <2>5, <2>6 DEF ReportedInv
<1>13. SegmentsInv(p, p)'
  <2>1. SegmentsInv(s, e) /\ p % Period = 0
    BY <1>0, <1>9 DEF InboundInv, JInv
  <2> QED BY <1>7, <2>1 DEF SegmentsInv, Sound, WholePackets
<1>14. peer'.start % Period = 0
  BY <1>6 DEF JInv
<1> QED BY <1>8, <1>10, <1>11, <1>12, <1>13, <1>14 DEF JInv, InboundInv

LEMMA ReceiveInbound == IInv /\ JInv /\ NodeReceive => JInv'
<1> SUFFICES ASSUME IInv, JInv, NodeReceive PROVE JInv'
  OBVIOUS
<1> DEFINE f == Head(toNode)
<1>1. /\ f = toNode[1] /\ 1 \in DOMAIN toNode /\ f.type \in {"I", "RR", "REJ", "SABM"}
      /\ NodeStep(lm_data_indication(link, f), 0)
  BY FrameTaken
<1>2. link.state = "disconnected" \/ link.state \in Up
  BY LinkNow DEF Idle
<1>3. CASE f.type = "SABM"
  BY <1>3, ReceivedConnect
<1>4. CASE f.type # "SABM" /\ (link.state = "disconnected" \/ f.type # "I")
  BY <1>4, ReceivedBefore
<1>5. CASE f.type = "I" /\ link.state \in Up
  <2>1. PICK s \in Nat, e \in Nat, l \in Nat : InboundInv(s, e, l)
    BY DEF JInv
  <2>2. s <= f.msg /\ f.msg \in {e - 1, e} /\ f.ns = AX25MODULO(f.msg - s)
        /\ link.vr = AX25MODULO(e - s)
    BY <1>1, <1>5, <2>1 DEF InboundInv, OfferedInv, TakenInv
  <2>3. CASE f.msg = e
    <3>1. InboundInv(s, e + 1, l)'
      BY <1>5, <2>1, <2>3, ReceivedNext
    <3>2. e + 1 \in Nat
      OBVIOUS
    <3>3. peer' = peer
      BY <1>1 DEF NodeStep, peerVars
    <3>4. peer'.start % Period = 0
      BY <3>3 DEF JInv
    <3> QED BY <3>1, <3>2, <3>4 DEF JInv
  <2>4. CASE f.msg = e - 1
    <3>1. e - 1 - s \in Nat /\ (e - 1 - s) + 1 = e - s
      BY <2>2, <2>4, SMT
    <3>2. AX25MODULO(e - 1 - s) = Minus(AX25MODULO((e - 1 - s) + 1), 1)
      BY <3>1, Numbered
    <3>3. f.ns = Minus(link.vr, 1)
      BY <2>2, <2>4, <3>1, <3>2
    <3> QED BY <1>5, <3>3, ReceivedBefore
  <2> QED BY <2>2, <2>3, <2>4
<1> QED BY <1>1, <1>2, <1>3, <1>4, <1>5

-----------------------------------------------------------------------------
(* Steps of the peer and of the radio.                                       *)

LEMMA TakenStill ==
  ASSUME NEW s, NEW e, NEW l, TakenInv(s, e, l), SegmentsInv(s, e),
         UNCHANGED nodeVars, UNCHANGED cut, peer'.start = peer.start, peer'.next = peer.next
  PROVE  TakenInv(s, e, l)' /\ SegmentsInv(s, e)'
<1>1. link' = link /\ delivered' = delivered /\ ra' = ra /\ whole' = whole
  BY DEF nodeVars
<1>2. Undelivered' = Undelivered
  BY <1>1 DEF Undelivered
<1>3. TakenInv(s, e, l)'
  BY <1>1, <1>2 DEF TakenInv, InOrder
<1>4. SegmentsInv(s, e)'
  BY <1>1 DEF SegmentsInv, Sound, WholePackets
<1> QED BY <1>3, <1>4

\* A frame is sent to us: data that were offered before it are no newer.
LEMMA OfferedMore ==
  ASSUME NEW s \in Nat, NEW e \in Nat, NEW l \in Nat, OfferedInv(s, e, l),
         toNode \in Seq(NodeAir), NEW f \in NodeAir, toNode' = Append(toNode, f),
         NEW n \in Nat, l <= n,
         f.type = "I" =>
           /\ s <= f.msg /\ f.msg \in {e - 1, e} /\ f.msg < n
           /\ f.ns = AX25MODULO(f.msg - s)
           /\ f.msg = e \/ l <= e
  PROVE  OfferedInv(s, e, n)'
<1>1. /\ DOMAIN toNode = 1 .. Len(toNode) /\ Len(toNode) \in Nat
      /\ DOMAIN toNode' = 1 .. Len(toNode) + 1
      /\ \A i \in 1 .. Len(toNode) : toNode'[i] = toNode[i]
      /\ toNode'[Len(toNode) + 1] = f
  <2> DEFINE t == Append(toNode, f)
  <2>1. /\ DOMAIN toNode = 1 .. Len(toNode) /\ Len(toNode) \in Nat
        /\ DOMAIN t = 1 .. Len(toNode) + 1
        /\ \A i \in 1 .. Len(toNode) : t[i] = toNode[i]
        /\ t[Len(toNode) + 1] = f
    BY Grown
  <2>2. toNode' = t
    OBVIOUS
  <2> HIDE DEF t
  <2> QED BY <2>1, <2>2
<1>2. ASSUME NEW i \in 1 .. Len(toNode), toNode[i].type = "I"
      PROVE  /\ s <= toNode[i].msg /\ toNode[i].msg \in {e - 1, e} /\ toNode[i].msg < n
             /\ toNode[i].ns = AX25MODULO(toNode[i].msg - s)
             /\ \A j \in 1 .. Len(toNode) : i < j /\ toNode[j].type = "I" =>
                                            toNode[i].msg <= toNode[j].msg
             /\ f.type = "I" => toNode[i].msg <= f.msg
  <2>1. /\ s <= toNode[i].msg /\ toNode[i].msg \in {e - 1, e} /\ toNode[i].msg < l
        /\ toNode[i].ns = AX25MODULO(toNode[i].msg - s)
        /\ \A j \in 1 .. Len(toNode) : i < j /\ toNode[j].type = "I" =>
                                       toNode[i].msg <= toNode[j].msg
    BY <1>1, <1>2 DEF OfferedInv
  <2>2. toNode[i].msg < n
    BY <2>1, SMT
  <2>3. f.type = "I" => toNode[i].msg <= f.msg
    BY <2>1, SMT
  <2> QED BY <2>1, <2>2, <2>3
<1>3. ASSUME NEW i \in DOMAIN toNode'
      PROVE  i \in 1 .. Len(toNode) \/ i = Len(toNode) + 1
  BY <1>1, <1>3, SMT
<1> SUFFICES ASSUME NEW i \in DOMAIN toNode', toNode'[i].type = "I"
             PROVE  /\ s <= toNode'[i].msg /\ toNode'[i].msg \in {e - 1, e} /\ toNode'[i].msg < n
                    /\ toNode'[i].ns = AX25MODULO(toNode'[i].msg - s)
                    /\ \A j \in DOMAIN toNode' : i < j /\ toNode'[j].type = "I" =>
                                                 toNode'[i].msg <= toNode'[j].msg
  BY DEF OfferedInv
<1>4. CASE i \in 1 .. Len(toNode)
  <2>1. toNode'[i] = toNode[i] /\ toNode[i].type = "I"
    BY <1>1, <1>4
  <2>2. ASSUME NEW j \in DOMAIN toNode', i < j, toNode'[j].type = "I"
        PROVE  toNode'[i].msg <= toNode'[j].msg
    <3>1. CASE j \in 1 .. Len(toNode)
      BY <1>1, <1>2, <1>4, <2>1, <2>2, <3>1
    <3>2. CASE j = Len(toNode) + 1
      BY <1>1, <1>2, <1>4, <2>1, <2>2, <3>2
    <3> QED BY <1>3, <3>1, <3>2
  <2> QED BY <1>2, <1>4, <2>1, <2>2
<1>5. CASE i = Len(toNode) + 1
  <2>1. toNode'[i] = f /\ f.type = "I"
    BY <1>1, <1>5
  <2>2. ASSUME NEW j \in DOMAIN toNode', i < j PROVE FALSE
    BY <1>1, <1>5, <2>2, SMT
  <2> QED BY <2>1, <2>2
<1> QED BY <1>3, <1>4, <1>5

LEMMA ReportsBeheaded ==
  ASSUME NEW k \in {0, 1}, Behead(toPeer, toPeer', k),
         \/ peer'.state = peer.state
         \/ peer'.state # "connected"
         \/ 1 \in Uas
  PROVE  \A i \in Reports' : i + k \in Reports
<1>1. \A i \in DOMAIN toPeer' : i + k \in DOMAIN toPeer /\ toPeer'[i] = toPeer[i + k] /\ 1 <= i + k
  BY SMT DEF Behead
<1>2. \A i \in Uas' : i + k \in Uas
  BY <1>1 DEF Uas
<1>3. \A i, j \in DOMAIN toPeer' : j <= i => j + k <= i + k
  BY SMT DEF Behead
<1> SUFFICES ASSUME NEW i \in Reports' PROVE i + k \in Reports
  OBVIOUS
<1>4. /\ i \in DOMAIN toPeer' /\ toPeer'[i].type \in {"I", "RR"}
      /\ peer'.state = "connected" \/ \E j \in Uas' : j <= i
  BY DEF Reports
<1>5. CASE \E j \in Uas' : j <= i
  <2>1. PICK j \in Uas' : j <= i
    BY <1>5
  <2>2. j \in DOMAIN toPeer'
    BY DEF Uas
  <2>3. j + k \in Uas /\ j + k <= i + k
    BY <1>2, <1>3, <1>4, <2>1, <2>2
  <2> QED BY <1>1, <1>4, <2>3 DEF Reports
<1>6. CASE peer'.state = "connected"
  BY <1>1, <1>4, <1>6 DEF Reports
<1> QED BY <1>4, <1>5, <1>6

\* What is left of the reports, the peer having heard of V(R) or not.
LEMMA ReportedOn ==
  ASSUME NEW s \in Nat, NEW e \in Nat, NEW l \in Nat, ReportedInv(s, e, l),
         UNCHANGED nodeVars, UNCHANGED cut, peer'.start = peer.start, peer'.next = peer.next,
         NEW k \in {0, 1}, Behead(toPeer, toPeer', k), \A i \in Reports' : i + k \in Reports,
         \/ peer'.base = peer.base
         \/ peer'.base = e /\ \A i \in Reports' : toPeer'[i].nr = link.vr
  PROVE  ReportedInv(s, e, l)'
<1>1. link' = link /\ delivered' = delivered /\ cut' = cut
  BY DEF nodeVars
<1>2. \A i \in DOMAIN toPeer' : i + k \in DOMAIN toPeer /\ toPeer'[i] = toPeer[i + k]
  BY SMT DEF Behead
<1>3. \A i, j \in DOMAIN toPeer' : i < j => i + k < j + k
  BY SMT DEF Behead
<1>4. \A i \in DOMAIN toPeer' : toPeer'[i].type # "SREJ"
  BY <1>2 DEF ReportedInv
<1> SUFFICES ASSUME cut = NULL
             PROVE  /\ s = peer'.start /\ peer'.base \in {e - 1, e} /\ l = peer'.next
                    /\ peer'.next <= peer'.base + 1
                    /\ \A m \in s .. e - 1 : m \in Range(delivered)
                    /\ \A i \in Reports' :
                         /\ toPeer'[i].nr \in {link.vr, AX25MODULO(peer'.base - s)}
                         /\ toPeer'[i].nr = link.vr =>
                              \A j \in Reports' : i < j => toPeer'[j].nr = link.vr
  BY <1>1, <1>4 DEF ReportedInv
<1>5. /\ s = peer.start /\ peer.base \in {e - 1, e} /\ l = peer.next /\ peer.next <= peer.base + 1
      /\ \A m \in s .. e - 1 : m \in Range(delivered)
      /\ \A i \in Reports :
           /\ toPeer[i].nr \in {link.vr, AX25MODULO(peer.base - s)}
           /\ toPeer[i].nr = link.vr => \A j \in Reports : i < j => toPeer[j].nr = link.vr
  BY DEF ReportedInv
<1>6. \A i \in Reports' : i \in DOMAIN toPeer'
  BY DEF Reports
<1>7. CASE peer'.base = peer.base
  <2>1. ASSUME NEW i \in Reports'
        PROVE  /\ toPeer'[i].nr \in {link.vr, AX25MODULO(peer'.base - s)}
               /\ toPeer'[i].nr = link.vr =>
                    \A j \in Reports' : i < j => toPeer'[j].nr = link.vr
    BY <1>2, <1>3, <1>5, <1>6, <1>7
  <2> QED BY <1>5, <1>7, <2>1
<1>8. CASE peer'.base = e /\ \A i \in Reports' : toPeer'[i].nr = link.vr
  <2>1. l <= e + 1
    BY <1>5, SMT
  <2> QED BY <1>5, <1>8, <2>1
<1> QED BY <1>7, <1>8

LEMMA PeerSends ==
  ASSUME PeerWindow = 1, IInv, JInv, PeerSend \/ PeerResend
  PROVE  JInv'
<1>1. /\ peer \in Peer /\ peer.start \in Nat /\ peer.base \in Nat /\ peer.next \in Nat
      /\ peer.start <= peer.base /\ peer.base <= peer.next /\ peer.expect \in SeqNo
      /\ load[1] \in 0 .. Total
      /\ DOMAIN peer = {"state", "start", "base", "next", "expect", "rejecting", "restarts"}
      /\ Behead(toPeer, toPeer, 0) /\ toPeer \in Seq(PeerAir) /\ toNode \in Seq(NodeAir)
      /\ (peer.start < peer.next => peer.next <= load[1])
  BY PeerNow
<1>2. /\ UNCHANGED nodeVars /\ UNCHANGED cut /\ toPeer' = toPeer /\ link' = link
      /\ delivered' = delivered /\ ra' = ra /\ whole' = whole /\ peer.state = "connected"
  BY DEF PeerSend, PeerResend, PeerIdle, nodeVars
<1>3. cut = NULL
  BY <1>2 DEF IInv, PhaseInv
<1>4. PICK s \in Nat, e \in Nat, l \in Nat : InboundInv(s, e, l)
  BY DEF JInv
<1>5. /\ TakenInv(s, e, l) /\ OfferedInv(s, e, l) /\ ReportedInv(s, e, l) /\ SegmentsInv(s, e)
      /\ s <= e /\ l \in {e, e + 1}
      /\ s = peer.start /\ peer.base \in {e - 1, e} /\ l = peer.next /\ peer.next <= peer.base + 1
      /\ \A m \in s .. e - 1 : m \in Range(delivered)
      /\ \A i \in Reports :
           /\ toPeer[i].nr \in {link.vr, AX25MODULO(peer.base - s)}
           /\ toPeer[i].nr = link.vr => \A j \in Reports : i < j => toPeer[j].nr = link.vr
  BY <1>3, <1>4 DEF InboundInv, ReportedInv, TakenInv
<1>6. \A m \in Msgs, pf \in BOOLEAN : s <= m =>
        LET f == MessageFrame(m, pf)
        IN  f \in NodeAir /\ f.type = "I" /\ f.msg = m /\ f.ns = AX25MODULO(m - s)
  <2> TAKE m \in Msgs, pf \in BOOLEAN
  <2> HAVE s <= m
  <2>1. MessageFrame(m, pf) = Frame("I", "cmd", pf, peer.expect, AX25MODULO(m - s), m)
    BY <1>5 DEF MessageFrame, AX25MODULO
  <2>2. MessageFrame(m, pf) \in NodeAir
    BY <1>1, <1>5, PeerFrames
  <2>3. /\ MessageFrame(m, pf).type = "I" /\ MessageFrame(m, pf).msg = m
        /\ MessageFrame(m, pf).ns = AX25MODULO(m - s)
    BY <2>1 DEF Frame
  <2> QED BY <2>2, <2>3
<1>7. CASE PeerSend
  <2>1. /\ peer.next < load[1] /\ peer.next - peer.base < PeerWindow
        /\ toNode' = Append(toNode, MessageFrame(peer.next, FALSE))
        /\ peer' = [peer EXCEPT !.next = peer.next + 1]
    BY <1>7, Zenon DEF PeerSend, PeerEmits
  <2>2. /\ peer'.start = peer.start /\ peer'.base = peer.base /\ peer'.next = peer.next + 1
        /\ peer'.state = peer.state
    BY <1>1, <2>1, SMT
  <2>3. peer.next = e /\ peer.base = e /\ l = e
    BY <1>1, <1>5, <2>1, SMT
  <2>4. e \in Msgs
    BY <1>1, <2>1, <2>3, DeliveryAssumption, SMT
  <2>5. e + 1 \in Nat
    OBVIOUS
  <2>6. TakenInv(s, e, e + 1)'
    <3>1. Undelivered' = e .. (e + 1) - 1
      <4>1. e \notin Range(delivered)
        <5>1. \A i \in DOMAIN delivered : delivered[i] < e
          BY <1>5 DEF TakenInv
        <5>2. ~(e < e)
          BY SMT
        <5> QED BY <5>1, <5>2 DEF Range
      <4>2. Undelivered = {}
        <5>1. Undelivered = e .. e - 1
          BY <1>5, <2>3 DEF TakenInv
        <5> QED BY <5>1, SMT
      <4>3. Undelivered = {m \in s .. e - 1 : m \notin Range(delivered)}
        BY <1>3, <1>5, <2>3 DEF Undelivered
      <4>4. Undelivered' = {m \in s .. (e + 1) - 1 : m \notin Range(delivered)}
        BY <1>2, <1>3, <1>5, <2>2, <2>3 DEF Undelivered
      <4>5. \A m : m \in s .. (e + 1) - 1 <=> m \in s .. e - 1 \/ m = e
        BY <1>5, SMT
      <4>6. \A m : m \in e .. (e + 1) - 1 <=> m = e
        BY SMT
      <4> QED BY <4>1, <4>2, <4>3, <4>4, <4>5, <4>6
    <3>2. s <= e /\ e + 1 \in {e, e + 1} /\ e + 1 <= peer'.next
      BY <1>5, <2>2, <2>3, SMT
    <3>3. /\ link.vr = AX25MODULO(e - s) /\ link.rxdata_by_ns = [x \in SeqNo |-> None]
          /\ InOrder(delivered) /\ \A i \in DOMAIN delivered : delivered[i] < e
      BY <1>5 DEF TakenInv
    <3> QED BY <1>2, <3>1, <3>2, <3>3 DEF TakenInv, InOrder
  <2>7. OfferedInv(s, e, e + 1)'
    <3> DEFINE f == MessageFrame(peer.next, FALSE)
    <3>1. f \in NodeAir /\ f.type = "I" /\ f.msg = e /\ f.ns = AX25MODULO(e - s)
      BY <1>5, <1>6, <2>3, <2>4
    <3>2. toNode' = Append(toNode, f)
      BY <2>1
    <3> HIDE DEF f
    <3>3. /\ s <= f.msg /\ f.msg \in {e - 1, e} /\ f.msg < e + 1
          /\ f.ns = AX25MODULO(f.msg - s) /\ l <= e + 1
      <4>1. e < e + 1 /\ e <= e + 1
        BY SMT
      <4> QED BY <1>5, <2>3, <3>1, <4>1
    <3> QED BY <1>1, <1>5, <2>5, <3>1, <3>2, <3>3, OfferedMore
  <2>8. ReportedInv(s, e, e + 1)'
    <3>1. Reports' = Reports
      BY <1>2, <2>2 DEF Reports, Uas
    <3>2. \A i \in DOMAIN toPeer : toPeer[i].type # "SREJ"
      BY <1>5 DEF ReportedInv
    <3> QED BY <1>2, <1>5, <2>2, <2>3, <3>1, <3>2 DEF ReportedInv
  <2>9. SegmentsInv(s, e)'
    BY <1>2, <1>5 DEF SegmentsInv, Sound, WholePackets
  <2>10. peer'.start % Period = 0
    BY <2>2 DEF JInv
  <2> QED BY <2>5, <2>6, <2>7, <2>8, <2>9, <2>10 DEF JInv, InboundInv
<1>8. CASE PeerResend
  <2>1. /\ peer.base < peer.next /\ peer' = peer
        /\ toNode' = Append(toNode, MessageFrame(peer.base, TRUE))
    BY <1>8 DEF PeerResend, PeerEmits, peerVars
  <2>2. peer.base \in Msgs /\ s <= peer.base
    BY <1>1, <1>5, <2>1, DeliveryAssumption, SMT
  <2>3. OfferedInv(s, e, l)'
    <3> DEFINE f == MessageFrame(peer.base, TRUE)
    <3>1. f \in NodeAir /\ f.type = "I" /\ f.msg = peer.base /\ f.ns = AX25MODULO(f.msg - s)
      BY <1>6, <2>2
    <3>2. toNode' = Append(toNode, f)
      BY <2>1
    <3> HIDE DEF f
    <3>3. f.msg = e \/ l <= e
      BY <1>1, <1>5, <3>1, SMT
    <3>4. s <= f.msg /\ f.msg \in {e - 1, e} /\ f.msg < l /\ l <= l
      BY <1>1, <1>5, <2>1, <2>2, <3>1, SMT
    <3> QED BY <1>1, <1>5, <3>1, <3>2, <3>3, <3>4, OfferedMore
  <2>4. TakenInv(s, e, l)' /\ SegmentsInv(s, e)'
    BY <1>2, <1>5, <2>1, TakenStill
  <2>5. ReportedInv(s, e, l)'
    <3>1. Behead(toPeer, toPeer', 0)
      BY <1>1, <1>2
    <3>2. \A i \in Reports' : i + 0 \in Reports
      BY <2>1, <3>1, ReportsBeheaded
    <3> QED BY <1>2, <1>5, <2>1, <3>1, <3>2, ReportedOn
  <2>6. peer'.start % Period = 0
    BY <2>1 DEF JInv
  <2> QED BY <2>3, <2>4, <2>5, <2>6 DEF JInv, InboundInv
<1> QED BY <1>7, <1>8

\* What the peer takes, loses or announces, it offers no data.
LEMMA PeerStill ==
  ASSUME IInv, JInv, UNCHANGED nodeVars, UNCHANGED cut,
         peer'.start = peer.start, peer'.next = peer.next,
         NEW k \in {0, 1}, Behead(toPeer, toPeer', k), \A i \in Reports' : i + k \in Reports,
         \A s, e, l \in Nat : InboundInv(s, e, l) =>
            \/ peer'.base = peer.base
            \/ peer'.base = e /\ \A i \in Reports' : toPeer'[i].nr = link.vr,
         \/ toNode' = toNode
         \/ toNode # <<>> /\ toNode' = Tail(toNode)
         \/ \E f \in NodeAir : f.type # "I" /\ toNode' = Append(toNode, f)
  PROVE  JInv'
<1>1. PICK s \in Nat, e \in Nat, l \in Nat : InboundInv(s, e, l)
  BY DEF JInv
<1>2. /\ TakenInv(s, e, l) /\ OfferedInv(s, e, l) /\ ReportedInv(s, e, l) /\ SegmentsInv(s, e)
      /\ toNode \in Seq(NodeAir)
  BY <1>1, PeerNow DEF InboundInv
<1>3. TakenInv(s, e, l)' /\ SegmentsInv(s, e)'
  BY <1>2, TakenStill
<1>4. OfferedInv(s, e, l)'
  <2>1. CASE toNode' = toNode
    <3>1. Behead(toNode, toNode', 0)
      BY <1>2, <2>1, Beheaded
    <3> QED BY <1>2, <3>1, OfferedOn
  <2>2. CASE toNode # <<>> /\ toNode' = Tail(toNode)
    <3>1. Behead(toNode, toNode', 1)
      BY <1>2, <2>2, Beheaded
    <3> QED BY <1>2, <3>1, OfferedOn
  <2>3. CASE \E f \in NodeAir : f.type # "I" /\ toNode' = Append(toNode, f)
    <3>1. l <= l
      BY SMT
    <3> QED BY <1>2, <2>3, <3>1, OfferedMore
  <2> QED BY <2>1, <2>2, <2>3
<1>5. ReportedInv(s, e, l)'
  <2>1. \/ peer'.base = peer.base
        \/ peer'.base = e /\ \A i \in Reports' : toPeer'[i].nr = link.vr
    BY <1>1
  <2> QED BY <1>2, <2>1, ReportedOn
<1>6. peer'.start % Period = 0
  BY DEF JInv
<1> QED BY <1>3, <1>4, <1>5, <1>6 DEF JInv, InboundInv

LEMMA LossesInbound == IInv /\ JInv /\ (LoseToNode \/ LoseToPeer \/ PeerConnectAgain) => JInv'
<1> SUFFICES ASSUME IInv, JInv, LoseToNode \/ LoseToPeer \/ PeerConnectAgain PROVE JInv'
  OBVIOUS
<1>1. Behead(toPeer, toPeer, 0) /\ toPeer \in Seq(PeerAir)
  BY PeerNow
<1>2. UNCHANGED nodeVars /\ UNCHANGED cut /\ peer' = peer
  BY DEF LoseToNode, LoseToPeer, PeerConnectAgain, PeerIdle, peerVars, nodeVars
<1>3. Behead(toPeer, toPeer', 0) \/ Behead(toPeer, toPeer', 1)
  <2>1. toPeer' = toPeer \/ (toPeer # <<>> /\ toPeer' = Tail(toPeer))
    BY DEF LoseToNode, LoseToPeer, PeerConnectAgain, PeerIdle
  <2> QED BY <1>1, <2>1, Beheaded
<1>4. PICK k \in {0, 1} : Behead(toPeer, toPeer', k)
  BY <1>3
<1>5. \A i \in Reports' : i + k \in Reports
  BY <1>2, <1>4, ReportsBeheaded
<1>6. \/ toNode' = toNode
      \/ toNode # <<>> /\ toNode' = Tail(toNode)
      \/ \E f \in NodeAir : f.type # "I" /\ toNode' = Append(toNode, f)
  <2>1. Sabm \in NodeAir /\ Sabm.type # "I"
    <3>1. 0 \in SeqNo
      BY LinkAssumption, SMT DEF SeqNo
    <3>2. Sabm \in NodeAir /\ Sabm.type = "SABM"
      BY <3>1, PeerFrames
    <3> QED BY <3>2
  <2> QED BY <2>1 DEF LoseToNode, LoseToPeer, PeerConnectAgain, PeerEmits
<1> QED BY <1>2, <1>4, <1>5, <1>6, PeerStill

\* The peer takes N(R) of a frame for the number of the next message, or the one
\* that it has.
LEMMA AckHeard ==
  ASSUME IInv, NEW s \in Nat, NEW e \in Nat, NEW l \in Nat, InboundInv(s, e, l), cut = NULL,
         peer.state = "connected", toPeer # <<>>, toPeer' = Tail(toPeer),
         Head(toPeer).type \in {"I", "RR"}
  PROVE  \/ Acked(Head(toPeer).nr) = peer.base
         \/ Acked(Head(toPeer).nr) = e /\ \A i \in Reports : 1 < i => toPeer[i].nr = link.vr
<1> DEFINE f == Head(toPeer)
           a == peer.base - s
           d == Minus(f.nr, AX25MODULO(a))
<1>1. f = toPeer[1] /\ 1 \in DOMAIN toPeer /\ f.nr \in SeqNo
  BY Heads
<1>2. /\ peer.start \in Nat /\ peer.base \in Nat /\ peer.next \in Nat
      /\ peer.start <= peer.base /\ peer.base <= peer.next
  BY PeerNow
<1>3. /\ s = peer.start /\ peer.base \in {e - 1, e} /\ l = peer.next /\ peer.next <= peer.base + 1
      /\ l \in {e, e + 1} /\ link.vr = AX25MODULO(e - s)
      /\ \A i \in Reports :
           /\ toPeer[i].nr \in {link.vr, AX25MODULO(peer.base - s)}
           /\ toPeer[i].nr = link.vr => \A j \in Reports : i < j => toPeer[j].nr = link.vr
  BY DEF InboundInv, TakenInv, ReportedInv
<1>4. 1 \in Reports
  BY <1>1 DEF Reports
<1>5. /\ f.nr \in {link.vr, AX25MODULO(a)}
      /\ f.nr = link.vr => \A j \in Reports : 1 < j => toPeer[j].nr = link.vr
  BY <1>1, <1>3, <1>4
<1> HIDE DEF f
<1>6. a \in Nat
  BY <1>2, <1>3, SMT
<1>7. Acked(f.nr) = IF d <= peer.next - peer.base THEN peer.base + d ELSE peer.base
  BY <1>3 DEF Acked, AX25MODULO
<1> DEFINE x == AX25MODULO(a)
           y == AX25MODULO(a + 1)
<1>8. /\ x \in SeqNo /\ y \in SeqNo /\ y = AX25MODULO(x + 1)
      /\ x \in 0 .. Modulo
  <2>1. x \in SeqNo /\ y = AX25MODULO(x + 1)
    BY <1>6, Numbered
  <2>2. a + 1 \in Nat
    BY <1>6, SMT
  <2>3. y \in SeqNo
    BY <2>2, Numbered
  <2> HIDE DEF x, y
  <2> QED BY <2>1, <2>3, LinkAssumption, SMT DEF SeqNo
<1>9. CASE f.nr = AX25MODULO(a)
  <2> HIDE DEF x, y
  <2>1. d = Minus(x, x)
    BY <1>9 DEF x
  <2>2. Minus(x, x) = IF x <= x THEN x - x ELSE x + Modulo - x
    BY <1>8, MinusValue
  <2>3. d = 0
    BY <1>8, <2>1, <2>2, LinkAssumption, SMT DEF SeqNo
  <2> HIDE DEF d
  <2>4. Acked(f.nr) = peer.base
    BY <1>2, <1>7, <2>3, SMT
  <2> QED BY <2>4 DEF f
<1>10. CASE f.nr = link.vr
  <2>1. CASE peer.base = e
    <3>1. link.vr = AX25MODULO(a)
      BY <1>3, <2>1
    <3> QED BY <1>9, <1>10, <3>1
  <2>2. CASE peer.base = e - 1
    <3>1. e - s = a + 1 /\ e = peer.base + 1 /\ peer.next - peer.base = 1
      BY <1>2, <1>3, <2>2, SMT
    <3>2. f.nr = y
      BY <1>3, <1>10, <3>1
    <3> HIDE DEF x, y
    <3>3. Minus(y, x) = IF x <= y THEN y - x ELSE y + Modulo - x
      BY <1>8, MinusValue
    <3>4. AX25MODULO(x + 1) = IF x + 1 < Modulo THEN x + 1 ELSE (x + 1) - Modulo
      <4>1. x + 1 \in Nat /\ x + 1 < 2 * Modulo
        BY <1>8, LinkAssumption, SMT DEF SeqNo
      <4> QED BY <4>1, Wrap
    <3>5. Minus(y, x) = 1
      BY <1>8, <3>3, <3>4, LinkAssumption, SMT DEF SeqNo
    <3>6. d = 1
      BY <3>2, <3>5 DEF x
    <3> HIDE DEF d
    <3>7. Acked(f.nr) = e
      BY <1>2, <1>7, <3>1, <3>6, SMT
    <3> QED BY <1>5, <1>10, <3>7 DEF f
  <2> QED BY <1>3, <2>1, <2>2
<1> QED BY <1>5, <1>9, <1>10

LEMMA PeerReceiveInbound == IInv /\ JInv /\ PeerReceive => JInv'
<1> SUFFICES ASSUME IInv, JInv, PeerReceive PROVE JInv'
  OBVIOUS
<1> DEFINE f == Head(toPeer)
<1>1. /\ toPeer # <<>> /\ toPeer' = Tail(toPeer) /\ UNCHANGED nodeVars /\ UNCHANGED cut
      /\ link' = link /\ toNode \in Seq(NodeAir)
      /\ DOMAIN peer = {"state", "start", "base", "next", "expect", "rejecting", "restarts"}
      /\ peer.expect \in SeqNo
  BY PeerNow DEF PeerReceive, nodeVars
<1>2. /\ Behead(toPeer, toPeer', 1) /\ 1 \in DOMAIN toPeer /\ f = toPeer[1] /\ f \in PeerAir
      /\ f.nr \in SeqNo /\ f.pf \in BOOLEAN
  BY <1>1, Heads
<1>3. f.type # "SREJ"
  BY <1>2 DEF JInv, InboundInv, ReportedInv
<1>4. \/ f.type = "I" /\ peer.state = "connected" /\ PeerTakesI(f)
      \/ f.type \in Supervisory /\ peer.state = "connected" /\ PeerTakesS(f)
      \/ PeerTakesU(f) /\ toNode' = toNode
      \/ toNode' = toNode /\ peer' = peer
  BY DEF PeerReceive, peerVars
<1> HIDE DEF f
<1>5. peer.state = "connected" => cut = NULL /\ Uas = {}
  BY DEF IInv, PhaseInv
<1>6. ASSUME peer.state = "connected", f.type \in {"I", "RR"},
             peer'.state = peer.state, peer'.start = peer.start, peer'.next = peer.next,
             peer'.base = Acked(f.nr),
             \/ toNode' = toNode
             \/ \E h \in NodeAir : h.type # "I" /\ toNode' = Append(toNode, h)
      PROVE  JInv'
  <2>1. \A i \in Reports' : i + 1 \in Reports /\ toPeer'[i] = toPeer[i + 1] /\ 1 < i + 1
    <3>1. \A i \in Reports' : i + 1 \in Reports
      BY <1>2, <1>6, ReportsBeheaded
    <3>2. \A i \in DOMAIN toPeer' : toPeer'[i] = toPeer[i + 1] /\ 1 < i + 1
      BY <1>2, SMT DEF Behead
    <3> QED BY <3>1, <3>2 DEF Reports
  <2>2. ASSUME NEW s \in Nat, NEW e \in Nat, NEW l \in Nat, InboundInv(s, e, l)
        PROVE  \/ peer'.base = peer.base
               \/ peer'.base = e /\ \A i \in Reports' : toPeer'[i].nr = link.vr
    <3>1. \/ Acked(f.nr) = peer.base
          \/ Acked(f.nr) = e /\ \A i \in Reports : 1 < i => toPeer[i].nr = link.vr
      BY <1>1, <1>5, <1>6, <2>2, AckHeard DEF f
    <3> QED BY <1>6, <2>1, <3>1
  <2> QED BY <1>1, <1>2, <1>6, <2>1, <2>2, PeerStill
<1>7. CASE f.type = "I" /\ peer.state = "connected" /\ PeerTakesI(f)
  <2>1. /\ peer'.state = peer.state /\ peer'.start = peer.start /\ peer'.next = peer.next
        /\ peer'.base = Acked(f.nr)
    <3>1. PICK P : /\ P = [peer EXCEPT !.base = Acked(f.nr)]
                   /\ \/ peer' = [P EXCEPT !.expect = AX25MODULO(P.expect + 1), !.rejecting = FALSE]
                      \/ peer' = [P EXCEPT !.rejecting = TRUE]
      BY <1>7 DEF PeerTakesI
    <3>2. /\ DOMAIN P = {"state", "start", "base", "next", "expect", "rejecting", "restarts"}
          /\ P.state = peer.state /\ P.start = peer.start /\ P.next = peer.next
          /\ P.base = Acked(f.nr)
      BY <1>1, <3>1, SMT
    <3>3. CASE peer' = [P EXCEPT !.expect = AX25MODULO(P.expect + 1), !.rejecting = FALSE]
      <4> DEFINE x == AX25MODULO(P.expect + 1)
      <4>1. peer' = [P EXCEPT !.expect = x, !.rejecting = FALSE]
        BY <3>3
      <4> HIDE DEF x
      <4>2. /\ peer'.state = P.state /\ peer'.start = P.start /\ peer'.next = P.next
            /\ peer'.base = P.base
        BY <3>2, <4>1, SMT
      <4> QED BY <3>2, <4>2
    <3>4. CASE peer' = [P EXCEPT !.rejecting = TRUE]
      BY <3>2, <3>4, SMT
    <3> QED BY <3>1, <3>3, <3>4
  <2>2. \/ toNode' = toNode
        \/ toNode' = Append(toNode, SFrame("RR", "res", f.pf, AX25MODULO(peer.expect + 1)))
        \/ toNode' = Append(toNode, SFrame("REJ", "res", f.pf, peer.expect))
    BY <1>7 DEF PeerTakesI, PeerEmits
  <2>3. AX25MODULO(peer.expect + 1) \in SeqNo
    <3>1. LinkInv
      BY DEF IInv
    <3> QED BY <1>1, <3>1, Apart
  <2>4. \A nr \in SeqNo : /\ SFrame("RR", "res", f.pf, nr) \in NodeAir
                          /\ SFrame("RR", "res", f.pf, nr).type = "RR"
                          /\ SFrame("REJ", "res", f.pf, nr) \in NodeAir
                          /\ SFrame("REJ", "res", f.pf, nr).type = "REJ"
    BY <1>2, PeerFrames
  <2>5. \/ toNode' = toNode
        \/ \E h \in NodeAir : h.type # "I" /\ toNode' = Append(toNode, h)
    <3>1. CASE toNode' = Append(toNode, SFrame("RR", "res", f.pf, AX25MODULO(peer.expect + 1)))
      <4> DEFINE h == SFrame("RR", "res", f.pf, AX25MODULO(peer.expect + 1))
      <4>1. h \in NodeAir /\ h.type = "RR"
        BY <2>3, <2>4
      <4> HIDE DEF h
      <4>2. toNode' = Append(toNode, h)
        BY <3>1 DEF h
      <4> QED BY <4>1, <4>2
    <3>2. CASE toNode' = Append(toNode, SFrame("REJ", "res", f.pf, peer.expect))
      <4> DEFINE h == SFrame("REJ", "res", f.pf, peer.expect)
      <4>1. h \in NodeAir /\ h.type = "REJ"
        BY <1>1, <2>4
      <4> HIDE DEF h
      <4>2. toNode' = Append(toNode, h)
        BY <3>2 DEF h
      <4> QED BY <4>1, <4>2
    <3> QED BY <2>2, <3>1, <3>2
  <2> QED BY <1>6, <1>7, <2>1, <2>5
<1>8. CASE f.type \in Supervisory /\ peer.state = "connected" /\ PeerTakesS(f)
  <2>1. f.type = "RR"
    <3>1. f.type \in {"I", "RR", "SREJ", "UA", "DM"}
      BY <1>2, SMT DEF PeerAir
    <3> QED BY <1>3, <1>8, <3>1 DEF Supervisory
  <2>2. peer' = [peer EXCEPT !.base = Acked(f.nr)]
    BY <1>8, <2>1 DEF PeerTakesS
  <2>3. /\ peer'.state = peer.state /\ peer'.start = peer.start /\ peer'.next = peer.next
        /\ peer'.base = Acked(f.nr)
    BY <1>1, <2>2, SMT
  <2>4. toNode' = toNode \/ toNode' = Append(toNode, SFrame("RR", "res", TRUE, peer.expect))
    <3>1. {m \in peer.base .. peer.next - 1 :
             f.type = "SREJ" /\ (m - peer.start) % Modulo = f.nr} = {}
      BY <2>1
    <3> QED BY <1>8, <3>1 DEF PeerTakesS, PeerEmits
  <2>5. /\ SFrame("RR", "res", TRUE, peer.expect) \in NodeAir
        /\ SFrame("RR", "res", TRUE, peer.expect).type = "RR"
    BY <1>1, PeerFrames
  <2>6. \/ toNode' = toNode
        \/ \E h \in NodeAir : h.type # "I" /\ toNode' = Append(toNode, h)
    <3> DEFINE h == SFrame("RR", "res", TRUE, peer.expect)
    <3>1. h \in NodeAir /\ h.type # "I"
      BY <2>5
    <3>2. toNode' = toNode \/ toNode' = Append(toNode, h)
      BY <2>4
    <3> HIDE DEF h
    <3> QED BY <3>1, <3>2
  <2> QED BY <1>6, <1>8, <2>1, <2>3, <2>6
<1>9. CASE PeerTakesU(f) /\ toNode' = toNode
  <2> DEFINE st == CASE f.type = "DM" /\ peer.state # "connecting" -> "disconnected"
                     [] f.type = "UA" /\ peer.state = "connecting" -> "connected"
                     [] OTHER -> peer.state
  <2>1. \/ st = peer.state
        \/ st = "disconnected"
        \/ st = "connected" /\ f.type = "UA"
    OBVIOUS
  <2>2. peer' = [peer EXCEPT !.state = st]
    BY <1>9, Zenon DEF PeerTakesU
  <2> HIDE DEF st
  <2>3. /\ peer'.state = st /\ peer'.start = peer.start /\ peer'.base = peer.base
        /\ peer'.next = peer.next
    BY <1>1, <2>2, SMT
  <2>4. \A i \in Reports' : i + 1 \in Reports
    <3>1. \/ peer'.state = peer.state
          \/ peer'.state # "connected"
          \/ 1 \in Uas
      BY <1>2, <2>1, <2>3 DEF Uas
    <3> QED BY <1>2, <3>1, ReportsBeheaded
  <2> QED BY <1>1, <1>2, <1>9, <2>3, <2>4, PeerStill
<1>10. CASE toNode' = toNode /\ peer' = peer
  <2>1. \A i \in Reports' : i + 1 \in Reports
    BY <1>2, <1>10, ReportsBeheaded
  <2> QED BY <1>1, <1>2, <1>10, <2>1, PeerStill
<1> QED BY <1>4, <1>7, <1>8, <1>9, <1>10

-----------------------------------------------------------------------------
(* The restart of the peer, and the specification.                           *)

\* What the peer had handed over it forgets; its next packet begins a connection.
LEMMA PeerRestartInbound == IInv /\ JInv /\ PeerRestart => JInv'
<1> SUFFICES ASSUME IInv, JInv, PeerRestart PROVE JInv'
  OBVIOUS
<1> DEFINE first == CHOOSE m \in peer.next .. peer.next + Segments : m % Period = 0
<1>1. /\ toNode' = Append(toNode, Sabm)
      /\ peer' = [state |-> "connecting", start |-> first, base |-> first, next |-> first,
                  expect |-> 0, rejecting |-> FALSE, restarts |-> peer.restarts + 1]
      /\ cut' = Undelivered /\ UNCHANGED nodeVars /\ toPeer' = toPeer
  BY Zenon DEF PeerRestart, PeerEmits
<1>2. /\ PeerInv /\ peer.start \in Nat /\ peer.next \in Nat /\ toNode \in Seq(NodeAir)
      /\ peer.start < peer.next => peer.next <= load[1]
      /\ load[1] \in 0 .. Total
  BY PeerNow DEF IInv
<1>3. first \in Nat /\ peer.next <= first /\ first % Period = 0
  <2>1. first \in peer.next .. peer.next + Segments /\ first % Period = 0
    BY <1>2, PacketBegins
  <2> HIDE DEF first
  <2> QED BY <1>2, <2>1, DeliveryAssumption, SMT
<1> HIDE DEF first
<1>4. peer'.start = first /\ peer'.next = first
  BY <1>1
<1>5. cut' \in SUBSET Msgs /\ cut' # NULL
  <2>1. \A m \in peer.start .. peer.next - 1 : m \in Msgs
    BY <1>2, DeliveryAssumption, SMT
  <2>2. cut # NULL => cut \in SUBSET Msgs
    BY <1>2 DEF PeerInv
  <2>3. Undelivered \in SUBSET Msgs
    BY <2>1, <2>2 DEF Undelivered
  <2> QED BY <1>1, <2>3, DeliveryAssumption
<1>6. PICK s \in Nat, e \in Nat, l \in Nat : InboundInv(s, e, l)
  BY DEF JInv
<1>7. /\ TakenInv(s, e, l) /\ OfferedInv(s, e, l) /\ ReportedInv(s, e, l) /\ SegmentsInv(s, e)
  BY <1>6 DEF InboundInv
<1>8. link' = link /\ delivered' = delivered /\ ra' = ra /\ whole' = whole
  BY <1>1 DEF nodeVars
<1>9. Undelivered' = Undelivered
  <2>1. peer'.start .. peer'.next - 1 = {}
    BY <1>3, <1>4, SMT
  <2>2. Undelivered' = {m \in cut' \cup {} : m \notin Range(delivered)}
    BY <1>5, <1>8, <2>1 DEF Undelivered
  <2>3. \A m \in Undelivered : m \notin Range(delivered)
    BY DEF Undelivered
  <2> QED BY <1>1, <2>2, <2>3
<1>10. TakenInv(s, e, l)'
  <2>1. l <= peer'.next
    BY <1>2, <1>3, <1>4, <1>7, SMT DEF TakenInv
  <2> QED BY <1>7, <1>8, <1>9, <2>1 DEF TakenInv, InOrder
<1>11. SegmentsInv(s, e)'
  BY <1>7, <1>8 DEF SegmentsInv, Sound, WholePackets
<1>12. OfferedInv(s, e, l)'
  <2>1. 0 \in SeqNo
    BY LinkAssumption, SMT DEF SeqNo
  <2>2. Sabm \in NodeAir /\ Sabm.type = "SABM"
    BY <2>1, PeerFrames
  <2>3. l <= l
    BY SMT
  <2> QED BY <1>1, <1>2, <1>7, <2>2, <2>3, OfferedMore
<1>13. ReportedInv(s, e, l)'
  BY <1>1, <1>5, <1>7 DEF ReportedInv
<1>14. peer'.start % Period = 0
  BY <1>3, <1>4
<1> QED BY <1>10, <1>11, <1>12, <1>13, <1>14 DEF JInv, InboundInv

LEMMA InitInbound == Init => JInv
<1> SUFFICES ASSUME Init PROVE JInv
  OBVIOUS
<1> DEFINE L == lm_data_indication(NewLink, UFrame("SABM", "cmd", TRUE))
<1>1. Good(L, TRUE) /\ L.vr = 0 /\ L.rxdata_by_ns = [x \in SeqNo |-> None]
  BY LinkAtFirst
<1>2. link = Fresh(L) /\ toNode = <<>> /\ toPeer = <<>> /\ delivered = <<>> /\ cut = NULL
      /\ ra = R!Ready /\ whole = <<>>
  BY DEF Init
<1> HIDE DEF L
<1>3. link.vr = 0 /\ link.rxdata_by_ns = [x \in SeqNo |-> None]
  <2>1. DOMAIN L = Fields
    BY <1>1 DEF Good, Typed
  <2>2. link.vr = L.vr /\ link.rxdata_by_ns = L.rxdata_by_ns
    BY <1>2, <2>1, SMT DEF Fresh, Fields
  <2> QED BY <1>1, <2>2
<1>4. /\ peer = [state |-> "connected", start |-> 0, base |-> 0, next |-> 0,
                 expect |-> 0, rejecting |-> FALSE, restarts |-> 0]
      /\ peer.start = 0 /\ peer.base = 0 /\ peer.next = 0
  BY DEF Init
<1>5. DOMAIN <<>> = {} /\ Range(<<>>) = {} /\ <<>> \in Seq(Seq(Nat))
  BY SMT DEF Range
<1>6. 0 % Period = 0 /\ 0 .. 0 - 1 = {} /\ 0 \in Nat
  <2>1. Period \in Nat \ {0}
    BY DeliveryAssumption, SMT DEF Period
  <2>2. \A p \in Nat \ {0} : 0 % p = 0
    BY SMT
  <2> QED BY <2>1, <2>2, SMT
<1>7. TakenInv(0, 0, 0)
  <2>1. Undelivered = {}
    BY <1>2, <1>4, <1>6 DEF Undelivered
  <2>2. AX25MODULO(0 - 0) = 0
    BY <1>6, Numbered
  <2>3. 0 <= 0
    BY SMT
  <2> QED BY <1>2, <1>3, <1>4, <1>5, <1>6, <2>1, <2>2, <2>3 DEF TakenInv, InOrder
<1>8. OfferedInv(0, 0, 0)
  BY <1>2, <1>5 DEF OfferedInv
<1>9. ReportedInv(0, 0, 0)
  <2>1. Reports = {}
    BY <1>2, <1>5 DEF Reports
  <2>2. 0 <= 0 + 1
    BY SMT
  <2> QED BY <1>2, <1>4, <1>5, <1>6, <2>1, <2>2 DEF ReportedInv
<1>10. SegmentsInv(0, 0)
  <2>1. R!Ready = [ra_buff |-> NULL, ra_following |-> 0, done |-> <<>>]
    BY DEF R!Ready
  <2>2. ra.ra_buff = NULL /\ Sound(ra)
    BY <1>2, <2>1, SMT DEF Sound
  <2>3. WholePackets
    BY <1>2, <1>5 DEF WholePackets
  <2> QED BY <1>2, <1>5, <1>6, <2>2, <2>3 DEF SegmentsInv
<1> QED BY <1>4, <1>6, <1>7, <1>8, <1>9, <1>10 DEF JInv, InboundInv

LEMMA StillInbound == IInv /\ JInv /\ UNCHANGED vars => JInv'
<1> SUFFICES ASSUME IInv, JInv, UNCHANGED vars PROVE JInv'
  OBVIOUS
<1>1. /\ UNCHANGED nodeVars /\ UNCHANGED cut /\ peer' = peer /\ toPeer' = toPeer
      /\ toNode' = toNode
  BY DEF vars, nodeVars
<1>2. Behead(toPeer, toPeer', 0)
  BY <1>1, PeerNow
<1>3. \A i \in Reports' : i + 0 \in Reports
  BY <1>1, <1>2, ReportsBeheaded
<1> QED BY <1>1, <1>2, <1>3, PeerStill

LEMMA NextInbound ==
  ASSUME PeerWindow = 1
  PROVE  IInv /\ JInv /\ [Next]_vars => JInv'
BY StillInbound, ReceiveInbound, OwnEventsEcho, PeerSends, PeerReceiveInbound,
   PeerRestartInbound, LossesInbound DEF Next

LEMMA InboundInductive ==
  ASSUME PeerWindow = 1
  PROVE  Spec => []JInv
<1>1. Init => JInv
  BY InitInbound
<1>2. IInv /\ JInv /\ [Next]_vars => JInv'
  BY NextInbound
<1>3. Spec => []IInv
  BY Inductive
<1> QED BY <1>1, <1>2, <1>3, PTL DEF Spec

\* Messages reach the clients of both ends in order and none of them twice,
\* over losses, retransmissions, restarts of the peer and the wrap of sequence
\* numbers, whatever Modulo is: an I frame that is repeated is never taken for
\* a new one.  This is for a peer that waits for each acknowledgement; with a
\* larger window what is left in rxdata_by_ns breaks the order.
THEOREM BothInOrder ==
  ASSUME PeerWindow = 1
  PROVE  Spec => []DeliveredInOrder
<1>1. IInv /\ JInv => DeliveredInOrder
  BY DEF IInv, ReceivedInv, JInv, InboundInv, TakenInv, DeliveredInOrder
<1>2. Spec => []JInv
  BY InboundInductive
<1> QED BY <1>1, <1>2, Inductive, PTL

\* Neither end lets go of a message that has not arrived, in either direction:
\* N(R) of every frame we send, V(R) at that time, reaches the peer in its turn,
\* and it is not taken for one of an earlier connection.
THEOREM NothingLetGoUnseen ==
  ASSUME PeerWindow = 1
  PROVE  Spec => []AckedWasDelivered
<1>1. IInv /\ JInv => AckedWasDelivered
  <2> SUFFICES ASSUME IInv, JInv, cut = NULL
               PROVE  /\ \A m \in peer.start .. peer.base - 1 : m \in Range(delivered)
                      /\ Minus(peer.expect, link.va) <= Minus(link.vs, link.va)
    BY DEF AckedWasDelivered
  <2>1. PICK s \in Nat, e \in Nat, l \in Nat : InboundInv(s, e, l)
    BY DEF JInv
  <2>2. /\ s = peer.start /\ peer.base \in {e - 1, e}
        /\ \A m \in s .. e - 1 : m \in Range(delivered)
    BY <2>1 DEF InboundInv, ReportedInv
  <2>3. \A m \in peer.start .. peer.base - 1 : m \in s .. e - 1
    BY <2>2, SMT
  <2>4. Minus(peer.expect, link.va) <= Minus(link.vs, link.va)
    BY DEF IInv, DataInv, D
  <2> QED BY <2>2, <2>3, <2>4
<1>2. Spec => []JInv
  BY InboundInductive
<1> QED BY <1>1, <1>2, Inductive, PTL

\* A packet that the reassembler puts together consists of all the segments of
\* one packet in their order and of nothing else, for any number of segments, even
\* though sabm_frame leaves ra_buff and ra_following as they are when the peer
\* connects anew in the middle of a packet.
THEOREM PacketsWhole ==
  ASSUME PeerWindow = 1
  PROVE  Spec => []WholePackets
<1>1. JInv => WholePackets
  BY DEF JInv, InboundInv, SegmentsInv
<1>2. Spec => []JInv
  BY InboundInductive
<1> QED BY <1>1, <1>2, PTL

-----------------------------------------------------------------------------
(* What keeps the data of our client moving.                                 *)

\* Frames that are outstanding have T1; a queue of which more may go out has a
\* null packet in the transmit queue.
Awaited(S, packets) ==
  S.state \in Up /\ S.i_frame_queue # <<>> /\ WITHIN_WINDOW_SIZE(S) => packets > 0

MovingInv == Armed(link) /\ Awaited(link, seizes)

\* Two numbers as far from va are the same.
LEMMA SameDistance ==
  ASSUME NEW va \in SeqNo, NEW x \in SeqNo, NEW y \in SeqNo, Minus(x, va) = Minus(y, va)
  PROVE  x = y
<1>1. va \in 0 .. Modulo
  BY LinkAssumption, SMT DEF SeqNo
<1>2. /\ Minus(x, va) = IF va <= x THEN x - va ELSE x + Modulo - va
      /\ Minus(y, va) = IF va <= y THEN y - va ELSE y + Modulo - va
  BY <1>1, MinusValue
<1>3. /\ Minus(x, va) \in Int /\ va \in Int /\ x \in Int /\ y \in Int /\ Modulo \in Int
      /\ 0 <= x /\ x < Modulo /\ 0 <= y /\ y < Modulo /\ 0 <= va /\ va < Modulo
  BY <1>2, LinkAssumption, SMT DEF SeqNo
<1> DEFINE d == Minus(x, va)
<1>4. d = (IF va <= x THEN x - va ELSE x + Modulo - va)
      /\ d = (IF va <= y THEN y - va ELSE y + Modulo - va)
  BY <1>2
<1> HIDE DEF d
<1> QED BY <1>3, <1>4, SMT

\* The end of the window, and what is left of it.
LEMMA WindowEnd ==
  ASSUME NEW vs \in SeqNo, NEW va \in SeqNo, Minus(vs, va) <= k_maxframe
  PROVE  /\ AX25MODULO(va + k_maxframe) \in SeqNo
         /\ Minus(AX25MODULO(va + k_maxframe), va) = k_maxframe
         /\ Minus(va + k_maxframe, vs) = k_maxframe - Minus(vs, va)
<1>1. /\ k_maxframe \in Nat /\ 1 <= k_maxframe /\ k_maxframe < Modulo /\ Modulo \in Nat
      /\ vs \in Nat /\ vs < Modulo /\ va \in Nat /\ va < Modulo /\ va \in 0 .. Modulo
  BY LinkAssumption, SMT DEF SeqNo
<1> DEFINE e == AX25MODULO(va + k_maxframe)
           d == Minus(vs, va)
<1>2. e = IF va + k_maxframe < Modulo THEN va + k_maxframe ELSE (va + k_maxframe) - Modulo
  <2>1. va + k_maxframe \in Nat /\ va + k_maxframe < 2 * Modulo
    BY <1>1, SMT
  <2> QED BY <2>1, Wrap
<1>3. d = IF va <= vs THEN vs - va ELSE vs + Modulo - va
  BY <1>1, MinusValue
<1> HIDE DEF e, d
<1>4. e \in SeqNo
  BY <1>1, <1>2, SMT DEF SeqNo
<1>5. Minus(e, va) = IF va <= e THEN e - va ELSE e + Modulo - va
  BY <1>1, <1>4, MinusValue
<1>6. (IF va <= e THEN e - va ELSE e + Modulo - va) = k_maxframe
  <2>1. CASE va + k_maxframe < Modulo
    BY <1>1, <1>2, <2>1, SMT
  <2>2. CASE ~(va + k_maxframe < Modulo)
    BY <1>1, <1>2, <2>2, SMT
  <2> QED BY <2>1, <2>2
<1>7. Minus(va + k_maxframe, vs) = k_maxframe - d
  <2> DEFINE a == va + k_maxframe + Modulo - vs
  <2>1. Minus(va + k_maxframe, vs) = a % Modulo
    BY DEF Minus, AX25MODULO
  <2>2. k_maxframe - d \in Nat /\ k_maxframe - d < Modulo
    BY <1>1, <1>3, SMT DEF d
  <2>3. a = Modulo + (k_maxframe - d) \/ a = 2 * Modulo + (k_maxframe - d)
    BY <1>1, <1>3, SMT
  <2>4. \A r \in Nat : r < Modulo => (Modulo + r) % Modulo = r /\ (2 * Modulo + r) % Modulo = r
    BY <1>1, SMT
  <2> HIDE DEF a
  <2> QED BY <2>1, <2>2, <2>3, <2>4
<1> QED BY <1>4, <1>5, <1>6, <1>7 DEF e, d

\* i_frame_pop_off_queue leaves nothing that it could have sent.
LEMMA WindowFilled ==
  ASSUME NEW S, NEW owed \in BOOLEAN, Good(S, owed), S.state \in Up, ~S.peer_receiver_busy
  PROVE  LET T == i_frame_pop_off_queue(S)
         IN  T.i_frame_queue = <<>> \/ ~WITHIN_WINDOW_SIZE(T)
<1> DEFINE room == Minus(S.va + k_maxframe, S.vs)
           q == S.i_frame_queue
           n == IF room < Len(q) THEN room ELSE Len(q)
           s == Minus(S.vs, S.va)
           end == AX25MODULO(S.va + k_maxframe)
           T == i_frame_pop_off_queue(S)
<1>1. /\ S.vs \in SeqNo /\ S.va \in SeqNo /\ q \in Seq(Msgs) /\ Len(q) \in Nat
      /\ DOMAIN S = Fields /\ s <= k_maxframe /\ s \in Nat
      /\ k_maxframe \in Nat
  <2>1. /\ S.vs \in SeqNo /\ S.va \in SeqNo /\ q \in Seq(Msgs) /\ DOMAIN S = Fields
        /\ s <= k_maxframe
    BY DEF Good, Typed, Windowed
  <2>2. s \in 0 .. Modulo - 1
    BY <2>1, Distance
  <2> HIDE DEF s
  <2> QED BY <2>1, <2>2, LinkAssumption, SMT
<1>2. end \in SeqNo /\ Minus(end, S.va) = k_maxframe /\ room = k_maxframe - s
  BY <1>1, WindowEnd
<1>3. \A x \in SeqNo : Minus(x, S.va) = k_maxframe => x = end
  BY <1>1, <1>2, SameDistance
<1>4. CASE n = 0
  <2>1. T = S
    BY <1>4 DEF i_frame_pop_off_queue
  <2>2. Len(q) = 0 \/ room = 0
    BY <1>4
  <2>3. CASE Len(q) = 0
    <3>1. q = <<>>
      BY <1>1, <2>3, SMT
    <3> QED BY <2>1, <3>1
  <2>4. CASE room = 0
    <3>1. s = k_maxframe
      <4> HIDE DEF room, s
      <4> QED BY <1>1, <1>2, <2>4, SMT
    <3> QED BY <1>1, <1>3, <2>1, <3>1 DEF WITHIN_WINDOW_SIZE
  <2> QED BY <2>2, <2>3, <2>4
<1>5. CASE n # 0
  <2>1. PICK out, kept :
          T = StartT1(StopT3([S EXCEPT !.out = out, !.txdata_by_ns = kept,
                                       !.i_frame_queue = SubSeq(q, n + 1, Len(q)),
                                       !.vs = AX25MODULO(S.vs + n),
                                       !.acknowledge_pending = FALSE]))
    <3> DEFINE out == S.out \o [i \in 1 .. n |-> IFrame(S, AX25MODULO(S.vs + i - 1), q[i])]
               kept == [x \in SeqNo |-> IF Minus(x, S.vs) < n THEN q[Minus(x, S.vs) + 1]
                                        ELSE S.txdata_by_ns[x]]
    <3>1. T = StartT1(StopT3([S EXCEPT !.out = out, !.txdata_by_ns = kept,
                                       !.i_frame_queue = SubSeq(q, n + 1, Len(q)),
                                       !.vs = AX25MODULO(S.vs + n),
                                       !.acknowledge_pending = FALSE]))
      BY <1>1, <1>5, Zenon DEF i_frame_pop_off_queue, Fields
    <3> QED BY <3>1
  <2> DEFINE rest == SubSeq(q, n + 1, Len(q))
             w == AX25MODULO(S.vs + n)
  <2> HIDE DEF T, n, room, s, end
  <2>2. T.i_frame_queue = rest /\ T.vs = w /\ T.va = S.va
    <3> HIDE DEF rest, w
    <3>1. T = StartT1(StopT3([S EXCEPT !.out = out, !.txdata_by_ns = kept,
                                       !.i_frame_queue = rest, !.vs = w,
                                       !.acknowledge_pending = FALSE]))
      BY <2>1 DEF rest, w
    <3> QED BY <1>1, <3>1, SMT DEF StartT1, StopT3, Fields
  <2>3. n = Len(q) \/ n = room
    BY DEF n
  <2>4. CASE n = Len(q)
    <3>1. rest = <<>>
      BY <1>1, <2>4, SMT
    <3> QED BY <2>2, <3>1 DEF T
  <2>5. CASE n = room
    <3>1. n \in Nat /\ s + n = k_maxframe
      BY <1>1, <1>2, <2>5, SMT
    <3>2. w \in SeqNo /\ Minus(w, S.va) = s + n
      <4>1. n <= Minus(S.va + k_maxframe, S.vs)
        BY <2>5, <3>1, SMT DEF room
      <4> QED BY <1>1, <3>1, <4>1, Room DEF s
    <3>3. w = end
      BY <1>3, <3>1, <3>2
    <3> QED BY <2>2, <3>3 DEF WITHIN_WINDOW_SIZE, end, T
  <2> QED BY <2>3, <2>4, <2>5
<1> QED BY <1>4, <1>5

\* Whoever has data to send, and may, has just asked for the channel.
LEMMA AskedForChannel ==
  ASSUME NEW S, NEW L, L = SeizeForQueue(S), Typed(S), ~L.peer_receiver_busy
  PROVE  Awaited(L, L.seize)
<1> DEFINE wanting == /\ S.i_frame_queue # <<>> /\ S.state \in Up /\ ~S.peer_receiver_busy
                      /\ WITHIN_WINDOW_SIZE(S)
<1>1. CASE wanting
  <2>1. L = lm_seize_request(S)
    BY <1>1 DEF SeizeForQueue
  <2>2. L.seize = S.seize + 1 /\ S.seize \in Nat
    BY <2>1, SMT DEF lm_seize_request, Typed, Fields
  <2>3. L.seize > 0
    BY <2>2, SMT
  <2> QED BY <2>3 DEF Awaited
<1>2. CASE ~wanting
  <2>1. L = S
    BY <1>2 DEF SeizeForQueue
  <2> QED BY <1>2, <2>1 DEF Awaited
<1> QED BY <1>1, <1>2

\* What a step of ours leaves to be awaited.
LEMMA StillMoving ==
  ASSUME IInv, NEW L, Good(L, TRUE), Armed(L), NEW taken \in {0, 1}, taken <= seizes,
         NodeStep(L, taken),
         Awaited(L, L.seize) \/ (taken = 0 /\ Awaited(L, seizes))
  PROVE  MovingInv'
<1>1. link' = Fresh(L) /\ seizes' = Min({seizes - taken + L.seize, MaxSeize})
  BY DEF NodeStep
<1>2. /\ seizes \in Nat /\ L.seize \in Nat /\ MaxSeize \in Nat /\ MaxSeize > 0
      /\ DOMAIN L = Fields /\ seizes - taken \in Nat
  <2>1. seizes \in 0 .. MaxSeize
    BY DEF IInv, PeerInv
  <2> QED BY <2>1, DeliveryAssumption, SMT DEF Good, Typed
<1>3. seizes' = IF (seizes - taken) + L.seize <= MaxSeize THEN (seizes - taken) + L.seize
                ELSE MaxSeize
  <2>1. (seizes - taken) + L.seize \in Nat
    BY <1>2, SMT
  <2> QED BY <1>1, <1>2, <2>1, MinOfTwo
<1>4. L.seize > 0 \/ (taken = 0 /\ seizes > 0) => seizes' > 0
  BY <1>2, <1>3, SMT
<1>5. Armed(link')
  <2>1. SameTimers(Fresh(L), L)
    BY <1>2, Untouched
  <2> QED BY <1>1, <2>1, SameArmed
<1>6. /\ link'.state = L.state /\ link'.i_frame_queue = L.i_frame_queue
      /\ link'.vs = L.vs /\ link'.va = L.va
  BY <1>1, <1>2, SMT DEF Fresh, Fields
<1>7. Awaited(link', seizes')
  BY <1>4, <1>6 DEF Awaited, WITHIN_WINDOW_SIZE
<1>8. Armed(link)' /\ Awaited(link, seizes)'
  BY <1>5, <1>7
<1> QED BY <1>8 DEF MovingInv

LEMMA ReceiveMoves ==
  ASSUME IInv, MovingInv, NodeReceive, IInv'
  PROVE  MovingInv'
<1> DEFINE f == Head(toNode)
           L == lm_data_indication(link, f)
<1>1. /\ NodeStep(L, 0) /\ DOMAIN L = Fields
      /\ Receivable(f) /\ f.type \in {"I", "RR", "REJ", "SABM"}
  BY FrameTaken
<1>2. Idle(link) /\ Good(link, TRUE) /\ Armed(link) /\ 0 <= seizes /\ (Owes(link) => TRUE)
  BY LinkNow DEF MovingInv
<1>3. link' = Fresh(L)
  BY <1>1 DEF NodeStep
<1> HIDE DEF f
<1> DEFINE g == ax25_frame_type(f)
           X == Dispatch(link, g)
<1>4. L = SeizeForQueue(X) /\ Receivable(g)
  BY <1>1, <1>2, IndicationOf
<1>5. Good(L, TRUE) /\ Armed(L)
  BY <1>1, <1>2, DataIndication, IndicationArmed
<1>6. Typed(X)
  <2>1. Good(X, TRUE)
    BY <1>2, <1>4, Dispatched DEF Receivable
  <2> HIDE DEF X
  <2> QED BY <2>1 DEF Good
<1> HIDE DEF L, X, g
<1>7. ~L.peer_receiver_busy
  <2>1. ~link'.peer_receiver_busy
    BY DEF IInv, LinkInv, Idle
  <2>2. Fresh(L).peer_receiver_busy = L.peer_receiver_busy
    BY <1>1, SMT DEF Fresh, Fields
  <2> QED BY <1>3, <2>1, <2>2
<1>8. Awaited(L, L.seize)
  BY <1>4, <1>6, <1>7, AskedForChannel
<1> QED BY <1>1, <1>2, <1>5, <1>8, StillMoving

LEMMA SeizedMoves ==
  ASSUME IInv, MovingInv, NodeSeizeConfirm \/ NodeTransmits
  PROVE  MovingInv'
<1> DEFINE L == lm_seize_confirm(link)
           P == i_frame_pop_off_queue(link)
           E == enquiry_response(P, FALSE)
<1>1. /\ Idle(link) /\ Good(link, TRUE) /\ Armed(link) /\ 0 <= seizes /\ (Owes(link) => TRUE)
      /\ ~link.peer_receiver_busy /\ Fresh(link) = link
  BY LinkNow, IdleFresh DEF MovingInv, Idle
<1>2. PICK taken \in {0, 1} : taken <= seizes /\ NodeStep(L, taken)
  <2>1. CASE NodeSeizeConfirm
    <3>1. seizes > 0 /\ seizes \in Int /\ NodeStep(L, 1)
      BY <2>1, DeliveryAssumption, SMT DEF NodeSeizeConfirm, IInv, PeerInv
    <3>2. 1 <= seizes
      BY <3>1, SMT
    <3> QED BY <3>1, <3>2
  <2>2. CASE NodeTransmits
    BY <1>1, <2>2 DEF NodeTransmits
  <2> QED BY <2>1, <2>2
<1>3. Good(L, TRUE) /\ Armed(L)
  BY <1>1, SeizeConfirmed, ConfirmArmed
<1>4. L = IF link.state \notin Up THEN link ELSE IF P.acknowledge_pending THEN E ELSE P
  BY <1>1 DEF lm_seize_confirm
<1>5. Awaited(L, L.seize)
  <2>1. CASE link.state \notin Up
    BY <1>4, <2>1 DEF Awaited
  <2>2. CASE link.state \in Up
    <3>1. P.i_frame_queue = <<>> \/ ~WITHIN_WINDOW_SIZE(P)
      BY <1>1, <2>2, WindowFilled
    <3>2. DOMAIN P = Fields
      <4>1. Good(P, TRUE)
        BY <1>1, Pop
      <4> HIDE DEF P
      <4> QED BY <4>1 DEF Good, Typed
    <3> HIDE DEF P, L
    <3>3. E.i_frame_queue = P.i_frame_queue /\ E.vs = P.vs /\ E.va = P.va
      BY <3>2, SMT DEF enquiry_response, lm_data_request, Fields
    <3> HIDE DEF E
    <3> QED BY <1>4, <2>2, <3>1, <3>3 DEF Awaited, WITHIN_WINDOW_SIZE
  <2> QED BY <2>1, <2>2
<1> HIDE DEF L
<1> QED BY <1>2, <1>3, <1>5, StillMoving

LEMMA TimersMove ==
  ASSUME IInv, MovingInv, NodeTimer
  PROVE  MovingInv'
<1>1. /\ Idle(link) /\ Good(link, TRUE) /\ Armed(link) /\ 0 <= seizes /\ (Owes(link) => TRUE)
      /\ Awaited(link, seizes)
  BY LinkNow DEF MovingInv
<1>2. PICK L \in {ExpireT1(link), ExpireT3(link)} : NodeStep(L, 0)
  BY DEF NodeTimer
<1>3. Good(L, TRUE) /\ Armed(L)
  BY <1>1, TimersExpire, ExpiryArmed
<1>4. Steady(link, L) \/ GivesUp(link, L)
  BY <1>1, TimerRunsOut
<1>5. Awaited(L, seizes)
  <2>1. CASE Steady(link, L)
    <3>1. link.state \in {"disconnected"} \cup Up
      BY <1>1 DEF Idle
    <3>2. L.state \in Up => link.state \in Up
      BY <2>1, <3>1, UpOrNot DEF Steady, GoesOn
    <3> QED BY <1>1, <2>1, <3>2 DEF Awaited, WITHIN_WINDOW_SIZE, Steady, GoesOn
  <2>2. CASE GivesUp(link, L)
    BY <2>2 DEF Awaited, GivesUp
  <2> QED BY <1>4, <2>1, <2>2
<1> QED BY <1>1, <1>2, <1>3, <1>5, StillMoving

LEMMA GivingMoves ==
  ASSUME IInv, MovingInv, ClientData
  PROVE  MovingInv'
<1> DEFINE Q == [link EXCEPT !.i_frame_queue = Append(@, given)]
           L == SeizeForQueue(Q)
<1>1. /\ Idle(link) /\ Good(link, TRUE) /\ Armed(link) /\ 0 <= seizes
      /\ ~link.peer_receiver_busy /\ Fresh(link) = link /\ Typed(link)
  BY LinkNow, IdleFresh DEF MovingInv, Idle
<1>2. NodeStep(L, 0) /\ given < load[2]
  BY DEF ClientData
<1>3. given \in Msgs
  <2>1. load \in (0 .. Total) \X (0 .. Total) /\ given \in 0 .. load[2]
    BY DEF IInv, PeerInv
  <2>2. load[2] \in 0 .. Total
    BY <2>1, SMT
  <2> QED BY <1>2, <2>1, <2>2, DeliveryAssumption, SMT
<1>4. Good(L, TRUE) /\ L.peer_receiver_busy = link.peer_receiver_busy
  <2>1. /\ Good(SeizeForQueue([link EXCEPT !.i_frame_queue = Append(@, given)]), TRUE)
        /\ SeizeForQueue([link EXCEPT !.i_frame_queue = Append(@, given)]).peer_receiver_busy
             = link.peer_receiver_busy
    BY <1>1, <1>3, Appended
  <2> QED BY <2>1
<1>5. Armed(L)
  <2>1. Armed(SeizeForQueue([Fresh(link) EXCEPT !.i_frame_queue = Append(@, given)]))
    BY <1>1, <1>3, DataArmed
  <2> QED BY <1>1, <2>1
<1>6. Typed(Q)
  <2>1. Append(link.i_frame_queue, given) \in Seq(Msgs)
    BY <1>1, <1>3, SMT DEF Typed
  <2> QED BY <1>1, <2>1, SMT DEF Typed, Fields
<1> HIDE DEF Q
<1>7. Awaited(L, L.seize)
  BY <1>1, <1>4, <1>6, AskedForChannel
<1> HIDE DEF L
<1> QED BY <1>1, <1>2, <1>4, <1>5, <1>7, StillMoving

LEMMA InitMoving == Init => MovingInv
<1> SUFFICES ASSUME Init PROVE MovingInv
  OBVIOUS
<1> DEFINE f == UFrame("SABM", "cmd", TRUE)
           L == lm_data_indication(NewLink, f)
<1>1. Good(L, TRUE) /\ L.i_frame_queue = <<>>
  BY LinkAtFirst
<1>2. link = Fresh(L)
  BY DEF Init
<1>3. Receivable(f) /\ f.type # "SREJ"
  <2>1. 0 \in SeqNo
    BY LinkAssumption, SMT DEF SeqNo
  <2> QED BY <2>1, SMT DEF UFrame, Frame, Receivable, FrameTypes
<1>4. Good(NewLink, TRUE) /\ Armed(NewLink)
  <2>1. 0 \in SeqNo /\ 0 \in 0 .. n2_retry /\ Minus(0, 1) \in SeqNo
    <3>1. 0 \in SeqNo /\ 0 \in 0 .. n2_retry /\ 1 \in 0 .. Modulo
      BY LinkAssumption, SMT DEF SeqNo
    <3> QED BY <3>1, MinusType
  <2>2. Good(NewLink, TRUE)
    BY <2>1, SMT DEF NewLink, Good, Typed, Windowed, Owes, Fields, Slots, States, Up
  <2>3. Armed(NewLink)
    BY SMT DEF NewLink, Armed
  <2> QED BY <2>2, <2>3
<1>5. Armed(L)
  BY <1>3, <1>4, IndicationArmed
<1> HIDE DEF L, f
<1>6. DOMAIN L = Fields
  BY <1>1 DEF Good, Typed
<1>7. Armed(link)
  <2>1. SameTimers(Fresh(L), L)
    BY <1>6, Untouched
  <2> QED BY <1>2, <1>5, <2>1, SameArmed
<1>8. link.i_frame_queue = <<>>
  BY <1>1, <1>2, <1>6, SMT DEF Fresh, Fields
<1> QED BY <1>7, <1>8 DEF MovingInv, Awaited

LEMMA NextMoving == IInv /\ IInv' /\ MovingInv /\ [Next]_vars => MovingInv'
<1> SUFFICES ASSUME IInv, IInv', MovingInv, [Next]_vars PROVE MovingInv'
  OBVIOUS
<1>1. CASE UNCHANGED <<link, seizes>>
  BY <1>1 DEF MovingInv
<1>2. \/ NodeReceive \/ NodeSeizeConfirm \/ NodeTransmits \/ NodeTimer \/ ClientData
      \/ UNCHANGED <<link, seizes>>
  BY DEF Next, vars, nodeVars, PeerSend, PeerResend, PeerReceive, PeerRestart,
         PeerConnectAgain, LoseToNode, LoseToPeer, PeerIdle
<1> QED BY <1>1, <1>2, ReceiveMoves, SeizedMoves, TimersMove, GivingMoves

LEMMA MovingInductive == Spec => []MovingInv
<1>1. Init => MovingInv
  BY InitMoving
<1>2. IInv /\ IInv' /\ MovingInv /\ [Next]_vars => MovingInv'
  BY NextMoving
<1> QED BY <1>1, <1>2, Inductive, PTL DEF Spec

\* What our client has handed over is never stranded: until the peer has it a
\* frame is on the air, T1 runs or a null packet waits for the channel.  Each
\* handler leaves it so, whichever frame is lost, for any window of the peer.
THEOREM NeverStranded == Spec => []NothingStranded
<1>1. IInv /\ MovingInv => NothingStranded
  <2> SUFFICES ASSUME IInv, MovingInv, Unreceived # <<>>, link.state # "disconnected"
               PROVE  seizes > 0 \/ link.t1 = "running"
    BY DEF NothingStranded
  <2>1. /\ link.state \in Up /\ Good(link, TRUE) /\ ~link.radio_channel_busy
        /\ link.vs \in SeqNo /\ link.va \in SeqNo
        /\ link.i_frame_queue \in Seq(Msgs) /\ peer.expect \in SeqNo
    <3>1. LinkInv /\ PeerInv
      BY DEF IInv
    <3>2. peer.expect \in SeqNo
      BY <3>1, SMT DEF PeerInv, Peer
    <3> QED BY <3>1, <3>2 DEF LinkInv, Idle, Good, Typed
  <2>2. link.vs # link.va => link.t1 = "running"
    BY <2>1 DEF MovingInv, Armed, Good, Typed, Up
  <2>3. CASE link.i_frame_queue # <<>>
    <3>1. WITHIN_WINDOW_SIZE(link) => seizes > 0
      BY <2>1, <2>3 DEF MovingInv, Awaited
    <3>2. link.vs = link.va => WITHIN_WINDOW_SIZE(link)
      <4> SUFFICES ASSUME link.vs = link.va, ~WITHIN_WINDOW_SIZE(link) PROVE FALSE
        OBVIOUS
      <4>1. D(link.va) = 0 /\ D(link.vs) = 0
        BY <2>1, Distances DEF IInv
      <4>2. Minus(AX25MODULO(link.va + k_maxframe), link.va) = k_maxframe
        <5>1. Minus(link.vs, link.va) <= k_maxframe
          BY <2>1 DEF Good, Windowed
        <5> QED BY <2>1, <5>1, WindowEnd
      <4>3. D(link.vs) = k_maxframe
        BY <4>2 DEF WITHIN_WINDOW_SIZE, D
      <4> QED BY <4>1, <4>3, LinkAssumption, SMT
    <3> QED BY <2>2, <3>1, <3>2
  <2>4. CASE link.i_frame_queue = <<>>
    <3> SUFFICES ASSUME link.vs = link.va PROVE FALSE
      BY <2>2
    <3>1. cut = NULL
      BY <2>4 DEF Unreceived
    <3>2. D(peer.expect) <= D(link.vs) /\ D(link.vs) = 0 /\ D(peer.expect) \in 0 .. Modulo - 1
      BY <2>1, <3>1, Distances DEF IInv, DataInv
    <3>3. D(peer.expect) = 0
      BY <3>2, LinkAssumption, SMT
    <3>4. peer.expect = link.va
      <4>1. D(link.va) = 0
        BY <3>2
      <4> QED BY <2>1, <3>3, <4>1, SameDistance DEF D
    <3>5. Minus(link.vs, peer.expect) = 0
      BY <3>2, <3>4 DEF D
    <3> DEFINE held == [i \in 1 .. Minus(link.vs, peer.expect) |->
                          link.txdata_by_ns[AX25MODULO(peer.expect + i - 1)]]
    <3>6. held = <<>>
      <4>1. held = [i \in 1 .. 0 |-> link.txdata_by_ns[AX25MODULO(peer.expect + i - 1)]]
        BY <3>5
      <4> HIDE DEF held
      <4> QED BY <4>1, SMT
    <3>7. Unreceived = held \o <<>>
      BY <2>4, <3>1 DEF Unreceived
    <3> HIDE DEF held
    <3>8. Unreceived = <<>>
      BY <3>6, <3>7, SMT
    <3> QED BY <3>8
  <2> QED BY <2>3, <2>4
<1> QED BY <1>1, Inductive, MovingInductive, PTL

-----------------------------------------------------------------------------
(* What the steps are to LinkService.                                        *)

\* A record with an entry for each end is a function on the ends.
LEMMA Pair ==
  ASSUME NEW a, NEW b
  PROVE  LET p == [peer |-> a, node |-> b]
         IN  /\ DOMAIN p = {"peer", "node"} /\ p["peer"] = a /\ p["node"] = b
             /\ p = [e \in {"peer", "node"} |-> p[e]]
             /\ \A c : [p EXCEPT !["peer"] = c] = [peer |-> c, node |-> b]
             /\ \A c : [p EXCEPT !["node"] = c] = [peer |-> a, node |-> c]
BY SMT

\* What the peer's client has handed over and ours has not got.
Peers == Ascending(Undelivered)

\* The state of LinkService.
Handed == [peer |-> peer.next, node |-> given]
Underway == [peer |-> Peers, node |-> Unreceived]
Out == [peer |-> delivered, node |-> received]

LEMMA Mapped ==
  /\ Handed["peer"] = peer.next /\ Handed["node"] = given
  /\ Underway["peer"] = Peers /\ Underway["node"] = Unreceived
  /\ Out["peer"] = delivered /\ Out["node"] = received
  /\ \A c : [Handed EXCEPT !["peer"] = c] = [peer |-> c, node |-> given]
  /\ \A c : [Handed EXCEPT !["node"] = c] = [peer |-> peer.next, node |-> c]
  /\ \A c : [Underway EXCEPT !["peer"] = c] = [peer |-> c, node |-> Unreceived]
  /\ \A c : [Underway EXCEPT !["node"] = c] = [peer |-> Peers, node |-> c]
  /\ \A c : [Out EXCEPT !["peer"] = c] = [peer |-> c, node |-> received]
  /\ \A c : [Out EXCEPT !["node"] = c] = [peer |-> delivered, node |-> c]
  /\ Handed' = [peer |-> peer'.next, node |-> given']
  /\ Underway' = [peer |-> Peers', node |-> Unreceived']
  /\ Out' = [peer |-> delivered', node |-> received']
<1>1. /\ Handed["peer"] = peer.next /\ Handed["node"] = given
      /\ \A c : [Handed EXCEPT !["peer"] = c] = [peer |-> c, node |-> given]
      /\ \A c : [Handed EXCEPT !["node"] = c] = [peer |-> peer.next, node |-> c]
  BY Pair DEF Handed
<1>2. /\ Underway["peer"] = Peers /\ Underway["node"] = Unreceived
      /\ \A c : [Underway EXCEPT !["peer"] = c] = [peer |-> c, node |-> Unreceived]
      /\ \A c : [Underway EXCEPT !["node"] = c] = [peer |-> Peers, node |-> c]
  BY Pair DEF Underway
<1>3. /\ Out["peer"] = delivered /\ Out["node"] = received
      /\ \A c : [Out EXCEPT !["peer"] = c] = [peer |-> c, node |-> received]
      /\ \A c : [Out EXCEPT !["node"] = c] = [peer |-> delivered, node |-> c]
  BY Pair DEF Out
<1>4. /\ Handed' = [peer |-> peer'.next, node |-> given']
      /\ Underway' = [peer |-> Peers', node |-> Unreceived']
      /\ Out' = [peer |-> delivered', node |-> received']
  BY DEF Handed, Underway, Out
<1> QED BY <1>1, <1>2, <1>3, <1>4

LEMMA ServesGive ==
  ASSUME UNCHANGED <<delivered, received>>,
         \/ /\ UNCHANGED <<peer.next, Peers>>
            /\ given' = given + 1 /\ Unreceived' = Append(Unreceived, given)
         \/ /\ UNCHANGED <<given, Unreceived>>
            /\ peer'.next = peer.next + 1 /\ Peers' = Append(Peers, peer.next)
  PROVE  Service!Next
<1>1. UNCHANGED Out
  BY Mapped DEF Out
<1>2. CASE /\ UNCHANGED <<peer.next, Peers>>
           /\ given' = given + 1 /\ Unreceived' = Append(Unreceived, given)
  <2>1. /\ Handed' = [Handed EXCEPT !["node"] = Handed["node"] + 1]
        /\ Underway' = [Underway EXCEPT !["node"] = Append(Underway["node"], Handed["node"])]
    BY <1>2, Mapped
  <2>2. Service!Give("node")
    BY <1>1, <2>1, Zenon DEF Service!Give, Peers, Handed, Underway, Out
  <2> QED BY <2>2 DEF Service!Next
<1>3. CASE /\ UNCHANGED <<given, Unreceived>>
           /\ peer'.next = peer.next + 1 /\ Peers' = Append(Peers, peer.next)
  <2>1. /\ Handed' = [Handed EXCEPT !["peer"] = Handed["peer"] + 1]
        /\ Underway' = [Underway EXCEPT !["peer"] = Append(Underway["peer"], Handed["peer"])]
    BY <1>3, Mapped
  <2>2. Service!Give("peer")
    BY <1>1, <2>1, Zenon DEF Service!Give, Peers, Handed, Underway, Out
  <2> QED BY <2>2 DEF Service!Next
<1> QED BY <1>2, <1>3

\* Parts of a row of messages.
LEMMA RunParts ==
  ASSUME NEW b \in Nat, NEW n \in Nat, NEW k \in 0 .. n
  PROVE  /\ Run(b, n) \in Seq(Nat) /\ Len(Run(b, n)) = n
         /\ SubSeq(Run(b, n), 1, k) = Run(b, k)
         /\ SubSeq(Run(b, n), k + 1, n) = Run(b + k, n - k)
         /\ Run(b, 0) = <<>>
<1>1. Run(b, n) \in Seq(Nat) /\ Len(Run(b, n)) = n
  BY SMT DEF Run
<1>2. SubSeq(Run(b, n), 1, k) = Run(b, k)
  BY SMT DEF Run
<1>3. SubSeq(Run(b, n), k + 1, n) = Run(b + k, n - k)
  BY SMT DEF Run
<1>4. Run(b, 0) = <<>>
  BY SMT DEF Run
<1> QED BY <1>1, <1>2, <1>3, <1>4

\* One message comes out.
LEMMA ServesDeliver ==
  ASSUME UNCHANGED <<peer.next, given>>, delivered \in Seq(Nat), received \in Seq(Nat),
         NEW b \in Nat, NEW n \in Nat \ {0},
         \/ /\ UNCHANGED <<delivered, Peers>> /\ received' = Append(received, b)
            /\ Unreceived = Run(b, n) /\ Unreceived' = Run(b + 1, n - 1)
         \/ /\ UNCHANGED <<received, Unreceived>> /\ delivered' = Append(delivered, b)
            /\ Peers = Run(b, n) /\ Peers' = Run(b + 1, n - 1)
  PROVE  Service!Next
<1> DEFINE r == Run(b, n)
<1>1. /\ UNCHANGED Handed
  BY Mapped DEF Handed
<1>2. Len(r) = n /\ SubSeq(r, 1, 1) = Run(b, 1) /\ SubSeq(r, 1 + 1, n) = Run(b + 1, n - 1)
  <2>1. 1 \in 0 .. n
    BY SMT
  <2> QED BY <2>1, RunParts
<1>3. Run(b, 1) = <<b>>
  BY RunGrows
<1>4. /\ 1 \in 1 .. Len(r)
      /\ Append(delivered, b) = delivered \o SubSeq(r, 1, 1)
      /\ Append(received, b) = received \o SubSeq(r, 1, 1)
      /\ Run(b + 1, n - 1) = SubSeq(r, 1 + 1, Len(r))
  <2> HIDE DEF r
  <2>1. 1 \in 1 .. Len(r)
    BY <1>2, SMT
  <2>2. /\ Append(delivered, b) = delivered \o <<b>>
        /\ Append(received, b) = received \o <<b>>
    BY SMT
  <2> QED BY <1>2, <1>3, <2>1, <2>2
<1> HIDE DEF r
<1>5. CASE /\ UNCHANGED <<delivered, Peers>> /\ received' = Append(received, b)
           /\ Unreceived = r /\ Unreceived' = Run(b + 1, n - 1)
  <2>1. Underway["node"] = r /\ 1 \in 1 .. Len(Underway["node"])
    BY <1>4, <1>5, Mapped
  <2>2. /\ Out' = [Out EXCEPT !["node"] = Out["node"] \o SubSeq(Underway["node"], 1, 1)]
        /\ Underway' = [Underway EXCEPT !["node"] =
                          SubSeq(Underway["node"], 1 + 1, Len(Underway["node"]))]
    <3>1. Out' = [Out EXCEPT !["node"] = Out["node"] \o SubSeq(r, 1, 1)]
      BY <1>4, <1>5, Mapped
    <3>2. Underway' = [Underway EXCEPT !["node"] = SubSeq(r, 1 + 1, Len(r))]
      BY <1>4, <1>5, Mapped
    <3> QED BY <2>1, <3>1, <3>2
  <2>3. Service!Deliver("node")
    BY <1>1, <2>1, <2>2, Zenon DEF Service!Deliver, Peers, Handed, Underway, Out
  <2> QED BY <2>3 DEF Service!Next
<1>6. CASE /\ UNCHANGED <<received, Unreceived>> /\ delivered' = Append(delivered, b)
           /\ Peers = r /\ Peers' = Run(b + 1, n - 1)
  <2>1. Underway["peer"] = r /\ 1 \in 1 .. Len(Underway["peer"])
    BY <1>4, <1>6, Mapped
  <2>2. /\ Out' = [Out EXCEPT !["peer"] = Out["peer"] \o SubSeq(Underway["peer"], 1, 1)]
        /\ Underway' = [Underway EXCEPT !["peer"] =
                          SubSeq(Underway["peer"], 1 + 1, Len(Underway["peer"]))]
    <3>1. Out' = [Out EXCEPT !["peer"] = Out["peer"] \o SubSeq(r, 1, 1)]
      BY <1>4, <1>6, Mapped
    <3>2. Underway' = [Underway EXCEPT !["peer"] = SubSeq(r, 1 + 1, Len(r))]
      BY <1>4, <1>6, Mapped
    <3> QED BY <2>1, <3>1, <3>2
  <2>3. Service!Deliver("peer")
    BY <1>1, <2>1, <2>2, Zenon DEF Service!Deliver, Peers, Handed, Underway, Out
  <2> QED BY <2>3 DEF Service!Next
<1> QED BY <1>5, <1>6 DEF r

\* The newest messages of our client are dropped.
LEMMA ServesGiveUp ==
  ASSUME UNCHANGED <<peer.next, given, delivered, received, Peers>>,
         NEW b \in Nat, NEW n \in Nat, NEW k \in 0 .. n,
         Unreceived = Run(b, n), Unreceived' = Run(b, k)
  PROVE  Service!Next
<1>1. UNCHANGED Handed /\ UNCHANGED Out
  BY Mapped DEF Handed, Out
<1>2. Len(Run(b, n)) = n /\ SubSeq(Run(b, n), 1, k) = Run(b, k)
  BY RunParts
<1>3. /\ Underway' = [Underway EXCEPT !["node"] = SubSeq(Underway["node"], 1, k)]
      /\ k \in 0 .. Len(Underway["node"])
  BY <1>2, Mapped
<1>4. Service!GiveUp("node")
  BY <1>1, <1>3, Zenon DEF Service!GiveUp, Peers, Handed, Underway, Out
<1> QED BY <1>4 DEF Service!Next

\* The oldest messages are dropped, of both clients.
LEMMA ServesReconnect ==
  ASSUME UNCHANGED <<given, delivered, received>>, given \in Nat,
         peer.next \in Nat, peer'.next \in Nat, peer'.next >= peer.next,
         NEW b \in Nat, NEW n \in Nat, NEW k \in 0 .. n,
         Unreceived = Run(b, n), Unreceived' = Run(b + k, n - k),
         NEW c \in Nat, NEW m \in Nat, NEW h \in 0 .. m,
         Peers = Run(c, m), Peers' = Run(c + h, m - h)
  PROVE  Service!Next
<1>1. UNCHANGED Out
  BY Mapped DEF Out
<1>2. /\ Len(Run(b, n)) = n /\ SubSeq(Run(b, n), k + 1, n) = Run(b + k, n - k)
      /\ Len(Run(c, m)) = m /\ SubSeq(Run(c, m), h + 1, m) = Run(c + h, m - h)
  BY RunParts
<1>3. /\ DOMAIN Handed' = {"peer", "node"} /\ DOMAIN Underway' = {"peer", "node"}
      /\ Handed'["peer"] = peer'.next /\ Handed'["node"] = given'
      /\ Underway'["peer"] = Peers' /\ Underway'["node"] = Unreceived'
  BY Mapped, Pair
<1>4. Handed'["peer"] >= Handed["peer"] /\ Handed'["node"] >= Handed["node"]
  BY <1>3, Mapped
<1>5. ASSUME NEW e \in {"peer", "node"}
      PROVE  \E i \in 0 .. Len(Underway[e]) :
               Underway'[e] = SubSeq(Underway[e], i + 1, Len(Underway[e]))
  <2>1. /\ Underway["peer"] = Run(c, m) /\ Underway["node"] = Run(b, n)
        /\ Underway'["peer"] = Run(c + h, m - h) /\ Underway'["node"] = Run(b + k, n - k)
    BY <1>3, Mapped
  <2> HIDE DEF Underway
  <2>2. CASE e = "peer"
    BY <1>2, <2>1, <2>2, Zenon
  <2>3. CASE e = "node"
    BY <1>2, <2>1, <2>3, Zenon
  <2> QED BY <2>2, <2>3
<1>6. \A e \in {"peer", "node"} : Handed'[e] >= Handed[e]
  BY <1>4
<1>7. Service!Reconnect
  BY <1>1, <1>3, <1>5, <1>6, Zenon DEF Service!Reconnect, Peers, Handed, Underway, Out
<1> QED BY <1>7 DEF Service!Next

LEMMA ServesNothing ==
  ASSUME UNCHANGED <<peer.next, given, delivered, received, Peers, Unreceived>>
  PROVE  UNCHANGED Service!vars
<1>1. UNCHANGED Handed /\ UNCHANGED Underway /\ UNCHANGED Out
  BY Mapped DEF Handed, Underway, Out
<1> QED BY <1>1, Zenon DEF Service!vars, Peers, Handed, Underway, Out

-----------------------------------------------------------------------------
(* What our client has handed over and the peer has not got is a row of      *)
(* messages.                                                                 *)

\* The frames that are kept from x on, as SentInv numbers them from V(A), and the
\* queue: S is the link, of which w is the message at V(A), and g what is given.
LEMMA Sequel ==
  ASSUME NEW S, NEW x \in SeqNo, NEW w \in Nat, NEW g \in Nat,
         S.vs \in SeqNo, S.va \in SeqNo, S.i_frame_queue \in Seq(Msgs),
         Minus(x, S.va) <= Minus(S.vs, S.va),
         \/ S.i_frame_queue = <<>>
         \/ w + Minus(S.vs, S.va) = g - Len(S.i_frame_queue),
         \A i \in DOMAIN S.i_frame_queue :
            S.i_frame_queue[i] = g - Len(S.i_frame_queue) + i - 1,
         \A y \in SeqNo : Minus(y, S.va) < Minus(S.vs, S.va) =>
                             S.txdata_by_ns[y] = w + Minus(y, S.va)
  PROVE  /\ Minus(S.vs, x) = Minus(S.vs, S.va) - Minus(x, S.va)
         /\ Minus(S.vs, x) \in Nat /\ Minus(x, S.va) \in Nat /\ Len(S.i_frame_queue) \in Nat
         /\ [i \in 1 .. Minus(S.vs, x) |-> S.txdata_by_ns[AX25MODULO(x + i - 1)]]
              \o S.i_frame_queue
              = Run(w + Minus(x, S.va), Minus(S.vs, x) + Len(S.i_frame_queue))
         /\ S.i_frame_queue # <<>> =>
              S.i_frame_queue = Run(g - Len(S.i_frame_queue), Len(S.i_frame_queue))
<1> DEFINE q == S.i_frame_queue
           s == Minus(S.vs, x)
           dx == Minus(x, S.va)
           dv == Minus(S.vs, S.va)
           held == [i \in 1 .. s |-> S.txdata_by_ns[AX25MODULO(x + i - 1)]]
<1>1. /\ dx \in 0 .. Modulo - 1 /\ dv \in 0 .. Modulo - 1 /\ s \in 0 .. Modulo - 1
      /\ Modulo \in Nat /\ Len(q) \in Nat /\ q \in Seq(Msgs) /\ DOMAIN q = 1 .. Len(q)
      /\ dx <= dv
  <2>1. Len(q) \in Nat /\ DOMAIN q = 1 .. Len(q)
    BY SMT
  <2> QED BY <2>1, Distance, LinkAssumption
<1>2. s = IF dx <= dv THEN dv - dx ELSE dv + Modulo - dx
  BY Ahead
<1>3. s = dv - dx
  BY <1>1, <1>2
<1>4. ASSUME NEW i \in 1 .. s
      PROVE  S.txdata_by_ns[AX25MODULO(x + i - 1)] = (w + dx) + i - 1
  <2> DEFINE y == AX25MODULO(x + (i - 1))
             dy == Minus(y, S.va)
  <2>1. i - 1 \in 0 .. Modulo - 1 /\ i \in Nat
    <3> HIDE DEF s
    <3> QED BY <1>1, SMT
  <2>2. y \in SeqNo /\ Minus(y, x) = i - 1
    BY <2>1, Onward
  <2>3. Minus(y, x) = IF dx <= dy THEN dy - dx ELSE dy + Modulo - dx
    BY <2>2, Ahead
  <2>4. dy \in 0 .. Modulo - 1
    BY <2>2, Distance
  <2>5. x + i - 1 = x + (i - 1)
    BY <2>1, SMT DEF SeqNo
  <2>6. S.txdata_by_ns[AX25MODULO(x + i - 1)] = S.txdata_by_ns[y]
    BY <2>5
  <2>7. dy = dx + (i - 1) /\ dy < dv
    <3> HIDE DEF y, dy, dx, dv, s
    <3>1. i <= s
      BY <1>1, SMT
    <3> QED BY <1>1, <1>3, <2>1, <2>2, <2>3, <2>4, <3>1, SMT
  <2>8. S.txdata_by_ns[y] = w + dy
    BY <2>2, <2>7
  <2> HIDE DEF y, dy, dx, dv, s
  <2>9. w + dy = (w + dx) + i - 1
    BY <1>1, <2>1, <2>7, SMT
  <2> QED BY <2>6, <2>8, <2>9
<1>5. held = Run(w + dx, s)
  <2> HIDE DEF s, dx
  <2> QED BY <1>4, Zenon DEF Run
<1>6. ASSUME q # <<>> PROVE q = Run(g - Len(q), Len(q)) /\ g - Len(q) = (w + dx) + s
  <2>1. \A i \in 1 .. Len(q) : q[i] = g - Len(q) + i - 1
    BY <1>1
  <2>2. q = [i \in 1 .. Len(q) |-> q[i]]
    <3> HIDE DEF q
    <3> QED BY <1>1, SMT
  <2>3. w + dv = g - Len(q)
    BY <1>6
  <2> HIDE DEF q, s, dx, dv
  <2>4. q = Run(g - Len(q), Len(q))
    BY <2>1, <2>2, Zenon DEF Run
  <2> QED BY <1>1, <1>3, <2>3, <2>4, SMT
<1>7. held \o q = Run(w + dx, s + Len(q))
  <2> HIDE DEF held, q, s, dx, dv
  <2>1. w + dx \in Nat /\ s \in Nat /\ Len(q) \in Nat
    BY <1>1, SMT
  <2> DEFINE b == w + dx
  <2>2. held = Run(b, s)
    BY <1>5
  <2> HIDE DEF b
  <2>3. CASE q = <<>>
    <3>1. Len(q) = 0 /\ Run(b, s) \o <<>> = Run(b, s) /\ s + 0 = s
      BY <2>1, <2>3, SMT DEF Run
    <3> QED BY <2>2, <2>3, <3>1 DEF b
  <2>4. CASE q # <<>>
    <3> DEFINE l == Len(q)
    <3>1. q = Run(b + s, l)
      BY <1>6, <2>4 DEF b
    <3> HIDE DEF l
    <3>2. Run(b, s) \o Run(b + s, l) = Run(b, s + l)
      <4>1. l \in Nat /\ b \in Nat
        BY <2>1 DEF l, b
      <4> QED BY <2>1, <4>1, SMT DEF Run
    <3> QED BY <2>2, <3>1, <3>2 DEF l, b
  <2> QED BY <2>3, <2>4
<1> HIDE DEF held
<1>8. Minus(S.vs, x) \in Nat /\ Minus(x, S.va) \in Nat
  <2> HIDE DEF s, dx
  <2> QED BY <1>1, SMT DEF s, dx
<1> QED BY <1>1, <1>3, <1>6, <1>7, <1>8 DEF held

\* Without a connection nothing is queued.
SettledInv == link.state = "disconnected" => link.i_frame_queue = <<>>

\* How many messages the peer has not got.
Outstanding ==
  (IF cut = NULL THEN Minus(link.vs, peer.expect) ELSE 0) + Len(link.i_frame_queue)

\* They are a row, the newest that have been handed over if there is a connection.
RowInv ==
  /\ Outstanding \in Nat /\ Len(link.i_frame_queue) \in Nat
  /\ cut = NULL => /\ Minus(link.vs, peer.expect) = D(link.vs) - D(peer.expect)
                   /\ Minus(link.vs, peer.expect) \in Nat
  /\ \E b \in Nat : Unreceived = Run(b, Outstanding)
  /\ link.state \in Up => /\ given - Outstanding \in Nat
                          /\ Unreceived = Run(given - Outstanding, Outstanding)

LEMMA OutboundFacts ==
  ASSUME IInv
  PROVE  /\ link.vs \in SeqNo /\ link.va \in SeqNo /\ peer.expect \in SeqNo
         /\ link.i_frame_queue \in Seq(Msgs) /\ Len(link.i_frame_queue) \in Nat
         /\ given \in Nat /\ D(link.vs) \in Nat /\ D(peer.expect) \in Nat
         /\ link.state \in {"disconnected"} \cup Up
         /\ DOMAIN link = Fields /\ delivered \in Seq(Nat) /\ received \in Seq(Nat)
         /\ peer.next \in Nat /\ peer.start \in Nat
<1>1. LinkInv /\ PeerInv /\ Idle(link) /\ Typed(link)
  BY IdleFresh DEF IInv, LinkInv
<1>2. link.vs \in SeqNo /\ link.va \in SeqNo /\ link.i_frame_queue \in Seq(Msgs)
  BY <1>1 DEF Typed
<1>3. /\ link.state \in {"disconnected"} \cup Up /\ DOMAIN link = Fields
  BY <1>1 DEF Typed, Idle
<1>4. peer.expect \in SeqNo /\ peer.next \in Nat /\ peer.start \in Nat
  BY <1>1, SMT DEF PeerInv, Peer
<1>5. given \in Nat
  <2>1. load[2] \in 0 .. Total /\ given \in 0 .. load[2]
    BY <1>1, SMT DEF PeerInv
  <2> QED BY <2>1, DeliveryAssumption, SMT
<1>6. D(link.vs) \in Nat /\ D(peer.expect) \in Nat
  <2>1. D(link.vs) \in 0 .. Modulo - 1 /\ D(peer.expect) \in 0 .. Modulo - 1
    BY <1>1, <1>2, <1>4, Distances
  <2> QED BY <2>1, LinkAssumption, SMT
<1>7. delivered \in Seq(Nat) /\ received \in Seq(Nat)
  <2>1. Msgs \subseteq Nat
    BY DeliveryAssumption, SMT
  <2>2. delivered \in Seq(Msgs) /\ received \in Seq(Msgs)
    BY <1>1 DEF PeerInv
  <2>3. ASSUME NEW N, Msgs \subseteq N, NEW s \in Seq(Msgs) PROVE s \in Seq(N)
    BY <2>3, SMT
  <2> QED BY <2>1, <2>2, <2>3
<1>8. Len(link.i_frame_queue) \in Nat
  BY <1>2, SMT
<1> QED BY <1>2, <1>3, <1>4, <1>5, <1>6, <1>7, <1>8

\* From any number x that the peer may expect, with w the message at V(A).
LEMMA Kept ==
  ASSUME IInv, SettledInv, NEW w \in Nat, SentInv(w), NEW x \in SeqNo, D(x) <= D(link.vs)
  PROVE  /\ Minus(link.vs, x) = D(link.vs) - D(x)
         /\ Minus(link.vs, x) \in Nat
         /\ [i \in 1 .. Minus(link.vs, x) |-> link.txdata_by_ns[AX25MODULO(x + i - 1)]]
              \o link.i_frame_queue
              = Run(w + D(x), Minus(link.vs, x) + Len(link.i_frame_queue))
         /\ link.i_frame_queue # <<>> =>
              link.i_frame_queue
                = Run(given - Len(link.i_frame_queue), Len(link.i_frame_queue))
<1>1. /\ link.vs \in SeqNo /\ link.va \in SeqNo /\ given \in Nat
      /\ link.i_frame_queue \in Seq(Msgs)
      /\ link.state \in {"disconnected"} \cup Up
  BY OutboundFacts
<1>2. Minus(x, link.va) <= Minus(link.vs, link.va)
  BY DEF D
<1>3. \/ link.i_frame_queue = <<>>
      \/ w + Minus(link.vs, link.va) = given - Len(link.i_frame_queue)
  BY <1>1 DEF SettledInv, SentInv, D
<1>4. \A i \in DOMAIN link.i_frame_queue :
        link.i_frame_queue[i] = given - Len(link.i_frame_queue) + i - 1
  BY DEF SentInv
<1>5. \A y \in SeqNo : Minus(y, link.va) < Minus(link.vs, link.va) =>
                           link.txdata_by_ns[y] = w + Minus(y, link.va)
  BY DEF SentInv, D
<1>6. /\ Minus(link.vs, x) = Minus(link.vs, link.va) - Minus(x, link.va)
      /\ Minus(link.vs, x) \in Nat
      /\ [i \in 1 .. Minus(link.vs, x) |-> link.txdata_by_ns[AX25MODULO(x + i - 1)]]
           \o link.i_frame_queue
           = Run(w + Minus(x, link.va), Minus(link.vs, x) + Len(link.i_frame_queue))
      /\ link.i_frame_queue # <<>> =>
           link.i_frame_queue
             = Run(given - Len(link.i_frame_queue), Len(link.i_frame_queue))
  BY <1>1, <1>2, <1>3, <1>4, <1>5, Sequel, Zenon
<1> QED BY <1>6 DEF D

LEMMA Rows ==
  ASSUME IInv, SettledInv
  PROVE  RowInv
<1> DEFINE q == link.i_frame_queue
           s == Minus(link.vs, peer.expect)
<1>1. /\ link.vs \in SeqNo /\ link.va \in SeqNo /\ peer.expect \in SeqNo
      /\ q \in Seq(Msgs) /\ Len(q) \in Nat /\ given \in Nat
      /\ D(link.vs) \in Nat /\ D(peer.expect) \in Nat
      /\ link.state \in {"disconnected"} \cup Up
  BY OutboundFacts
<1>2. PICK w \in Nat : SentInv(w) /\ DataInv(w)
  BY DEF IInv
<1>3. w + D(link.vs) <= given - Len(q)
      /\ (link.state \in Up => w + D(link.vs) = given - Len(q))
  BY <1>2 DEF SentInv
<1>4. CASE cut = NULL
  <2> DEFINE n == s + Len(q)
             b == w + D(peer.expect)
  <2>1. D(peer.expect) <= D(link.vs)
    BY <1>2, <1>4 DEF DataInv
  <2>2. /\ s = D(link.vs) - D(peer.expect) /\ s \in Nat
        /\ [i \in 1 .. s |-> link.txdata_by_ns[AX25MODULO(peer.expect + i - 1)]] \o q = Run(b, n)
    BY <1>1, <1>2, <2>1, Kept
  <2>3. Outstanding = n /\ Unreceived = Run(b, n)
    BY <1>4, <2>2 DEF Outstanding, Unreceived
  <2> DEFINE l == Len(q)
  <2> HIDE DEF s, q
  <2>4. n \in Nat /\ b \in Nat
    BY <1>1, <1>2, <2>2, SMT
  <2>5. link.state \in Up => given - n = b
    <3>1. link.state \in Up => w + D(link.vs) = given - l
      BY <1>3
    <3>2. l \in Nat /\ n = s + l /\ b = w + D(peer.expect)
      BY <1>1 DEF q
    <3> DEFINE dv == D(link.vs)
               dx == D(peer.expect)
    <3>3. /\ dv \in Nat /\ dx \in Nat /\ s = dv - dx /\ b = w + dx
          /\ (link.state \in Up => w + dv = given - l)
      BY <1>1, <2>2, <3>1, <3>2
    <3> HIDE DEF n, l, b, dv, dx
    <3> SUFFICES ASSUME link.state \in Up PROVE given - n = b
      OBVIOUS
    <3>4. w + dv = given - l
      BY <3>3
    <3>5. given \in Nat /\ w \in Nat /\ dv \in Nat /\ dx \in Nat /\ l \in Nat
      BY <1>1, <3>2, <3>3
    <3>6. n = (dv - dx) + l /\ b = w + dx
      BY <3>2, <3>3
    <3> QED BY <3>4, <3>5, <3>6, SMT
  <2> HIDE DEF n, b
  <2> QED BY <1>1, <2>2, <2>3, <2>4, <2>5 DEF RowInv, s, q
<1>5. CASE cut # NULL
  <2> DEFINE n == Len(q)
             b == IF q = <<>> THEN given ELSE given - n
  <2>1. Outstanding = n /\ Unreceived = q
    <3>1. 0 + Len(q) = Len(q)
      BY <1>1, SMT
    <3> QED BY <1>5, <3>1 DEF Outstanding, Unreceived
  <2>2. n \in Nat
    BY <1>1
  <2>3. q # <<>> => q = Run(given - n, n)
    <3>1. D(link.va) <= D(link.vs)
      <4>1. D(link.va) = 0
        BY Distances DEF IInv
      <4> QED BY <1>1, <4>1, SMT
    <3> QED BY <1>1, <1>2, <3>1, Kept
  <2>4. given - n \in Nat
    <3> HIDE DEF q
    <3>1. w + D(link.vs) <= given - n
      BY <1>3
    <3> HIDE DEF n
    <3> QED BY <1>1, <1>2, <2>2, <3>1, SMT
  <2>5. q = <<>> => given - n = given /\ n = 0 /\ Run(given, 0) = <<>>
    <3>1. q = <<>> => Len(q) = 0
      BY SMT
    <3>2. Run(given, 0) = <<>> /\ given - 0 = given
      BY <1>1, SMT DEF Run
    <3> QED BY <3>1, <3>2
  <2>6. q = Run(given - n, n)
    BY <2>3, <2>5
  <2> HIDE DEF n, q
  <2> QED BY <1>1, <1>5, <2>1, <2>2, <2>4, <2>6 DEF RowInv, q
<1> QED BY <1>4, <1>5

LEMMA AscendingNone == Ascending({}) = <<>>
<1>1. Cardinality({}) = 0
  BY FS_EmptySet
<1>2. Ascending({}) = [i \in 1 .. 0 |-> CHOOSE x \in {} : Cardinality({y \in {} : y < x}) = i - 1]
  BY <1>1 DEF Ascending
<1> QED BY <1>2, SMT

\* At most one message of the peer's client is under way.
LEMMA AscendingFew ==
  ASSUME NEW e \in Nat, NEW l \in {e, e + 1}
  PROVE  Ascending(e .. l - 1) = Run(e, l - e)
<1>1. Cardinality({}) = 0 /\ Cardinality({e}) = 1
  BY FS_EmptySet, FS_Singleton
<1>2. CASE l = e
  <2>1. e .. l - 1 = {} /\ Run(e, l - e) = <<>>
    BY <1>2, SMT DEF Run
  <2> QED BY <2>1, AscendingNone
<1>3. CASE l = e + 1
  <2>1. e .. l - 1 = {e} /\ Run(e, l - e) = <<e>>
    BY <1>3, SMT DEF Run
  <2> DEFINE First(i) == CHOOSE x \in {e} : Cardinality({y \in {e} : y < x}) = i - 1
  <2>2. Ascending({e}) = [i \in 1 .. 1 |-> First(i)]
    BY <1>1 DEF Ascending
  <2>3. First(1) = e
    <3>1. {y \in {e} : y < e} = {} /\ 1 - 1 = 0
      BY SMT
    <3> QED BY <1>1, <3>1
  <2>4. \A i \in 1 .. 1 : First(i) = e
    <3>1. \A i \in 1 .. 1 : i = 1
      BY SMT
    <3> QED BY <2>3, <3>1
  <2> HIDE DEF First
  <2>5. [i \in 1 .. 1 |-> First(i)] = <<e>>
    BY <2>4, SMT
  <2> QED BY <2>1, <2>2, <2>5
<1> QED BY <1>2, <1>3

LEMMA PeersRow ==
  ASSUME NEW s, NEW e \in Nat, NEW l \in Nat, TakenInv(s, e, l)
  PROVE  Peers = Run(e, l - e) /\ l - e \in 0 .. 1
<1>1. l \in {e, e + 1} /\ Undelivered = e .. l - 1
  BY DEF TakenInv
<1>2. Ascending(e .. l - 1) = Run(e, l - e)
  BY <1>1, AscendingFew
<1>3. l - e \in 0 .. 1
  BY <1>1, SMT
<1> QED BY <1>1, <1>2, <1>3 DEF Peers

LEMMA PeersStill ==
  ASSUME UNCHANGED <<cut, delivered>>, peer'.start = peer.start, peer'.next = peer.next
  PROVE  UNCHANGED <<Undelivered, Peers>>
<1>1. Undelivered' = Undelivered
  BY DEF Undelivered
<1> QED BY <1>1 DEF Peers

\* What a step of ours that delivers nothing and begins no connection is.
LEMMA NodeServes ==
  ASSUME IInv, JInv, RowInv, RowInv', NEW L, DOMAIN L = Fields, L.up = <<>>,
         NEW taken, NodeStep(L, taken), UNCHANGED <<given, cut>>,
         \/ Steady(link, L)
         \/ link.state \in Up /\ GoesOn(link, L)
         \/ link.state \in Up /\ \E n \in 1 .. Len(link.i_frame_queue) : Pops(link, L, n)
         \/ GivesUp(link, L)
  PROVE  [Service!Next]_(Service!vars)
<1>1. /\ link' = Fresh(L) /\ peer' = peer /\ received' = received /\ delivered' = delivered \o L.up
  BY DEF NodeStep, peerVars
<1>2. /\ link'.state = L.state /\ link'.vs = L.vs /\ link'.va = L.va
      /\ link'.i_frame_queue = L.i_frame_queue /\ link'.txdata_by_ns = L.txdata_by_ns
  BY <1>1, SMT DEF Fresh, Fields
<1>3. /\ given \in Nat /\ delivered \in Seq(Nat) /\ peer.next \in Nat
      /\ link.i_frame_queue \in Seq(Msgs) /\ Len(link.i_frame_queue) \in Nat
  BY OutboundFacts
<1>4. delivered' = delivered
  BY <1>1, <1>3, SMT
<1>5. UNCHANGED <<peer.next, given, delivered, received, Peers>>
  BY <1>1, <1>4, PeersStill
<1>6. CASE Steady(link, L)
  <2>1. Unreceived' = Unreceived
    BY <1>1, <1>2, <1>6 DEF Unreceived, Steady, GoesOn
  <2> QED BY <1>5, <2>1, ServesNothing
<1>7. CASE link.state \in Up /\ GoesOn(link, L)
  <2>1. Outstanding' = Outstanding /\ link'.state \in Up
    BY <1>1, <1>2, <1>7 DEF Outstanding, GoesOn
  <2>2. Unreceived' = Unreceived
    BY <1>7, <2>1 DEF RowInv
  <2> QED BY <1>5, <2>2, ServesNothing
<1>8. ASSUME link.state \in Up, NEW n \in 1 .. Len(link.i_frame_queue), Pops(link, L, n)
      PROVE  [Service!Next]_(Service!vars)
  <2>1. /\ link'.state \in Up /\ link'.va = link.va
        /\ Minus(link'.vs, link.va) = Minus(link.vs, link.va) + n
        /\ link'.i_frame_queue = SubSeq(link.i_frame_queue, n + 1, Len(link.i_frame_queue))
    BY <1>2, <1>8 DEF Pops
  <2>2. Len(link'.i_frame_queue) = Len(link.i_frame_queue) - n /\ n \in Nat
    BY <1>3, <2>1, SMT
  <2>3. CASE cut = NULL
    <3>1. /\ Minus(link.vs, peer.expect) = D(link.vs) - D(peer.expect)
          /\ Minus(link'.vs, peer'.expect) = D(link.vs) + n - D(peer.expect)
          /\ D(link.vs) \in Nat /\ D(peer.expect) \in Nat
      <4>1. Minus(link'.vs, peer'.expect) = D(link.vs)' - D(peer.expect)'
        BY <2>3 DEF RowInv
      <4>2. D(peer.expect)' = D(peer.expect) /\ D(link.vs)' = D(link.vs) + n
        BY <1>1, <2>1 DEF D
      <4> QED BY <2>3, <4>1, <4>2, OutboundFacts DEF RowInv
    <3>2. Outstanding' = Outstanding
      <4>1. /\ Outstanding = Minus(link.vs, peer.expect) + Len(link.i_frame_queue)
            /\ Outstanding' = Minus(link'.vs, peer'.expect) + Len(link'.i_frame_queue)
        BY <2>3 DEF Outstanding
      <4> QED BY <1>3, <2>2, <3>1, <4>1, SMT
    <3>3. Unreceived' = Unreceived
      BY <1>8, <2>1, <3>2 DEF RowInv
    <3> QED BY <1>5, <3>3, ServesNothing
  <2>4. CASE cut # NULL
    <3> DEFINE l == Len(link.i_frame_queue)
    <3>1. Outstanding = l /\ Outstanding' = l - n
      <4>1. Outstanding = 0 + Len(link.i_frame_queue) /\ Outstanding' = 0 + Len(link'.i_frame_queue)
        BY <2>4 DEF Outstanding
      <4> QED BY <1>3, <2>2, <4>1, SMT
    <3>2. Unreceived = Run(given - l, l) /\ Unreceived' = Run(given - (l - n), l - n)
          /\ given - l \in Nat
      BY <1>8, <2>1, <3>1 DEF RowInv
    <3>3. l \in Nat /\ n \in 0 .. l /\ given - (l - n) = (given - l) + n
      BY <1>3, <2>2, SMT
    <3>4. PICK c \in Nat, m \in Nat : Peers = Run(c, m)
      <4>1. PICK s \in Nat, e \in Nat, k \in Nat : TakenInv(s, e, k)
        BY DEF JInv, InboundInv
      <4>2. Peers = Run(e, k - e) /\ k - e \in 0 .. 1
        BY <4>1, PeersRow
      <4>3. k - e \in Nat
        BY <4>2, SMT
      <4> QED BY <4>2, <4>3
    <3>5. 0 \in 0 .. m /\ Run(c + 0, m - 0) = Run(c, m)
      BY SMT
    <3>6. peer'.next >= peer.next /\ peer'.next \in Nat
      BY <1>1, <1>3, SMT
    <3> HIDE DEF l
    <3> QED BY <1>3, <1>5, <3>2, <3>3, <3>4, <3>5, <3>6, ServesReconnect
  <2> QED BY <2>3, <2>4
<1>9. CASE GivesUp(link, L)
  <2>1. /\ link'.vs = link.vs /\ link'.txdata_by_ns = link.txdata_by_ns
        /\ link'.i_frame_queue = <<>>
    BY <1>2, <1>9 DEF GivesUp
  <2>2. PICK b \in Nat : Unreceived = Run(b, Outstanding)
    BY DEF RowInv
  <2> DEFINE l == Len(link.i_frame_queue)
  <2>3. CASE cut = NULL
    <3> DEFINE s == Minus(link.vs, peer.expect)
               F(i) == link.txdata_by_ns[AX25MODULO(peer.expect + i - 1)]
               held == [i \in 1 .. s |-> F(i)]
    <3>1. /\ s \in Nat /\ Outstanding = s + l /\ Unreceived = held \o link.i_frame_queue
          /\ Unreceived' = held \o <<>>
      BY <1>1, <2>1, <2>3 DEF RowInv, Outstanding, Unreceived
    <3> HIDE DEF s, F
    <3>2. held \o link.i_frame_queue = Run(b, s + l)
      BY <2>2, <3>1
    <3>3. held = Run(b, s)
      <4>1. ASSUME NEW i \in 1 .. s PROVE F(i) = b + i - 1
        <5>1. (held \o link.i_frame_queue)[i] = F(i)
          BY <1>3, <3>1, SMT
        <5>2. Run(b, s + l)[i] = b + i - 1
          BY <1>3, <3>1, SMT DEF Run, l
        <5> QED BY <3>2, <5>1, <5>2
      <4> QED BY <4>1, Zenon DEF Run
    <3>4. Run(b, s) \o <<>> = Run(b, s)
      BY <3>1, SMT DEF Run
    <3>5. Unreceived' = Run(b, s)
      BY <3>1, <3>3, <3>4
    <3>6. s \in 0 .. s + l /\ s + l \in Nat
      BY <1>3, <3>1, SMT DEF l
    <3> HIDE DEF held
    <3> QED BY <1>5, <2>2, <3>1, <3>5, <3>6, ServesGiveUp
  <2>4. CASE cut # NULL
    <3>1. Outstanding \in Nat /\ 0 \in 0 .. Outstanding
      BY SMT DEF RowInv
    <3>2. Unreceived' = Run(b, 0)
      <4>1. Unreceived' = <<>>
        BY <2>1, <2>4 DEF Unreceived
      <4> QED BY <4>1, SMT DEF Run
    <3> QED BY <1>5, <2>2, <3>1, <3>2, ServesGiveUp
  <2> QED BY <2>3, <2>4
<1> QED BY <1>6, <1>7, <1>8, <1>9

\* When the oldest messages are lost the row that is left ends as it did.
LEMMA OldestDropped ==
  ASSUME IInv, RowInv, RowInv', given' = given, Outstanding' <= Outstanding,
         link.state \in Up => link'.state \in Up,
         link.state = "disconnected" => Outstanding' = 0
  PROVE  \E b \in Nat, k \in 0 .. Outstanding :
            /\ Unreceived = Run(b, Outstanding)
            /\ Unreceived' = Run(b + k, Outstanding - k)
<1> DEFINE n == Outstanding
           l == Outstanding'
<1>1. n \in Nat /\ l \in Nat /\ given \in Nat /\ l <= n
  BY OutboundFacts DEF RowInv
<1>2. n - l \in 0 .. n /\ n - (n - l) = l
  <2> HIDE DEF n, l
  <2> QED BY <1>1, SMT
<1>3. CASE link.state \in Up
  <2>1. given - n \in Nat /\ Unreceived = Run(given - n, n) /\ Unreceived' = Run(given - l, l)
    BY <1>3 DEF RowInv
  <2> HIDE DEF n, l
  <2>2. (given - n) + (n - l) = given - l
    BY <1>1, SMT
  <2> QED BY <1>2, <2>1, <2>2 DEF n
<1>4. CASE link.state = "disconnected"
  <2>1. l = 0
    BY <1>4
  <2>2. PICK b \in Nat : Unreceived = Run(b, n)
    BY DEF RowInv
  <2>3. PICK c \in Nat : Unreceived' = Run(c, l)
    BY DEF RowInv
  <2> HIDE DEF n, l
  <2>4. Run(c, 0) = <<>> /\ Run(b + (n - l), 0) = <<>>
    BY SMT DEF Run
  <2> QED BY <1>2, <2>1, <2>2, <2>3, <2>4 DEF n
<1>5. link.state \in {"disconnected"} \cup Up
  BY OutboundFacts
<1> QED BY <1>3, <1>4, <1>5

LEMMA LessOutstanding ==
  ASSUME RowInv, RowInv', link.state = "disconnected" => link'.i_frame_queue = <<>>,
         Outstanding' = Len(link'.i_frame_queue),
         link'.i_frame_queue = <<>> \/ link'.i_frame_queue = link.i_frame_queue
  PROVE  Outstanding' <= Outstanding /\ (link.state = "disconnected" => Outstanding' = 0)
<1>1. Len(<<>>) = 0
  BY SMT
<1> DEFINE sent == IF cut = NULL THEN Minus(link.vs, peer.expect) ELSE 0
<1>2. sent \in Nat /\ Outstanding = sent + Len(link.i_frame_queue)
      /\ Len(link.i_frame_queue) \in Nat
  BY DEF RowInv, Outstanding
<1>3. Len(link'.i_frame_queue) <= Len(link.i_frame_queue)
  BY <1>1, <1>2, SMT
<1> HIDE DEF sent
<1> QED BY <1>1, <1>2, <1>3, SMT

\* What becomes of the half that sends in a step of ours, if the client gives
\* nothing and no connection begins.
Goes(S, L) ==
  \/ Steady(S, L)
  \/ S.state \in Up /\ GoesOn(S, L)
  \/ S.state \in Up /\ \E n \in 1 .. Len(S.i_frame_queue) : Pops(S, L, n)
  \/ GivesUp(S, L)

LEMMA OwnEventsGo ==
  ASSUME IInv, NodeSeizeConfirm \/ NodeTransmits \/ NodeTimer
  PROVE  \E L, taken : /\ NodeStep(L, taken) /\ DOMAIN L = Fields /\ L.up = <<>>
                       /\ Goes(link, L) /\ UNCHANGED <<given, cut>>
<1>1. Idle(link) /\ Good(link, TRUE) /\ link.up = <<>> /\ (Owes(link) => TRUE)
  BY LinkNow DEF Idle
<1>2. UNCHANGED <<given, cut>>
  BY DEF NodeSeizeConfirm, NodeTransmits, NodeTimer
<1>3. CASE NodeSeizeConfirm \/ NodeTransmits
  <2> DEFINE L == lm_seize_confirm(link)
  <2>1. NodeStep(L, 1) \/ NodeStep(L, 0)
    BY <1>3 DEF NodeSeizeConfirm, NodeTransmits
  <2>2. Good(L, TRUE) /\ Echo(link, L)
    BY <1>1, SeizeConfirmed, SeizedHeard
  <2>3. Goes(link, L)
    BY <1>1, ChannelSeized DEF Goes
  <2> HIDE DEF L
  <2>4. DOMAIN L = Fields /\ L.up = <<>>
    BY <1>1, <2>2 DEF Good, Typed, Echo, Same
  <2> QED BY <1>2, <2>1, <2>3, <2>4
<1>4. CASE NodeTimer
  <2>1. PICK L \in {ExpireT1(link), ExpireT3(link)} : NodeStep(L, 0)
    BY <1>4 DEF NodeTimer
  <2>2. Good(L, TRUE) /\ Echo(link, L)
    BY <1>1, <2>1, TimersExpire, TimersHeard
  <2>3. Goes(link, L)
    BY <1>1, <2>1, TimerRunsOut DEF Goes
  <2>4. DOMAIN L = Fields /\ L.up = <<>>
    BY <1>1, <2>2 DEF Good, Typed, Echo, Same
  <2> QED BY <1>2, <2>1, <2>3, <2>4
<1> QED BY <1>3, <1>4

LEMMA DataGo ==
  ASSUME IInv, NodeReceive, Head(toNode).type # "SABM"
  PROVE  LET L == lm_data_indication(link, Head(toNode))
         IN  /\ NodeStep(L, 0) /\ DOMAIN L = Fields /\ UNCHANGED <<given, cut>>
             /\ link.state = "disconnected" => L = link
             /\ Goes(link, L)
<1> DEFINE f == Head(toNode)
           L == lm_data_indication(link, f)
<1>1. /\ NodeStep(L, 0) /\ DOMAIN L = Fields /\ cut' = cut
      /\ Receivable(f) /\ f.type \in {"I", "RR", "REJ"}
      /\ link.state \in Up => is_good_nr(link, f.nr)
      /\ f.type = "REJ" /\ link.state \in Up => f.nr # link.vs
  BY FrameTaken
<1>2. given' = given
  BY DEF NodeReceive
<1>3. Idle(link) /\ link.state \in {"disconnected"} \cup Up
  BY LinkNow DEF Idle
<1>4. link.state = "disconnected" => L = link
  BY <1>1, <1>3, Unnoticed
<1>5. CASE link.state = "disconnected"
  <2>1. Steady(link, link)
    BY DEF Steady, GoesOn
  <2> QED BY <1>1, <1>2, <1>4, <1>5, <2>1 DEF Goes
<1>6. CASE link.state \in Up
  <2>1. /\ f.type \in {"I", "RR"} => Acknowledges(link, L, f.nr)
        /\ f.type = "REJ" /\ f.nr # link.vs => Resends(link, L, f.nr)
    BY <1>1, <1>3, <1>6, DataReceived
  <2> HIDE DEF L, f
  <2>2. GoesOn(link, L)
    BY <1>1, <1>6, <2>1 DEF Acknowledges, Resends
  <2>3. Goes(link, L)
    BY <1>6, <2>2 DEF Goes
  <2> QED BY <1>1, <1>2, <1>4, <2>3 DEF L, f
<1> QED BY <1>3, <1>5, <1>6

\* Whatever the step, the queue is empty without a connection.
LEMMA StaysSettled ==
  ASSUME IInv, SettledInv, NEW L, NEW taken, DOMAIN L = Fields, NodeStep(L, taken),
         Goes(link, L) \/ L.state \in Up
  PROVE  SettledInv'
<1>1. /\ link'.state = L.state /\ link'.i_frame_queue = L.i_frame_queue
  BY SMT DEF NodeStep, Fresh, Fields
<1>2. link.state \in {"disconnected"} \cup Up
  BY LinkNow DEF Idle
<1>3. SUFFICES ASSUME L.state = "disconnected" PROVE L.i_frame_queue = <<>>
  BY <1>1 DEF SettledInv
<1>4. L.state \notin Up
  BY <1>3, UpOrNot
<1>5. CASE Steady(link, L)
  <2>1. link.state = "disconnected"
    BY <1>2, <1>4, <1>5 DEF Steady, GoesOn
  <2> QED BY <1>5, <2>1 DEF SettledInv, Steady, GoesOn
<1>6. CASE GivesUp(link, L)
  BY <1>6 DEF GivesUp
<1> QED BY <1>4, <1>5, <1>6 DEF Goes, GoesOn, Pops

LEMMA NextSettled == IInv /\ SettledInv /\ [Next]_vars => SettledInv'
<1> SUFFICES ASSUME IInv, SettledInv, [Next]_vars PROVE SettledInv'
  OBVIOUS
<1>1. CASE link' = link
  BY <1>1 DEF SettledInv
<1>2. CASE NodeSeizeConfirm \/ NodeTransmits \/ NodeTimer
  BY <1>2, OwnEventsGo, StaysSettled
<1>3. CASE NodeReceive
  <2>1. CASE Head(toNode).type # "SABM"
    <3> DEFINE L == lm_data_indication(link, Head(toNode))
    <3>1. NodeStep(L, 0) /\ DOMAIN L = Fields /\ Goes(link, L)
      BY <1>3, <2>1, DataGo
    <3> HIDE DEF L
    <3> QED BY <3>1, StaysSettled
  <2>2. CASE Head(toNode).type = "SABM"
    <3> DEFINE f == Head(toNode)
               L == lm_data_indication(link, f)
    <3>1. NodeStep(L, 0) /\ DOMAIN L = Fields /\ Receivable(f) /\ Idle(link) /\ f.type = "SABM"
      BY <1>3, <2>2, FrameTaken, LinkNow
    <3> HIDE DEF f
    <3>2. L.state \in Up
      BY <3>1, ConnectReceived DEF Begins, Up
    <3> HIDE DEF L
    <3> QED BY <3>1, <3>2, StaysSettled
  <2> QED BY <2>1, <2>2
<1>4. CASE ClientData
  <2> DEFINE L == SeizeForQueue([link EXCEPT !.i_frame_queue = Append(@, given)])
  <2>1. NodeStep(L, 0) /\ link.state \in Up /\ Idle(link) /\ given \in Msgs
    <3>1. load \in (0 .. Total) \X (0 .. Total) /\ given \in 0 .. load[2] /\ given < load[2]
      BY <1>4 DEF IInv, PeerInv, ClientData
    <3>2. load[2] \in 0 .. Total
      BY <3>1, SMT
    <3>3. given \in Msgs
      BY <3>1, <3>2, DeliveryAssumption, SMT
    <3> QED BY <1>4, <3>3, LinkNow DEF ClientData
  <2>2. L.state = link.state /\ Good(L, TRUE)
    BY <2>1, Appended
  <2> HIDE DEF L
  <2>3. DOMAIN L = Fields /\ L.state \in Up
    BY <2>1, <2>2 DEF Good, Typed
  <2> QED BY <2>1, <2>3, StaysSettled
<1>5. \/ NodeReceive \/ NodeSeizeConfirm \/ NodeTransmits \/ NodeTimer \/ ClientData
      \/ link' = link
  BY DEF Next, vars, nodeVars, PeerSend, PeerResend, PeerReceive, PeerRestart,
         PeerConnectAgain, LoseToNode, LoseToPeer, PeerIdle
<1> QED BY <1>1, <1>2, <1>3, <1>4, <1>5

LEMMA InitSettled == Init => SettledInv
<1> SUFFICES ASSUME Init PROVE SettledInv
  OBVIOUS
<1> DEFINE L == lm_data_indication(NewLink, UFrame("SABM", "cmd", TRUE))
<1>1. L.i_frame_queue = <<>> /\ Good(L, TRUE) /\ link = Fresh(L)
  BY LinkAtFirst DEF Init
<1> HIDE DEF L
<1>2. link.i_frame_queue = <<>>
  BY <1>1, SMT DEF Fresh, Fields, Good, Typed
<1> QED BY <1>2 DEF SettledInv

\* Our client hands over its next message.
LEMMA GivingServes ==
  ASSUME IInv, RowInv, RowInv', ClientData
  PROVE  Service!Next
<1> DEFINE L == SeizeForQueue([link EXCEPT !.i_frame_queue = Append(@, given)])
           n == Outstanding
<1>1. /\ NodeStep(L, 0) /\ link.state \in Up /\ given' = given + 1 /\ cut' = cut
      /\ given < load[2]
  BY DEF ClientData
<1>2. given \in Msgs
  <2>1. load \in (0 .. Total) \X (0 .. Total) /\ given \in 0 .. load[2]
    BY DEF IInv, PeerInv
  <2>2. load[2] \in 0 .. Total
    BY <2>1, SMT
  <2> QED BY <1>1, <2>1, <2>2, DeliveryAssumption, SMT
<1>3. /\ L.i_frame_queue = Append(link.i_frame_queue, given)
      /\ L.state = link.state /\ L.vs = link.vs /\ L.up = <<>> /\ Good(L, TRUE)
  BY <1>2, LinkNow, Appended
<1> HIDE DEF L
<1>4. /\ link'.i_frame_queue = Append(link.i_frame_queue, given)
      /\ link'.state = link.state /\ link'.vs = link.vs
  BY <1>1, <1>3, SMT DEF NodeStep, Fresh, Fields, Good, Typed
<1>5. /\ given \in Nat /\ delivered \in Seq(Nat) /\ link.i_frame_queue \in Seq(Msgs)
  BY OutboundFacts
<1>6. delivered' = delivered /\ peer' = peer /\ received' = received
  <2>1. /\ delivered' = delivered \o <<>> /\ peer' = peer /\ received' = received
    BY <1>1, <1>3 DEF NodeStep, peerVars
  <2> QED BY <1>5, <2>1, SMT
<1>7. Outstanding' = n + 1
  <2>1. Len(link'.i_frame_queue) = Len(link.i_frame_queue) + 1 /\ Len(link.i_frame_queue) \in Nat
    BY <1>4, <1>5, SMT
  <2> DEFINE sent == IF cut = NULL THEN Minus(link.vs, peer.expect) ELSE 0
  <2>2. sent \in Nat
    BY DEF RowInv
  <2>3. n = sent + Len(link.i_frame_queue) /\ Outstanding' = sent + Len(link'.i_frame_queue)
    BY <1>1, <1>4, <1>6 DEF Outstanding
  <2> HIDE DEF sent, n
  <2> QED BY <2>1, <2>2, <2>3, SMT
<1>8. /\ n \in Nat /\ given - n \in Nat /\ Unreceived = Run(given - n, n)
      /\ Unreceived' = Run((given + 1) - (n + 1), n + 1)
  <2>1. link'.state \in Up
    BY <1>1, <1>4
  <2>2. Unreceived' = Run(given' - Outstanding', Outstanding')
    BY <2>1 DEF RowInv
  <2> HIDE DEF n
  <2>3. Unreceived' = Run((given + 1) - (n + 1), n + 1)
    BY <1>1, <1>7, <2>2
  <2> QED BY <1>1, <2>3 DEF RowInv, n
<1> HIDE DEF n
<1>9. Unreceived' = Append(Unreceived, given)
  <2> DEFINE b == given - n
  <2>1. (given + 1) - (n + 1) = b /\ given = b + n /\ b \in Nat
    BY <1>5, <1>8, SMT
  <2> HIDE DEF b
  <2>2. Append(Run(b, n), b + n) = Run(b, n + 1)
    BY <1>8, <2>1, RunGrows
  <2>3. Unreceived = Run(b, n)
    BY <1>8 DEF b
  <2>4. Unreceived' = Run(b, n + 1)
    BY <1>8, <2>1
  <2> QED BY <2>1, <2>2, <2>3, <2>4
<1>10. UNCHANGED <<delivered, received, peer.next, Peers>>
  BY <1>1, <1>6, PeersStill
<1> QED BY <1>1, <1>9, <1>10, ServesGive

\* A frame of the peer's that begins no connection: at most its next message is
\* delivered.
LEMMA DataServes ==
  ASSUME IInv, JInv, RowInv, RowInv', NodeReceive, Head(toNode).type # "SABM"
  PROVE  [Service!Next]_(Service!vars)
<1> DEFINE f == Head(toNode)
           L == lm_data_indication(link, f)
<1>1. /\ NodeStep(L, 0) /\ DOMAIN L = Fields /\ UNCHANGED <<given, cut>>
      /\ link.state = "disconnected" => L = link
      /\ Goes(link, L)
  BY DataGo
<1>2. /\ f = toNode[1] /\ 1 \in DOMAIN toNode /\ Receivable(f) /\ f.type \in {"I", "RR", "REJ"}
      /\ link.state \in Up => is_good_nr(link, f.nr)
      /\ f.type = "REJ" /\ link.state \in Up => f.nr # link.vs
  BY FrameTaken
<1>3. Idle(link) /\ link.up = <<>> /\ link.state \in {"disconnected"} \cup Up
  BY LinkNow DEF Idle
<1>4. PICK s \in Nat, e \in Nat, l \in Nat : InboundInv(s, e, l)
  BY DEF JInv
<1>5. /\ TakenInv(s, e, l) /\ OfferedInv(s, e, l) /\ link.vr = AX25MODULO(e - s) /\ s <= e
      /\ link.rxdata_by_ns = [x \in SeqNo |-> None]
  BY <1>4 DEF InboundInv, TakenInv
<1> HIDE DEF L, f
<1>6. L.up = <<>> => [Service!Next]_(Service!vars)
  BY <1>1, NodeServes DEF Goes
<1>7. link.state \in Up => Hears(link, L, f)
  BY <1>2, <1>3, <1>5, FrameHeard DEF L
<1>8. CASE link.state = "disconnected"
  BY <1>1, <1>3, <1>6, <1>8
<1>9. CASE link.state \in Up /\ f.type # "I"
  <2>1. L.up = <<>>
    BY <1>2, <1>3, <1>7, <1>9 DEF Hears, Echo, Same
  <2> QED BY <1>6, <2>1
<1>10. CASE link.state \in Up /\ f.type = "I"
  <2>1. /\ s <= f.msg /\ f.msg \in {e - 1, e} /\ f.msg < l /\ f.ns = AX25MODULO(f.msg - s)
    BY <1>2, <1>5, <1>10 DEF OfferedInv
  <2>2. CASE f.msg = e - 1
    <3>1. e - 1 - s \in Nat /\ (e - 1 - s) + 1 = e - s
      BY <2>1, <2>2, SMT
    <3>2. AX25MODULO(e - 1 - s) = Minus(AX25MODULO((e - 1 - s) + 1), 1)
      BY <3>1, Numbered
    <3>3. f.ns = Minus(link.vr, 1)
      BY <1>5, <2>1, <2>2, <3>1, <3>2
    <3>4. L.up = <<>>
      BY <1>3, <1>7, <1>10, <3>3 DEF Hears, Echo, Same
    <3> QED BY <1>6, <3>4
  <2>3. CASE f.msg = e
    <3>1. L.up = <<e>>
      BY <1>5, <1>7, <1>10, <2>1, <2>3 DEF Hears
    <3>2. TakenInv(s, e + 1, l)'
      <4>1. link.state \in Up /\ Head(toNode).type = "I" /\ Head(toNode).msg = e
        BY <1>10, <2>3 DEF f
      <4>2. InboundInv(s, e + 1, l)'
        BY <1>4, <4>1, ReceivedNext
      <4> QED BY <4>2 DEF InboundInv
    <3>3. l = e + 1
      BY <1>5, <2>1, <2>3, SMT DEF TakenInv
    <3>4. Peers = Run(e, 1)
      <4>1. Peers = Run(e, l - e) /\ l - e = 1
        BY <1>5, <3>3, PeersRow, SMT
      <4> QED BY <4>1
    <3>5. Peers' = Run(e + 1, 1 - 1)
      <4>1. Undelivered' = (e + 1) .. l - 1
        BY <3>2 DEF TakenInv
      <4>2. e + 1 \in Nat /\ l - (e + 1) = 1 - 1
        BY <3>3, SMT
      <4>3. Ascending((e + 1) .. l - 1) = Run(e + 1, l - (e + 1))
        BY <3>3, <4>2, AscendingFew
      <4> QED BY <4>1, <4>2, <4>3 DEF Peers
    <3>6. /\ link' = Fresh(L) /\ peer' = peer /\ received' = received
          /\ delivered' = delivered \o <<e>> /\ delivered \in Seq(Nat) /\ received \in Seq(Nat)
      BY <1>1, <3>1, OutboundFacts DEF NodeStep, peerVars
    <3>7. delivered' = Append(delivered, e)
      BY <3>6, SMT
    <3>8. Unreceived' = Unreceived
      <4>1. /\ link'.state = L.state /\ link'.vs = L.vs
            /\ link'.i_frame_queue = L.i_frame_queue
        BY <1>1, <3>6, SMT DEF Fresh, Fields
      <4>2. GoesOn(link, L)
        <5>1. Acknowledges(link, L, f.nr)
          BY <1>2, <1>3, <1>10, DataReceived DEF L
        <5> QED BY <5>1 DEF Acknowledges
      <4>3. Outstanding' = Outstanding /\ link'.state \in Up
        BY <1>1, <1>10, <3>6, <4>1, <4>2 DEF Outstanding, GoesOn
      <4> QED BY <1>1, <1>10, <4>3 DEF RowInv
    <3>9. UNCHANGED <<peer.next, given, received, Unreceived>> /\ 1 \in Nat \ {0}
      BY <1>1, <3>6, <3>8
    <3>10. Service!Next
      BY <3>4, <3>5, <3>6, <3>7, <3>9, ServesDeliver
    <3> QED BY <3>10
  <2> QED BY <2>1, <2>2, <2>3
<1> QED BY <1>3, <1>8, <1>9, <1>10

\* The peer's SABM: the connection begins anew, and what was under way is lost.
LEMMA ConnectServes ==
  ASSUME IInv, JInv, RowInv, RowInv', SettledInv, NodeReceive, Head(toNode).type = "SABM"
  PROVE  Service!Next
<1> DEFINE f == Head(toNode)
           L == lm_data_indication(link, f)
<1>1. /\ NodeStep(L, 0) /\ DOMAIN L = Fields /\ f.type = "SABM"
      /\ f = toNode[1] /\ 1 \in DOMAIN toNode /\ Receivable(f) /\ Idle(link) /\ link.up = <<>>
  BY FrameTaken, LinkNow DEF Idle
<1>2. cut' = NULL /\ given' = given
  BY DEF NodeReceive
<1> HIDE DEF f
<1>3. Begins(link, L, f)
  BY <1>1, ConnectReceived
<1> HIDE DEF L
<1>4. /\ link'.state \in Up /\ link'.vs = 0 /\ link'.i_frame_queue = L.i_frame_queue
      /\ L.up = <<>>
  <2>1. /\ link'.state = L.state /\ link'.vs = L.vs /\ link'.i_frame_queue = L.i_frame_queue
    BY <1>1, SMT DEF NodeStep, Fresh, Fields
  <2> QED BY <1>1, <1>3, <2>1 DEF Begins, Up
<1>5. /\ given \in Nat /\ delivered \in Seq(Nat) /\ peer.next \in Nat /\ peer.start \in Nat
      /\ Len(link.i_frame_queue) \in Nat /\ link.state \in {"disconnected"} \cup Up
  BY OutboundFacts
<1>6. delivered' = delivered /\ peer' = peer /\ received' = received
  <2>1. delivered' = delivered \o <<>> /\ peer' = peer /\ received' = received
    BY <1>1, <1>4 DEF NodeStep, peerVars
  <2> QED BY <1>5, <2>1, SMT
<1>7. peer.expect = 0 /\ peer.next = peer.start
  <2>1. Sabms # {}
    BY <1>1 DEF Sabms
  <2> QED BY <2>1 DEF IInv, PhaseInv
<1>8. Outstanding' = Len(link'.i_frame_queue)
  <2>1. Outstanding' = 0 + Len(link'.i_frame_queue)
    <3>1. 0 \in SeqNo /\ 0 \in 0 .. Modulo
      BY LinkAssumption, SMT DEF SeqNo
    <3>2. Minus(0, 0) = IF 0 <= 0 THEN 0 - 0 ELSE 0 + Modulo - 0
      BY <3>1, MinusValue
    <3>3. Minus(0, 0) = 0
      BY <3>2, SMT
    <3> QED BY <1>2, <1>4, <1>6, <1>7, <3>3 DEF Outstanding
  <2>2. Len(link'.i_frame_queue) \in Nat
    BY DEF RowInv
  <2> QED BY <2>1, <2>2, SMT
<1>9. Outstanding' <= Outstanding /\ (link.state = "disconnected" => Outstanding' = 0)
  <2>1. /\ L.i_frame_queue = <<>> \/ L.i_frame_queue = link.i_frame_queue
        /\ link.state = "disconnected" => L.i_frame_queue = <<>>
    BY <1>3 DEF Begins, SettledInv
  <2> QED BY <1>4, <1>8, <2>1, LessOutstanding
<1>10. PICK b \in Nat, k \in 0 .. Outstanding :
         Unreceived = Run(b, Outstanding) /\ Unreceived' = Run(b + k, Outstanding - k)
  BY <1>2, <1>4, <1>9, OldestDropped
<1>11. \E c \in Nat, m \in Nat : Peers = Run(c, m) /\ Peers' = Run(c + m, m - m)
  <2>1. PICK s \in Nat, e \in Nat, l \in Nat : TakenInv(s, e, l)
    BY DEF JInv, InboundInv
  <2> DEFINE m == l - e
  <2>2. Peers = Run(e, m) /\ m \in 0 .. 1
    BY <2>1, PeersRow
  <2> HIDE DEF m
  <2>3. Undelivered' = {}
    <3>1. Undelivered' = {i \in {} \cup (peer.start .. peer.start - 1) : i \notin Range(delivered)}
      BY <1>2, <1>6, <1>7 DEF Undelivered
    <3>2. peer.start .. peer.start - 1 = {}
      BY <1>5, SMT
    <3> QED BY <3>1, <3>2
  <2>4. Peers' = <<>>
    BY <2>3, AscendingNone DEF Peers
  <2>5. m \in Nat /\ Run(e + m, m - m) = <<>>
    BY <2>2, SMT DEF Run
  <2> QED BY <2>2, <2>4, <2>5
<1>12. PICK c \in Nat, m \in Nat : Peers = Run(c, m) /\ Peers' = Run(c + m, m - m)
  BY <1>11
<1>13. m \in 0 .. m /\ peer'.next >= peer.next /\ peer'.next \in Nat
  BY <1>5, <1>6, SMT
<1>14. Outstanding \in Nat
  BY DEF RowInv
<1> QED BY <1>2, <1>5, <1>6, <1>10, <1>12, <1>13, <1>14, ServesReconnect

\* The peer's client hands over its next message.
LEMMA PeerSendServes ==
  ASSUME PeerWindow = 1, IInv, JInv, PeerSend
  PROVE  Service!Next
<1>1. /\ peer.state = "connected" /\ peer.next - peer.base < PeerWindow
      /\ peer' = [peer EXCEPT !.next = @ + 1]
      /\ UNCHANGED <<nodeVars, cut, received>>
  BY DEF PeerSend, PeerIdle
<1>2. /\ peer \in Peer /\ peer.base <= peer.next /\ cut = NULL
      /\ peer.start \in Nat /\ peer.base \in Nat /\ peer.next \in Nat
  <2>1. peer \in Peer /\ peer.base <= peer.next /\ cut = NULL
    BY <1>1 DEF IInv, PeerInv, PhaseInv
  <2> QED BY <2>1, SMT DEF Peer
<1>3. /\ peer'.next = peer.next + 1 /\ peer'.start = peer.start /\ peer'.expect = peer.expect
  BY <1>1, <1>2, SMT DEF Peer
<1>4. PICK s \in Nat, e \in Nat, l \in Nat : TakenInv(s, e, l) /\ ReportedInv(s, e, l)
  BY DEF JInv, InboundInv
<1>5. peer.next = e /\ l = e /\ s = peer.start /\ s <= e
  <2>1. peer.base \in {e - 1, e} /\ l = peer.next /\ l \in {e, e + 1} /\ s = peer.start /\ s <= e
    BY <1>2, <1>4 DEF TakenInv, ReportedInv
  <2>2. peer.next - peer.base < 1
    BY <1>1
  <2> QED BY <1>2, <2>1, <2>2, SMT
<1>6. Undelivered = {}
  <2>1. Undelivered = e .. e - 1
    BY <1>4, <1>5 DEF TakenInv
  <2> QED BY <2>1, SMT
<1>7. link' = link /\ delivered' = delivered /\ given' = given /\ received' = received /\ cut' = cut
  BY <1>1 DEF nodeVars
<1>8. Undelivered' = e .. (e + 1) - 1
  <2>1. Undelivered' = {m \in peer.start .. (peer.next + 1) - 1 : m \notin Range(delivered)}
    BY <1>2, <1>3, <1>7 DEF Undelivered
  <2>2. Undelivered = {m \in peer.start .. peer.next - 1 : m \notin Range(delivered)}
    BY <1>2 DEF Undelivered
  <2>3. e \notin Range(delivered)
    <3>1. \A i \in DOMAIN delivered : delivered[i] < e /\ delivered[i] \in Nat
      <4>1. delivered \in Seq(Nat)
        BY OutboundFacts
      <4> QED BY <1>4, <4>1, SMT DEF TakenInv
    <3>2. \A i \in DOMAIN delivered : delivered[i] # e
      BY <3>1, SMT
    <3> QED BY <3>2 DEF Range
  <2>4. peer.start .. (peer.next + 1) - 1 = (peer.start .. peer.next - 1) \cup {e}
    BY <1>2, <1>5, SMT
  <2>5. e .. (e + 1) - 1 = {e}
    BY SMT
  <2> QED BY <1>6, <2>1, <2>2, <2>3, <2>4, <2>5
<1>9. Peers = Run(e, 0) /\ Peers' = Run(e, 1)
  <2>1. Peers = Run(e, l - e) /\ l - e = 0
    BY <1>4, <1>5, PeersRow, SMT
  <2>2. Ascending(e .. (e + 1) - 1) = Run(e, (e + 1) - e) /\ (e + 1) - e = 1
    <3>1. Ascending(e .. (e + 1) - 1) = Run(e, (e + 1) - e)
      BY AscendingFew
    <3> QED BY <3>1, SMT
  <2> QED BY <1>8, <2>1, <2>2 DEF Peers
<1>10. Peers' = Append(Peers, peer.next)
  <2>1. Append(Run(e, 0), e + 0) = Run(e, 0 + 1)
    BY RunGrows
  <2>2. e + 0 = e /\ 0 + 1 = 1
    BY SMT
  <2> QED BY <1>5, <1>9, <2>1, <2>2
<1>11. Unreceived' = Unreceived
  BY <1>3, <1>7 DEF Unreceived
<1> QED BY <1>3, <1>7, <1>10, <1>11, ServesGive

\* A message of ours that the peer takes is the oldest it has not got.
LEMMA PeerTakesServes ==
  ASSUME IInv, SettledInv, toPeer # <<>>, UNCHANGED nodeVars, UNCHANGED cut,
         NEW f, f = Head(toPeer), f.type = "I", peer.state = "connected", PeerTakesI(f),
         f.ns = peer.expect
  PROVE  Service!Next
<1> DEFINE next == AX25MODULO(peer.expect + 1)
           l == Len(link.i_frame_queue)
           n == Minus(link.vs, peer.expect) + l
<1>1. /\ LinkInv /\ peer.expect \in SeqNo /\ peer \in Peer /\ cut = NULL
      /\ delivered \in Seq(Nat) /\ received \in Seq(Nat) /\ given \in Nat /\ l \in Nat
      /\ D(link.vs) \in Nat /\ D(peer.expect) \in Nat /\ D(link.vs) \in 0 .. Modulo - 1
  <2>1. LinkInv /\ peer \in Peer /\ cut = NULL
    BY DEF IInv, PeerInv, PhaseInv
  <2> QED BY <2>1, OutboundFacts, Distances
<1>2. f = toPeer[1] /\ 1 \in DOMAIN toPeer
  <2>1. toPeer \in Seq(PeerAir)
    BY DEF IInv, AirInv
  <2>2. Head(toPeer) = toPeer[1] /\ Len(toPeer) \in Nat \ {0} /\ DOMAIN toPeer = 1 .. Len(toPeer)
    BY <2>1, Shortened
  <2> QED BY <2>2, SMT
<1>3. PICK w \in Nat : SentInv(w) /\ DataInv(w)
  BY DEF IInv
<1>4. f.msg = w + D(peer.expect) /\ D(peer.expect) < D(link.vs)
  <2>1. 1 \in LiveData
    BY <1>2 DEF LiveData
  <2> QED BY <1>2, <1>3, <2>1 DEF DataInv
<1>5. next \in SeqNo /\ D(next) = D(peer.expect) + 1
  <2>1. D(peer.expect) < Modulo - 1
    BY <1>1, <1>4, LinkAssumption, SMT
  <2> QED BY <1>1, <2>1, Apart
<1>6. peer'.expect = next /\ peer'.start = peer.start /\ peer'.next = peer.next
  <2>1. peer' = [[peer EXCEPT !.base = Acked(f.nr)]
                   EXCEPT !.expect = AX25MODULO(@ + 1), !.rejecting = FALSE]
    BY DEF PeerTakesI
  <2>2. peer' = [peer EXCEPT !.base = Acked(f.nr), !.expect = next, !.rejecting = FALSE]
    BY <1>1, <2>1, Zenon DEF Peer
  <2> HIDE DEF next
  <2> QED BY <1>1, <2>2, SMT DEF Peer
<1>7. received' = Append(received, f.msg)
  BY DEF PeerTakesI
<1>8. link' = link /\ given' = given /\ delivered' = delivered /\ cut' = cut
  BY DEF nodeVars
<1>9. /\ Minus(link.vs, peer.expect) = D(link.vs) - D(peer.expect)
      /\ Unreceived = Run(w + D(peer.expect), n)
  <2>1. D(peer.expect) <= D(link.vs)
    BY <1>1, <1>4, SMT
  <2>2. /\ Minus(link.vs, peer.expect) = D(link.vs) - D(peer.expect)
        /\ [i \in 1 .. Minus(link.vs, peer.expect) |->
              link.txdata_by_ns[AX25MODULO(peer.expect + i - 1)]] \o link.i_frame_queue
             = Run(w + D(peer.expect), Minus(link.vs, peer.expect) + Len(link.i_frame_queue))
    BY <1>1, <1>3, <2>1, Kept
  <2> QED BY <1>1, <2>2 DEF Unreceived
<1> HIDE DEF next
<1>10. /\ Minus(link.vs, next) = D(link.vs) - D(next)
       /\ Unreceived' = Run(w + D(next), Minus(link.vs, next) + l)
  <2>1. D(next) <= D(link.vs)
    BY <1>1, <1>4, <1>5, SMT
  <2>2. /\ Minus(link.vs, next) = D(link.vs) - D(next)
        /\ [i \in 1 .. Minus(link.vs, next) |->
              link.txdata_by_ns[AX25MODULO(next + i - 1)]] \o link.i_frame_queue
             = Run(w + D(next), Minus(link.vs, next) + Len(link.i_frame_queue))
    BY <1>3, <1>5, <2>1, Kept
  <2> QED BY <1>1, <1>6, <1>8, <2>2 DEF Unreceived
<1> DEFINE b == w + D(peer.expect)
           m == Minus(link.vs, next) + l
<1>11. b \in Nat /\ n \in Nat \ {0} /\ w + D(next) = b + 1 /\ m = n - 1
  <2> DEFINE dv == D(link.vs)
             dx == D(peer.expect)
  <2>1. /\ dv \in Nat /\ dx \in Nat /\ dx < dv /\ D(next) = dx + 1
        /\ Minus(link.vs, peer.expect) = dv - dx /\ Minus(link.vs, next) = dv - D(next)
    BY <1>1, <1>4, <1>5, <1>9, <1>10
  <2>2. b = w + dx /\ n = (dv - dx) + l /\ m = (dv - (dx + 1)) + l
    BY <2>1
  <2> HIDE DEF dv, dx, l, n, m, b
  <2> QED BY <1>1, <1>3, <2>1, <2>2, SMT
<1>12. Unreceived = Run(b, n) /\ Unreceived' = Run(b + 1, n - 1) /\ f.msg = b
  BY <1>4, <1>9, <1>10, <1>11
<1>13. UNCHANGED <<peer.next, given, delivered, Peers>>
  BY <1>6, <1>8, PeersStill
<1> HIDE DEF b, n, m
<1> QED BY <1>1, <1>7, <1>11, <1>12, <1>13, ServesDeliver

LEMMA PeerReceiveServes ==
  ASSUME IInv, SettledInv, PeerReceive
  PROVE  [Service!Next]_(Service!vars)
<1> DEFINE f == Head(toPeer)
<1>1. toPeer # <<>> /\ UNCHANGED nodeVars /\ UNCHANGED cut
  BY DEF PeerReceive
<1>2. \/ f.type = "I" /\ peer.state = "connected" /\ PeerTakesI(f)
      \/ PeerTakesS(f)
      \/ PeerTakesU(f) /\ received' = received
      \/ peer' = peer /\ received' = received
  BY DEF PeerReceive, peerVars
<1> HIDE DEF f
<1>3. peer \in Peer
  BY DEF IInv, PeerInv
<1>4. CASE f.type = "I" /\ peer.state = "connected" /\ PeerTakesI(f) /\ f.ns = peer.expect
  BY <1>1, <1>4, PeerTakesServes DEF f
<1>5. ASSUME received' = received, peer'.start = peer.start, peer'.next = peer.next,
             peer'.expect = peer.expect
      PROVE  [Service!Next]_(Service!vars)
  <2>1. link' = link /\ given' = given /\ delivered' = delivered /\ cut' = cut
    BY <1>1 DEF nodeVars
  <2>2. Unreceived' = Unreceived
    BY <1>5, <2>1 DEF Unreceived
  <2>3. UNCHANGED <<peer.next, given, delivered, received, Peers>>
    BY <1>5, <2>1, PeersStill
  <2> QED BY <2>2, <2>3, ServesNothing
<1>6. CASE PeerTakesI(f) /\ f.ns # peer.expect
  <2>1. received' = received /\ peer' = [[peer EXCEPT !.base = Acked(f.nr)] EXCEPT !.rejecting = TRUE]
    BY <1>6 DEF PeerTakesI
  <2>2. peer' = [peer EXCEPT !.base = Acked(f.nr), !.rejecting = TRUE]
    BY <1>3, <2>1, Zenon DEF Peer
  <2>3. peer'.start = peer.start /\ peer'.next = peer.next /\ peer'.expect = peer.expect
    BY <1>3, <2>2, SMT DEF Peer
  <2> QED BY <1>5, <2>1, <2>3
<1>7. CASE PeerTakesS(f)
  <2>1. received' = received /\ (peer' = [peer EXCEPT !.base = Acked(f.nr)] \/ peer' = peer)
    BY <1>7 DEF PeerTakesS
  <2>2. peer'.start = peer.start /\ peer'.next = peer.next /\ peer'.expect = peer.expect
    BY <1>3, <2>1, SMT DEF Peer
  <2> QED BY <1>5, <2>1, <2>2
<1>8. CASE PeerTakesU(f) /\ received' = received
  <2>1. \E state : peer' = [peer EXCEPT !.state = state]
    BY <1>8 DEF PeerTakesU
  <2>2. peer'.start = peer.start /\ peer'.next = peer.next /\ peer'.expect = peer.expect
    BY <1>3, <2>1, SMT DEF Peer
  <2> QED BY <1>5, <1>8, <2>2
<1>9. CASE peer' = peer /\ received' = received
  BY <1>5, <1>9
<1> QED BY <1>2, <1>4, <1>6, <1>7, <1>8, <1>9

\* The peer has forgotten the connection: what we have sent on it is lost.
LEMMA RestartServes ==
  ASSUME IInv, JInv, JInv', RowInv, RowInv', SettledInv, PeerRestart
  PROVE  Service!Next
<1> DEFINE first == CHOOSE m \in peer.next .. peer.next + Segments : m % Period = 0
<1>1. /\ peer' = [state |-> "connecting", start |-> first, base |-> first, next |-> first,
                  expect |-> 0, rejecting |-> FALSE, restarts |-> peer.restarts + 1]
      /\ cut' = Undelivered /\ UNCHANGED nodeVars /\ received' = received
  BY Zenon DEF PeerRestart, PeerEmits
<1>2. /\ PeerInv /\ peer.start \in Nat /\ peer.next \in Nat
      /\ peer.start < peer.next => peer.next <= load[1]
      /\ load[1] \in 0 .. Total
  BY PeerNow DEF IInv
<1>3. first \in Nat /\ peer.next <= first
  <2>1. first \in peer.next .. peer.next + Segments
    BY <1>2, PacketBegins
  <2> HIDE DEF first
  <2> QED BY <1>2, <2>1, DeliveryAssumption, SMT
<1> HIDE DEF first
<1>4. peer'.start = first /\ peer'.next = first
  BY <1>1
<1>5. cut' # NULL
  <2>1. \A m \in peer.start .. peer.next - 1 : m \in Msgs
    BY <1>2, DeliveryAssumption, SMT
  <2>2. cut # NULL => cut \in SUBSET Msgs
    BY <1>2 DEF PeerInv
  <2>3. Undelivered \in SUBSET Msgs
    BY <2>1, <2>2 DEF Undelivered
  <2> QED BY <1>1, <2>3, DeliveryAssumption
<1>6. link' = link /\ delivered' = delivered /\ given' = given
  BY <1>1 DEF nodeVars
<1>7. Peers' = Peers
  <2>1. peer'.start .. peer'.next - 1 = {}
    BY <1>3, <1>4, SMT
  <2>2. Undelivered' = {m \in cut' \cup {} : m \notin Range(delivered)}
    BY <1>5, <1>6, <2>1 DEF Undelivered
  <2>3. \A m \in Undelivered : m \notin Range(delivered)
    BY DEF Undelivered
  <2>4. Undelivered' = Undelivered
    BY <1>1, <2>2, <2>3
  <2> QED BY <2>4 DEF Peers
<1>8. PICK c \in Nat, m \in Nat : Peers = Run(c, m) /\ Peers' = Run(c + 0, m - 0)
  <2>1. PICK s \in Nat, e \in Nat, k \in Nat : TakenInv(s, e, k)
    BY DEF JInv, InboundInv
  <2> DEFINE m == k - e
  <2>2. Peers = Run(e, m) /\ m \in 0 .. 1
    BY <2>1, PeersRow
  <2> HIDE DEF m
  <2>3. m \in Nat /\ e + 0 = e /\ m - 0 = m
    BY <2>2, SMT
  <2> QED BY <1>7, <2>2, <2>3
<1>9. Outstanding' = Len(link'.i_frame_queue)
  <2>1. Outstanding' = 0 + Len(link'.i_frame_queue)
    BY <1>5 DEF Outstanding
  <2>2. Len(link'.i_frame_queue) \in Nat
    BY DEF RowInv
  <2> QED BY <2>1, <2>2, SMT
<1>10. Outstanding' <= Outstanding /\ (link.state = "disconnected" => Outstanding' = 0)
  BY <1>6, <1>9, LessOutstanding DEF SettledInv
<1>11. PICK b \in Nat, k \in 0 .. Outstanding :
         Unreceived = Run(b, Outstanding) /\ Unreceived' = Run(b + k, Outstanding - k)
  BY <1>6, <1>10, OldestDropped
<1>12. 0 \in 0 .. m /\ peer'.next >= peer.next /\ peer'.next \in Nat /\ given \in Nat
       /\ Outstanding \in Nat
  <2>1. given \in Nat /\ Outstanding \in Nat
    BY OutboundFacts DEF RowInv
  <2> QED BY <1>2, <1>3, <1>4, <2>1, SMT
<1> QED BY <1>1, <1>2, <1>6, <1>8, <1>11, <1>12, ServesReconnect

LEMMA OthersServe ==
  ASSUME PeerResend \/ PeerConnectAgain \/ LoseToNode \/ LoseToPeer \/ UNCHANGED vars
  PROVE  UNCHANGED Service!vars
<1>1. /\ link' = link /\ given' = given /\ delivered' = delivered /\ cut' = cut /\ peer' = peer
      /\ received' = received
  BY DEF PeerResend, PeerConnectAgain, LoseToNode, LoseToPeer, vars, PeerIdle, nodeVars, peerVars
<1>2. Unreceived' = Unreceived
  BY <1>1 DEF Unreceived
<1>3. UNCHANGED <<peer.next, given, delivered, received, Peers>>
  BY <1>1, PeersStill
<1> QED BY <1>2, <1>3, ServesNothing

\* Every step is one of LinkService or none.
LEMMA StepServes ==
  ASSUME PeerWindow = 1
  PROVE  IInv /\ JInv /\ RowInv /\ SettledInv /\ JInv' /\ RowInv' /\ [Next]_vars
           => [Service!Next]_(Service!vars)
<1> SUFFICES ASSUME IInv, JInv, RowInv, SettledInv, JInv', RowInv', [Next]_vars
             PROVE  [Service!Next]_(Service!vars)
  OBVIOUS
<1>1. CASE NodeReceive
  BY <1>1, DataServes, ConnectServes
<1>2. CASE NodeSeizeConfirm \/ NodeTransmits \/ NodeTimer
  BY <1>2, OwnEventsGo, NodeServes DEF Goes
<1>3. CASE ClientData
  BY <1>3, GivingServes
<1>4. CASE PeerSend
  BY <1>4, PeerSendServes
<1>5. CASE PeerReceive
  BY <1>5, PeerReceiveServes
<1>6. CASE PeerRestart
  BY <1>6, RestartServes
<1>7. CASE PeerResend \/ PeerConnectAgain \/ LoseToNode \/ LoseToPeer \/ UNCHANGED vars
  BY <1>7, OthersServe
<1> QED BY <1>1, <1>2, <1>3, <1>4, <1>5, <1>6, <1>7 DEF Next

LEMMA InitServes == Init => Service!Init
<1> SUFFICES ASSUME Init PROVE Service!Init
  OBVIOUS
<1> DEFINE L == lm_data_indication(NewLink, UFrame("SABM", "cmd", TRUE))
<1>1. Good(L, TRUE) /\ L.vs = 0 /\ L.i_frame_queue = <<>>
  BY LinkAtFirst
<1>2. /\ link = Fresh(L) /\ given = 0 /\ delivered = <<>> /\ received = <<>> /\ cut = NULL
      /\ peer.start = 0 /\ peer.next = 0 /\ peer.expect = 0
  BY DEF Init
<1> HIDE DEF L
<1>3. link.vs = 0 /\ link.i_frame_queue = <<>>
  BY <1>1, <1>2, SMT DEF Fresh, Fields, Good, Typed
<1>4. Unreceived = <<>>
  <2> DEFINE F(i) == link.txdata_by_ns[AX25MODULO(0 + i - 1)]
  <2>1. Minus(0, 0) = 0
    <3>1. 0 \in SeqNo /\ 0 \in 0 .. Modulo
      BY LinkAssumption, SMT DEF SeqNo
    <3>2. Minus(0, 0) = IF 0 <= 0 THEN 0 - 0 ELSE 0 + Modulo - 0
      BY <3>1, MinusValue
    <3> QED BY <3>2, SMT
  <2>2. Unreceived = [i \in 1 .. 0 |-> F(i)] \o <<>>
    BY <1>2, <1>3, <2>1 DEF Unreceived
  <2> HIDE DEF F
  <2> QED BY <2>2, SMT
<1>5. Peers = <<>>
  <2>1. Undelivered = {}
    <3>1. Undelivered = {m \in {} \cup (0 .. 0 - 1) : m \notin Range(delivered)}
      BY <1>2 DEF Undelivered
    <3>2. 0 .. 0 - 1 = {}
      BY SMT
    <3> QED BY <3>1, <3>2
  <2> QED BY <2>1, AscendingNone DEF Peers
<1>6. /\ Handed = [e \in {"peer", "node"} |-> 0]
      /\ Underway = [e \in {"peer", "node"} |-> <<>>]
      /\ Out = [e \in {"peer", "node"} |-> <<>>]
  <2>1. /\ Handed = [peer |-> 0, node |-> 0]
        /\ Underway = [peer |-> <<>>, node |-> <<>>]
        /\ Out = [peer |-> <<>>, node |-> <<>>]
    BY <1>2, <1>4, <1>5 DEF Handed, Underway, Out
  <2>2. \A c : [peer |-> c, node |-> c] = [e \in {"peer", "node"} |-> c]
    BY SMT
  <2> QED BY <2>1, <2>2
<1> QED BY <1>6, Zenon DEF Service!Init, Handed, Underway, Out, Peers

LEMMA SettledInductive == Spec => []SettledInv
<1>1. Init => SettledInv
  BY InitSettled
<1>2. IInv /\ SettledInv /\ [Next]_vars => SettledInv'
  BY NextSettled
<1> QED BY <1>1, <1>2, Inductive, PTL DEF Spec

\* With such a peer the link is what LinkService promises its clients: every
\* message is handed on once and in its turn, in both directions, and only
\* giving up or a new connection loses any: the newest, or the oldest.  What
\* txdata_by_ns keeps from V(R) of the peer up to V(S) is what was handed over.
THEOREM Serves ==
  ASSUME PeerWindow = 1
  PROVE  Spec => ImplementsService
<1>1. Init => Service!Init
  BY InitServes
<1>2. IInv /\ SettledInv => RowInv
  BY Rows
<1>3. IInv /\ JInv /\ RowInv /\ SettledInv /\ JInv' /\ RowInv' /\ [Next]_vars
        => [Service!Next]_(Service!vars)
  BY StepServes
<1>4. Spec => []JInv
  BY InboundInductive
<1> QED BY <1>1, <1>2, <1>3, <1>4, Inductive, SettledInductive, PTL
        DEF Spec, ImplementsService, Service!Spec
=============================================================================
