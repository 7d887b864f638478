---------------------------- MODULE Ax25Link_proof ----------------------------
(***************************************************************************)
(* What the operators of Ax25Link keep, for every modulus, window size and  *)
(* number of retries, and for every frame the peer may send.                *)
(*                                                                          *)
(* Good(S, owed) is what every one of them keeps: there is a lemma for each, *)
(* and that of a handler follows from those of the operators it calls.      *)
(* Besides the types it says that the slot before V(A) in txdata_by_ns is   *)
(* empty, which is where SET_VA stops freeing frames, that the frame at     *)
(* V(R) is not in rxdata_by_ns, and that a link that waits for the answer   *)
(* to its SABM has nothing left of the old connection.  owed says whether   *)
(* an acknowledgement was owed already, or a null packet was waiting,       *)
(* before the event.  Armed(S), in the last part, is kept by every handler   *)
(* but srej_frame: a link that waits for its peer keeps a timer running.    *)
(***************************************************************************)
EXTENDS Ax25Link, FiniteSetsExt, FiniteSetTheorems, TLAPS

\* The fields of an ax25_dlsm_t.
Fields == {"state", "vs", "va", "vr", "rc", "peer_receiver_busy", "acknowledge_pending",
           "radio_channel_busy", "t1", "t3", "i_frame_queue", "txdata_by_ns",
           "rxdata_by_ns", "out", "up", "seize"}

Slots == [SeqNo -> Msgs \cup {None}]

\* All of the link but the frames it sends and the data it delivers.
Typed(S) ==
  /\ DOMAIN S = Fields
  /\ S.state \in States
  /\ S.vs \in SeqNo /\ S.va \in SeqNo /\ S.vr \in SeqNo
  /\ S.rc \in 0 .. n2_retry
  /\ S.peer_receiver_busy \in BOOLEAN
  /\ S.acknowledge_pending \in BOOLEAN
  /\ S.radio_channel_busy \in BOOLEAN
  /\ S.t1 \in {"stopped", "running", "paused"}
  /\ S.t3 \in {"stopped", "running"}
  /\ S.i_frame_queue \in Seq(Msgs)
  /\ S.txdata_by_ns \in Slots
  /\ S.rxdata_by_ns \in Slots
  /\ S.seize \in Nat

\* WindowKept, of a link.
Windowed(S) ==
  /\ Minus(S.vs, S.va) <= k_maxframe
  /\ \A n \in SeqNo : Minus(n, S.va) < Minus(S.vs, S.va) => S.txdata_by_ns[n] # None

\* It remembers an acknowledgement it has to send.
Owes(S) == S.state \in Up /\ S.acknowledge_pending

Good(S, owed) ==
  /\ Typed(S)
  /\ S.t1 = "paused" => S.radio_channel_busy
  /\ S.rxdata_by_ns[S.vr] = None
  /\ S.txdata_by_ns[Minus(S.va, 1)] = None
  /\ S.state \in Up => Windowed(S)
  /\ S.state = "awaiting_connection" =>
       ~S.acknowledge_pending /\ S.rxdata_by_ns = [n \in SeqNo |-> None]
  /\ Owes(S) => owed \/ S.seize > 0

-----------------------------------------------------------------------------
(* The arithmetic of sequence numbers.                                       *)

LEMMA ModuloValue ==
  ASSUME NEW n \in Nat, n < 3 * Modulo
  PROVE  AX25MODULO(n) = IF n < Modulo THEN n
                         ELSE IF n < 2 * Modulo THEN n - Modulo ELSE n - 2 * Modulo
BY LinkAssumption, SMT DEF AX25MODULO

LEMMA Wrap ==
  ASSUME NEW n \in Nat, n < 2 * Modulo
  PROVE  AX25MODULO(n) = IF n < Modulo THEN n ELSE n - Modulo
BY ModuloValue, LinkAssumption, SMT

LEMMA MinusValue ==
  ASSUME NEW a \in SeqNo, NEW b \in 0 .. Modulo
  PROVE  Minus(a, b) = IF b <= a THEN a - b ELSE a + Modulo - b
BY ModuloValue, LinkAssumption, SMT DEF Minus, SeqNo

LEMMA MinusType ==
  ASSUME NEW a \in SeqNo, NEW b \in 0 .. Modulo
  PROVE  Minus(a, b) \in SeqNo
<1>1. Minus(a, b) = IF b <= a THEN a - b ELSE a + Modulo - b
  BY MinusValue
<1>2. Modulo \in Nat /\ a \in Nat /\ a < Modulo /\ b \in Nat /\ b <= Modulo
  BY LinkAssumption, SMT DEF SeqNo
<1> QED BY <1>1, <1>2, SMT DEF SeqNo

LEMMA Distance ==
  ASSUME NEW a \in SeqNo, NEW b \in SeqNo
  PROVE  Minus(a, b) \in SeqNo /\ Minus(a, b) \in 0 .. Modulo - 1
BY MinusType, LinkAssumption, SMT DEF SeqNo

\* Distances around the ring of sequence numbers.
LEMMA Ring ==
  ASSUME NEW a \in SeqNo, NEW b \in SeqNo, NEW c \in SeqNo, NEW x \in SeqNo,
         Minus(b, a) <= Minus(c, a)
  PROVE  /\ Minus(c, b) = Minus(c, a) - Minus(b, a)
         /\ Minus(x, b) < Minus(c, b) => Minus(x, a) < Minus(c, a)
         /\ Minus(x, b) < Minus(c, b) => Minus(b, a) <= Minus(b, x + 1)
         /\ Minus(b, Minus(b, a) + 1) = Minus(a, 1)
<1>1. /\ a \in 0 .. Modulo /\ b \in 0 .. Modulo /\ c \in 0 .. Modulo /\ x \in 0 .. Modulo
      /\ x + 1 \in 0 .. Modulo /\ 1 \in 0 .. Modulo
  BY LinkAssumption, SMT DEF SeqNo
<1>2. /\ Minus(c, b) = IF b <= c THEN c - b ELSE c + Modulo - b
      /\ Minus(c, a) = IF a <= c THEN c - a ELSE c + Modulo - a
      /\ Minus(b, a) = IF a <= b THEN b - a ELSE b + Modulo - a
      /\ Minus(x, b) = IF b <= x THEN x - b ELSE x + Modulo - b
      /\ Minus(x, a) = IF a <= x THEN x - a ELSE x + Modulo - a
      /\ Minus(b, x + 1) = IF x + 1 <= b THEN b - (x + 1) ELSE b + Modulo - (x + 1)
      /\ Minus(a, 1) = IF 1 <= a THEN a - 1 ELSE a + Modulo - 1
  BY <1>1, MinusValue
<1>3. Minus(b, a) + 1 \in 0 .. Modulo
  BY <1>2, LinkAssumption, SMT DEF SeqNo
<1> DEFINE j == Minus(b, a) + 1
<1>4. Minus(b, j) = IF j <= b THEN b - j ELSE b + Modulo - j
  BY <1>3, MinusValue
<1>5. Minus(b, Minus(b, a) + 1) = Minus(a, 1)
  BY <1>2, <1>4, LinkAssumption, SMT DEF SeqNo
<1>6. /\ Minus(c, b) = Minus(c, a) - Minus(b, a)
      /\ Minus(x, b) < Minus(c, b) => Minus(x, a) < Minus(c, a)
      /\ Minus(x, b) < Minus(c, b) => Minus(b, a) <= Minus(b, x + 1)
  BY <1>2, LinkAssumption, SMT DEF SeqNo
<1> QED BY <1>5, <1>6

-----------------------------------------------------------------------------
(* Small operators.                                                          *)

LEMMA DataRequest ==
  ASSUME NEW S, NEW owed \in BOOLEAN, Good(S, owed), NEW f
  PROVE  Good(lm_data_request(S, f), owed)
BY SMT DEF Good, Typed, Windowed, Owes, lm_data_request, Fields

LEMMA SeizeRequest ==
  ASSUME NEW S, NEW owed \in BOOLEAN, Good(S, owed)
  PROVE  Good(lm_seize_request(S), owed)
BY SMT DEF Good, Typed, Windowed, Owes, lm_seize_request, Fields

LEMMA Timers ==
  ASSUME NEW S, NEW owed \in BOOLEAN, Good(S, owed)
  PROVE  /\ Good(StartT1(S), owed)
         /\ Good(StopT1(S), owed)
         /\ Good(StartT3(S), owed)
         /\ Good(StopT3(S), owed)
<1>1. Good(StartT1(S), owed)
  BY SMT DEF Good, Typed, Windowed, Owes, StartT1, Fields
<1>2. Good(StopT1(S), owed)
  BY SMT DEF Good, Typed, Windowed, Owes, StopT1, Fields
<1>3. Good(StartT3(S), owed)
  BY SMT DEF Good, Typed, Windowed, Owes, StartT3, Fields
<1>4. Good(StopT3(S), owed)
  BY SMT DEF Good, Typed, Windowed, Owes, StopT3, Fields
<1> QED BY <1>1, <1>2, <1>3, <1>4

\* SET_VA leaves an empty slot before the new V(A), and changes little else.
LEMMA VABase ==
  ASSUME NEW S, Typed(S), NEW nr \in SeqNo
  PROVE  LET T == SetVA(S, nr)
         IN  /\ Typed(T)
             /\ T.txdata_by_ns[Minus(nr, 1)] = None
             /\ T.va = nr /\ T.vs = S.vs /\ T.vr = S.vr /\ T.state = S.state
             /\ T.t1 = S.t1 /\ T.t3 = S.t3 /\ T.seize = S.seize
             /\ T.radio_channel_busy = S.radio_channel_busy
             /\ T.acknowledge_pending = S.acknowledge_pending
             /\ T.rxdata_by_ns = S.rxdata_by_ns
<1> DEFINE T == SetVA(S, nr)
           Freed == {x \in SeqNo : \A j \in 1 .. Minus(nr, x + 1) + 1 :
                                     S.txdata_by_ns[Minus(nr, j)] # None}
           Kept == [x \in SeqNo |-> IF x \in Freed THEN None ELSE S.txdata_by_ns[x]]
<1>1. T = [S EXCEPT !.va = nr, !.txdata_by_ns = Kept]
  BY SMT DEF SetVA, Typed, Fields
<1>2. Kept \in Slots
  BY SMT DEF Typed, Slots
<1>3. Kept[Minus(nr, 1)] = None
  <2> DEFINE x == Minus(nr, 1)
  <2>1. x \in SeqNo /\ Minus(nr, x + 1) = 0
    BY MinusValue, LinkAssumption, SMT DEF SeqNo
  <2>2. x \in Freed <=> S.txdata_by_ns[x] # None
    BY <2>1, SMT
  <2> QED BY <2>1, <2>2
<1> HIDE DEF T, Kept
<1>4. Typed(T)
  BY <1>1, <1>2, SMT DEF Typed, Fields
<1> QED BY <1>1, <1>3, <1>4, SMT DEF Typed, Fields, T

LEMMA VA ==
  ASSUME NEW S, NEW owed \in BOOLEAN, Good(S, owed), NEW nr \in SeqNo,
         S.state \in Up => is_good_nr(S, nr)
  PROVE  Good(SetVA(S, nr), owed)
<1> DEFINE T == SetVA(S, nr)
<1>1. ASSUME S.state \in Up PROVE Windowed(T)
  <2>0. /\ S.vs \in SeqNo /\ S.va \in SeqNo
        /\ Minus(nr, S.va) <= Minus(S.vs, S.va)
        /\ Minus(nr, S.va) \in Nat /\ Minus(S.vs, S.va) \in Nat
        /\ k_maxframe \in Nat
    <3>1. S.vs \in SeqNo /\ S.va \in SeqNo
      BY DEF Good, Typed
    <3>2. Minus(nr, S.va) <= Minus(S.vs, S.va)
      BY <1>1 DEF is_good_nr
    <3>3. Minus(nr, S.va) \in 0 .. Modulo - 1 /\ Minus(S.vs, S.va) \in 0 .. Modulo - 1
      BY <3>1, Distance
    <3> QED BY <3>1, <3>2, <3>3, LinkAssumption, SMT
  <2>1. Minus(S.vs, nr) = Minus(S.vs, S.va) - Minus(nr, S.va)
    BY <2>0, Ring
  <2>2. Minus(S.vs, nr) <= k_maxframe
    <3>1. Minus(S.vs, S.va) <= k_maxframe
      BY <1>1 DEF Good, Windowed
    <3> QED BY <2>0, <2>1, <3>1, SMT
  <2>3. ASSUME NEW x \in SeqNo, Minus(x, nr) < Minus(S.vs, nr)
        PROVE  T.txdata_by_ns[x] # None
    <3>1. Minus(x, S.va) < Minus(S.vs, S.va)
      BY <2>0, <2>3, Ring
    <3>2. S.txdata_by_ns[x] # None
      BY <1>1, <3>1 DEF Good, Windowed
    <3> DEFINE j == Minus(nr, S.va) + 1
    <3>3. Minus(nr, S.va) <= Minus(nr, x + 1) /\ Minus(nr, j) = Minus(S.va, 1)
      BY <2>0, <2>3, Ring
    <3>4. Minus(nr, x + 1) \in Nat
      BY MinusType, LinkAssumption, SMT DEF SeqNo
    <3>5. j \in 1 .. Minus(nr, x + 1) + 1
      BY <2>0, <3>3, <3>4, SMT
    <3>6. S.txdata_by_ns[Minus(nr, j)] = None
      BY <3>3 DEF Good
    <3> HIDE DEF j
    <3> QED BY <3>2, <3>5, <3>6, SMT DEF SetVA, Good, Typed, Fields
  <2> QED BY <2>2, <2>3, VABase DEF Windowed, Good
<1> QED BY <1>1, VABase, SMT DEF Good, Owes

\* Nothing is outstanding after a reset.
LEMMA Reset ==
  ASSUME NEW S, NEW owed \in BOOLEAN, Good(S, owed),
         S.rxdata_by_ns = [n \in SeqNo |-> None]
  PROVE  /\ Good(ResetSeq(S), owed) /\ Windowed(ResetSeq(S))
         /\ ResetSeq(S).acknowledge_pending = S.acknowledge_pending
<1> DEFINE Z == [S EXCEPT !.vs = 0]
           T == SetVA(Z, 0)
           U == [T EXCEPT !.vr = 0]
<1>0. 0 \in SeqNo
  BY LinkAssumption, SMT DEF SeqNo
<1>1. /\ Typed(Z) /\ Z.vs = 0 /\ Z.state = S.state /\ Z.t1 = S.t1 /\ Z.seize = S.seize
      /\ Z.radio_channel_busy = S.radio_channel_busy
      /\ Z.acknowledge_pending = S.acknowledge_pending
      /\ Z.rxdata_by_ns = S.rxdata_by_ns
  BY <1>0, SMT DEF Good, Typed, Fields
<1>2. /\ Typed(T) /\ T.vs = 0 /\ T.va = 0 /\ T.state = S.state /\ T.t1 = S.t1 /\ T.seize = S.seize
      /\ T.radio_channel_busy = S.radio_channel_busy
      /\ T.acknowledge_pending = S.acknowledge_pending
      /\ T.rxdata_by_ns = S.rxdata_by_ns
      /\ T.txdata_by_ns[Minus(0, 1)] = None
  <2> HIDE DEF Z
  <2> QED BY <1>0, <1>1, VABase
<1> HIDE DEF T
<1>3. /\ Typed(U) /\ U.vs = 0 /\ U.va = 0 /\ U.vr = 0
      /\ U.state = S.state /\ U.t1 = S.t1 /\ U.seize = S.seize
      /\ U.radio_channel_busy = S.radio_channel_busy
      /\ U.acknowledge_pending = S.acknowledge_pending
      /\ U.rxdata_by_ns = S.rxdata_by_ns
      /\ U.txdata_by_ns[Minus(0, 1)] = None
  BY <1>0, <1>2, SMT DEF Typed, Fields
<1> HIDE DEF U
<1>4. Minus(0, 0) = 0 /\ \A n \in SeqNo : Minus(n, 0) >= 0
  BY <1>0, MinusValue, LinkAssumption, SMT DEF SeqNo
<1>5. Windowed(U)
  <2>1. Minus(U.vs, U.va) = 0 /\ U.va = 0
    BY <1>3, <1>4
  <2>2. 0 <= k_maxframe
    BY LinkAssumption, SMT
  <2>3. \A n \in SeqNo : ~(Minus(n, U.va) < Minus(U.vs, U.va))
    <3> SUFFICES ASSUME NEW n \in SeqNo PROVE ~(Minus(n, 0) < 0)
      BY <2>1
    <3>1. Minus(n, 0) \in 0 .. Modulo - 1
      BY <1>0, Distance
    <3> QED BY <3>1, LinkAssumption, SMT
  <2> QED BY <2>1, <2>2, <2>3 DEF Windowed
<1>6. Good(U, owed)
  BY <1>0, <1>3, <1>5, SMT DEF Good, Owes
<1> QED BY <1>3, <1>5, <1>6 DEF ResetSeq, U, T, Z

\* Nothing is left of the old connection.
Cleared(S) == ~S.acknowledge_pending /\ S.rxdata_by_ns = [n \in SeqNo |-> None]

LEMMA Clear ==
  ASSUME NEW S, NEW owed \in BOOLEAN, Good(S, owed)
  PROVE  LET C == clear_exception_conditions(S)
         IN  Good(C, owed) /\ Cleared(C) /\ C.state = S.state
BY SMT DEF Good, Typed, Windowed, Owes, Fields, Slots, Cleared, clear_exception_conditions

\* The link waits for the answer to its SABM.
LEMMA Awaiting ==
  ASSUME NEW S, NEW owed \in BOOLEAN, Good(S, owed)
  PROVE  Good(GiveUpNr(S), owed) /\ Good(SetUpAnew(S), owed)
<1> DEFINE C == [clear_exception_conditions(S) EXCEPT !.rc = 1]
           R == lm_data_request(C, UFrame("SABM", "cmd", TRUE))
<1>1. Good(C, owed) /\ Cleared(C)
  BY Clear, LinkAssumption, SMT DEF Good, Typed, Windowed, Owes, Fields, Cleared
<1> HIDE DEF C
<1>2. Good(R, owed) /\ Cleared(R)
  BY <1>1, SMT DEF lm_data_request, Cleared, Good, Typed, Windowed, Owes, Fields
<1> HIDE DEF R
<1>3. Good(StopT3(R), owed) /\ Cleared(StopT3(R))
  BY <1>2, SMT DEF StopT3, Cleared, Good, Typed, Windowed, Owes, Fields
<1> DEFINE T == StopT3(R)
<1> HIDE DEF T
<1>4. Good(StartT1(T), owed) /\ Cleared(StartT1(T))
  BY <1>3, SMT DEF StartT1, Cleared, Good, Typed, Windowed, Owes, Fields, T
<1> DEFINE E == StartT1(T)
<1> HIDE DEF E
<1>5. Good(enter_new_state(E, "awaiting_connection"), owed)
  BY <1>4, SMT DEF E, enter_new_state, Cleared, Good, Typed, Windowed, Owes, Fields, States, Up
<1> QED BY <1>5 DEF GiveUpNr, SetUpAnew, nr_error_recovery, establish_data_link, C, R, T, E

LEMMA Responses ==
  ASSUME NEW S, NEW owed \in BOOLEAN, Good(S, owed), NEW f
  PROVE  /\ Good(enquiry_response(S, f), owed)
         /\ Good(transmit_enquiry(S), owed)
         /\ Good(DmResponse(S, f), owed)
<1>1. Good(enquiry_response(S, f), owed)
  BY SMT DEF enquiry_response, lm_data_request, Good, Typed, Windowed, Owes, Fields
<1>2. Good(transmit_enquiry(S), owed)
  BY SMT DEF transmit_enquiry, lm_data_request, StartT1, Good, Typed, Windowed, Owes, Fields
<1>3. Good(DmResponse(S, f), owed)
  BY SMT DEF DmResponse, lm_data_request, Good, Typed, Windowed, Owes, Fields
<1> QED BY <1>1, <1>2, <1>3

LEMMA Queue ==
  ASSUME NEW S, NEW owed \in BOOLEAN, Good(S, owed)
  PROVE  /\ Good(discard_i_queue(S), owed)
         /\ Good(Disconnected(S), owed)
         /\ Good(GiveUp(S), owed)
<1>1. Good(discard_i_queue(S), owed)
  BY SMT DEF discard_i_queue, Good, Typed, Windowed, Owes, Fields
<1>2. Good(Disconnected(S), owed)
  BY SMT DEF Disconnected, StopT1, enter_new_state, discard_i_queue, Good, Typed, Windowed,
             Owes, Fields, States, Up
<1>3. Good(GiveUp(S), owed)
  BY SMT DEF GiveUp, enter_new_state, discard_i_queue, Good, Typed, Windowed, Owes, Fields,
             States, Up
<1> QED BY <1>1, <1>2, <1>3

\* What the window leaves room for.
LEMMA Room ==
  ASSUME NEW vs \in SeqNo, NEW va \in SeqNo, Minus(vs, va) <= k_maxframe,
         NEW n \in Nat, n <= Minus(va + k_maxframe, vs)
  PROVE  /\ Minus(AX25MODULO(vs + n), va) = Minus(vs, va) + n
         /\ AX25MODULO(vs + n) \in SeqNo
         /\ Minus(vs, va) + n <= k_maxframe
         /\ \A x \in SeqNo : Minus(x, va) < Minus(vs, va) + n =>
                             Minus(x, vs) < n \/ Minus(x, va) < Minus(vs, va)
         /\ ~(Minus(Minus(va, 1), vs) < n)
<1>0. /\ k_maxframe \in Nat /\ 1 <= k_maxframe /\ k_maxframe <= Modulo - 1
      /\ Modulo \in Nat /\ 1 < Modulo
      /\ vs \in Nat /\ vs < Modulo /\ va \in Nat /\ va < Modulo
  BY LinkAssumption, SMT DEF SeqNo
<1>1. Minus(vs, va) = IF va <= vs THEN vs - va ELSE vs + Modulo - va
  BY <1>0, MinusValue, SMT
<1>2. Minus(va + k_maxframe, vs) = k_maxframe - Minus(vs, va)
  <2> DEFINE a == va + k_maxframe + Modulo - vs
  <2>1. a \in Nat /\ a < 3 * Modulo
    BY <1>0, SMT
  <2>2. AX25MODULO(a) = IF a < Modulo THEN a
                        ELSE IF a < 2 * Modulo THEN a - Modulo ELSE a - 2 * Modulo
    BY <2>1, ModuloValue
  <2> QED BY <1>0, <1>1, <2>2, SMT DEF Minus
<1>3. AX25MODULO(vs + n) = IF vs + n < Modulo THEN vs + n ELSE vs + n - Modulo
  <2> DEFINE a == vs + n
  <2>1. a \in Nat /\ a < 2 * Modulo
    BY <1>0, <1>1, <1>2, SMT
  <2>2. AX25MODULO(a) = IF a < Modulo THEN a
                        ELSE IF a < 2 * Modulo THEN a - Modulo ELSE a - 2 * Modulo
    BY <1>0, <2>1, ModuloValue, SMT
  <2> QED BY <1>0, <2>1, <2>2, SMT
<1> DEFINE w == AX25MODULO(vs + n)
           y == Minus(va, 1)
<1>4. w \in SeqNo
  BY <1>0, <1>1, <1>2, <1>3, SMT DEF SeqNo
<1>5. Minus(w, va) = IF va <= w THEN w - va ELSE w + Modulo - va
  <2>1. va \in 0 .. Modulo
    BY <1>0, SMT
  <2> QED BY <1>4, <2>1, MinusValue
<1>6. Minus(vs, va) + n <= k_maxframe
  BY <1>0, <1>1, <1>2, SMT
<1>7. Minus(w, va) = Minus(vs, va) + n
  BY <1>0, <1>1, <1>3, <1>5, <1>6, SMT
<1>8. ASSUME NEW x \in SeqNo, Minus(x, va) < Minus(vs, va) + n, ~(Minus(x, vs) < n)
      PROVE  Minus(x, va) < Minus(vs, va)
  <2>1. /\ Minus(x, va) = IF va <= x THEN x - va ELSE x + Modulo - va
        /\ Minus(x, vs) = IF vs <= x THEN x - vs ELSE x + Modulo - vs
    BY <1>0, MinusValue, SMT
  <2> QED BY <1>0, <1>1, <1>6, <1>8, <2>1, SMT DEF SeqNo
<1>9. ~(Minus(y, vs) < n)
  <2>1. y \in SeqNo /\ y = IF 1 <= va THEN va - 1 ELSE va + Modulo - 1
    BY <1>0, MinusValue, MinusType, SMT
  <2>2. Minus(y, vs) = IF vs <= y THEN y - vs ELSE y + Modulo - vs
    BY <1>0, <2>1, MinusValue, SMT
  <2> QED BY <1>0, <1>1, <1>6, <2>1, <2>2, SMT
<1> QED BY <1>4, <1>6, <1>7, <1>8, <1>9

LEMMA Pop ==
  ASSUME NEW S, NEW owed \in BOOLEAN, Good(S, owed)
  PROVE  /\ Good(i_frame_pop_off_queue(S), owed)
         /\ i_frame_pop_off_queue(S).state = S.state
<1> DEFINE room == Minus(S.va + k_maxframe, S.vs)
           n    == IF room < Len(S.i_frame_queue) THEN room ELSE Len(S.i_frame_queue)
           Ns(i) == AX25MODULO(S.vs + i - 1)
           out  == S.out \o [i \in 1 .. n |-> IFrame(S, Ns(i), S.i_frame_queue[i])]
           kept == [x \in SeqNo |-> IF Minus(x, S.vs) < n
                                      THEN S.i_frame_queue[Minus(x, S.vs) + 1]
                                      ELSE S.txdata_by_ns[x]]
           rest == SubSeq(S.i_frame_queue, n + 1, Len(S.i_frame_queue))
           T == [S EXCEPT !.out = out, !.txdata_by_ns = kept, !.i_frame_queue = rest,
                          !.vs = AX25MODULO(@ + n), !.acknowledge_pending = FALSE]
<1>1. CASE S.state \notin Up \/ S.peer_receiver_busy \/ n = 0
  BY <1>1 DEF i_frame_pop_off_queue
<1>2. CASE ~(S.state \notin Up \/ S.peer_receiver_busy \/ n = 0)
  <2>0. /\ S.vs \in SeqNo /\ S.va \in SeqNo /\ S.i_frame_queue \in Seq(Msgs)
        /\ Len(S.i_frame_queue) \in Nat /\ S.state \in Up
        /\ S.txdata_by_ns \in Slots
    BY <1>2, SMT DEF Good, Typed
  <2>1. room \in Nat
    BY <2>0, LinkAssumption, SMT DEF Minus, AX25MODULO, SeqNo
  <2>2. n \in Nat /\ n <= room /\ n <= Len(S.i_frame_queue)
    BY <2>0, <2>1, SMT
  <2>3. Windowed(S)
    BY <2>0 DEF Good
  <2> DEFINE w == AX25MODULO(S.vs + n)
  <2>4. /\ Minus(w, S.va) = Minus(S.vs, S.va) + n /\ w \in SeqNo
        /\ Minus(S.vs, S.va) + n <= k_maxframe
        /\ \A x \in SeqNo : Minus(x, S.va) < Minus(S.vs, S.va) + n =>
                             Minus(x, S.vs) < n \/ Minus(x, S.va) < Minus(S.vs, S.va)
        /\ ~(Minus(Minus(S.va, 1), S.vs) < n)
    <3> HIDE DEF n
    <3> QED BY <2>0, <2>2, <2>3, Room DEF Windowed
  <2>5. rest \in Seq(Msgs)
    BY <2>0, <2>2, SMT
  <2>6. ASSUME NEW x \in SeqNo, Minus(x, S.vs) < n
        PROVE  S.i_frame_queue[Minus(x, S.vs) + 1] \in Msgs
    <3>1. Minus(x, S.vs) \in 0 .. Modulo - 1
      BY <2>0, Distance
    <3>2. Minus(x, S.vs) + 1 \in 1 .. Len(S.i_frame_queue)
      BY <2>0, <2>2, <2>6, <3>1, LinkAssumption, SMT
    <3> HIDE DEF n
    <3> QED BY <2>0, <3>2, SMT
  <2> HIDE DEF n
  <2>7. kept \in Slots /\ \A x \in SeqNo : Minus(x, S.vs) < n => kept[x] # None
    BY <2>0, <2>6, LinkAssumption, SMT DEF Slots
  <2>8. kept[Minus(S.va, 1)] = None
    <3>1. Minus(S.va, 1) \in SeqNo
      BY <2>0, MinusType, LinkAssumption, SMT
    <3>2. S.txdata_by_ns[Minus(S.va, 1)] = None
      BY DEF Good
    <3> QED BY <2>4, <3>1, <3>2
  <2>9. \A x \in SeqNo : Minus(x, S.va) < Minus(w, S.va) => kept[x] # None
    BY <2>3, <2>4, <2>7 DEF Windowed
  <2>10. Minus(w, S.va) <= k_maxframe
    BY <2>4
  <2> HIDE DEF kept, rest, w, out
  <2>11. Good(T, owed) /\ T.state = S.state
    <3>1. T = [S EXCEPT !.out = out, !.txdata_by_ns = kept, !.i_frame_queue = rest,
                        !.vs = w, !.acknowledge_pending = FALSE]
      BY DEF w
    <3>2. Typed(S)
      BY DEF Good
    <3> HIDE DEF T
    <3>3. /\ DOMAIN T = Fields /\ T.txdata_by_ns = kept /\ T.i_frame_queue = rest /\ T.vs = w
          /\ T.acknowledge_pending = FALSE /\ T.state = S.state /\ T.va = S.va /\ T.vr = S.vr
          /\ T.rc = S.rc /\ T.peer_receiver_busy = S.peer_receiver_busy
          /\ T.radio_channel_busy = S.radio_channel_busy /\ T.t1 = S.t1 /\ T.t3 = S.t3
          /\ T.rxdata_by_ns = S.rxdata_by_ns /\ T.seize = S.seize
      BY <3>1, <3>2, SMT DEF Typed, Fields
    <3>4. Typed(T)
      BY <2>4, <2>5, <2>7, <3>2, <3>3 DEF Typed
    <3>5. Windowed(T)
      BY <2>9, <2>10, <3>3 DEF Windowed
    <3> QED BY <2>8, <3>3, <3>4, <3>5 DEF Good, Owes
  <2> HIDE DEF T
  <2>12. Good(StopT3(T), owed) /\ StopT3(T).state = S.state
    BY <2>11, SMT DEF StopT3, Good, Typed, Windowed, Owes, Fields
  <2> DEFINE R == StopT3(T)
  <2> HIDE DEF R
  <2>13. Good(StartT1(R), owed) /\ StartT1(R).state = S.state
    BY <2>12, SMT DEF R, StartT1, Good, Typed, Windowed, Owes, Fields
  <2>14. i_frame_pop_off_queue(S) = StartT1(R)
    BY <1>2 DEF i_frame_pop_off_queue, R, T, n, kept, rest, out
  <2> QED BY <2>13, <2>14
<1> QED BY <1>1, <1>2

LEMMA Sent ==
  ASSUME NEW S, NEW owed \in BOOLEAN, Good(S, owed), NEW o
  PROVE  Good([S EXCEPT !.out = o], owed) /\ [S EXCEPT !.out = o].state = S.state
BY SMT DEF Good, Typed, Windowed, Owes, Fields

LEMMA Resent ==
  ASSUME NEW S, NEW owed \in BOOLEAN, Good(S, owed), NEW nr
  PROVE  Good(Retransmit(S, nr), owed) /\ Retransmit(S, nr).state = S.state
<1> DEFINE T == invoke_retransmission(S, nr)
           Held == {d \in 0 .. Minus(S.vs, nr + 1) :
                      S.txdata_by_ns[AX25MODULO(nr + d)] # None}
           Ns(i) == AX25MODULO(nr + Ascending(Held)[i])
           out == S.out \o [i \in 1 .. Cardinality(Held) |->
                               IFrame(S, Ns(i), S.txdata_by_ns[Ns(i)])]
<1>1. T = S \/ T = [S EXCEPT !.out = out]
  BY DEF invoke_retransmission
<1> HIDE DEF T, out
<1> DEFINE O == [S EXCEPT !.out = out]
<1>a. Good(O, owed) /\ O.state = S.state
  BY Sent
<1>b. T = S \/ T = O
  BY <1>1
<1> HIDE DEF O
<1>2. Good(T, owed) /\ T.state = S.state
  BY <1>a, <1>b
<1>3. Good([StartT1(StopT3(T)) EXCEPT !.acknowledge_pending = FALSE], owed)
      /\ [StartT1(StopT3(T)) EXCEPT !.acknowledge_pending = FALSE].state = S.state
  BY <1>2, SMT DEF StartT1, StopT3, Good, Typed, Windowed, Owes, Fields
<1> QED BY <1>3 DEF Retransmit, T

LEMMA TimersState ==
  ASSUME NEW S, Typed(S)
  PROVE  /\ StartT1(S).state = S.state /\ StopT1(S).state = S.state
         /\ StartT3(S).state = S.state /\ StopT3(S).state = S.state
BY SMT DEF StartT1, StopT1, StartT3, StopT3, Typed, Fields

LEMMA Acknowledged ==
  ASSUME NEW S, NEW owed \in BOOLEAN, Good(S, owed), NEW nr \in SeqNo,
         S.state \in Up => is_good_nr(S, nr)
  PROVE  Good(check_i_frame_ackd(S, nr), owed) /\ check_i_frame_ackd(S, nr).state = S.state
<1> DEFINE V == SetVA(S, nr)
           A == StartT3(V)
           D == StopT1(V)
           R == check_i_frame_ackd(S, nr)
<1>1. Good(V, owed) /\ V.state = S.state
  BY VA, VABase DEF Good
<1>2. R \in {A, StartT1(A), StartT3(D), StartT1(V), S}
  BY DEF check_i_frame_ackd
<1> HIDE DEF V, R
<1>3. Good(A, owed) /\ A.state = S.state /\ Good(D, owed) /\ D.state = S.state
      /\ Good(StartT1(V), owed) /\ StartT1(V).state = S.state
  BY <1>1, Timers, TimersState DEF Good
<1> HIDE DEF A, D
<1>4. Good(StartT1(A), owed) /\ StartT1(A).state = S.state
      /\ Good(StartT3(D), owed) /\ StartT3(D).state = S.state
  BY <1>3, Timers, TimersState DEF Good
<1>5. Good(R, owed) /\ R.state = S.state
  BY <1>2, <1>3, <1>4
<1> QED BY <1>5 DEF R

LEMMA Needed ==
  ASSUME NEW S, NEW owed \in BOOLEAN, Good(S, owed), NEW f
  PROVE  LET R == check_need_for_response(S, f)
         IN  Good(R, owed) /\ R.state = S.state /\ R.vs = S.vs /\ R.va = S.va
<1>1. /\ enquiry_response(S, TRUE).state = S.state /\ enquiry_response(S, TRUE).vs = S.vs
      /\ enquiry_response(S, TRUE).va = S.va
  BY SMT DEF enquiry_response, lm_data_request, Good, Typed, Fields
<1> QED BY <1>1, Responses DEF check_need_for_response

LEMMA BackToConnected ==
  ASSUME NEW S, NEW owed \in BOOLEAN, Good(S, owed), S.state \in Up
  PROVE  Good(CaughtUp(S), owed) /\ CaughtUp(S).state = "connected"
<1>1. 0 \in 0 .. n2_retry
  BY LinkAssumption, SMT
<1> QED BY <1>1, SMT DEF CaughtUp, enter_new_state, StartT3, Good, Typed, Windowed, Owes,
                         Fields, States, Up

-----------------------------------------------------------------------------
(* Received I frames.                                                        *)

\* The frames kept behind ns are the next c ones.
LEMMA Behind ==
  ASSUME NEW S, NEW ns
  PROVE  LET c == Cardinality(KeptBehind(S, ns))
         IN  /\ c \in 0 .. Modulo - 1
             /\ c < Modulo - 1 => S.rxdata_by_ns[AX25MODULO(ns + (c + 1))] = None
             /\ \A i \in 1 .. c : S.rxdata_by_ns[AX25MODULO(ns + i)] # None
<1> DEFINE K == KeptBehind(S, ns)
           Held(i) == S.rxdata_by_ns[AX25MODULO(ns + i)] # None
           c == Cardinality(K)
<1>1. K = {j \in 1 .. Modulo - 1 : \A i \in 1 .. j : Held(i)}
  BY DEF KeptBehind
<1> HIDE DEF K, Held
<1>2. Modulo - 1 \in Nat
  BY LinkAssumption, SMT
<1>3. \A m \in 0 .. Modulo - 1 : IsFiniteSet(1 .. m) /\ Cardinality(1 .. m) = m
  <2> TAKE m \in 0 .. Modulo - 1
  <2>1. IsFiniteSet(1 .. m) /\ Cardinality(1 .. m) = IF 1 > m THEN 0 ELSE m - 1 + 1
    BY <1>2, FS_Interval, SMT
  <2> QED BY <1>2, <2>1, SMT
<1>4. IsFiniteSet(K)
  <2>1. K \subseteq 1 .. Modulo - 1 /\ Modulo - 1 \in 0 .. Modulo - 1
    BY <1>1, <1>2, SMT
  <2> QED BY <1>3, <2>1, FS_Subset
<1>5. c \in 0 .. Modulo - 1
  <2>1. K \subseteq 1 .. Modulo - 1 /\ Modulo - 1 \in 0 .. Modulo - 1
    BY <1>1, <1>2, SMT
  <2>2. c <= Cardinality(1 .. Modulo - 1)
    BY <1>3, <2>1, FS_Subset
  <2>3. c \in Nat
    BY <1>4, FS_CardinalityType
  <2> QED BY <1>2, <1>3, <2>1, <2>2, <2>3, SMT
<1>6. ASSUME NEW j \in 1 .. Modulo - 1, j \in K PROVE j <= c
  <2>1. 1 .. j \subseteq K
    BY <1>1, <1>2, <1>6, SMT
  <2>2. Cardinality(1 .. j) <= c
    BY <1>4, <2>1, FS_Subset
  <2>3. j \in 0 .. Modulo - 1
    BY <1>2, SMT
  <2> QED BY <1>3, <2>2, <2>3
<1>7. ASSUME NEW j \in 1 .. Modulo - 1, j \notin K PROVE c < j
  <2>1. K \subseteq 1 .. j - 1
    BY <1>1, <1>2, <1>7, SMT
  <2>2. j - 1 \in 0 .. Modulo - 1
    BY <1>2, SMT
  <2>3. c <= Cardinality(1 .. j - 1)
    BY <1>3, <2>1, <2>2, FS_Subset
  <2>4. Cardinality(1 .. j - 1) = j - 1
    BY <1>3, <2>2
  <2> HIDE DEF c
  <2> QED BY <1>2, <1>5, <2>3, <2>4, SMT
<1>8. ASSUME c < Modulo - 1 PROVE ~Held(c + 1)
  <2> HIDE DEF c
  <2>1. c + 1 \in 1 .. Modulo - 1 /\ ~(c + 1 <= c)
    BY <1>2, <1>5, <1>8, SMT
  <2>2. c + 1 \notin K
    BY <1>6, <2>1
  <2>3. PICK i \in 1 .. c + 1 : ~Held(i)
    BY <1>1, <2>1, <2>2
  <2>4. CASE i = c + 1
    BY <2>3, <2>4
  <2>5. CASE i # c + 1
    <3>1. i \in 1 .. Modulo - 1 /\ ~(c < i) /\ i \in 1 .. i
      BY <1>2, <1>5, <1>8, <2>3, <2>5, SMT
    <3>2. i \in K
      BY <1>7, <3>1
    <3> QED BY <1>1, <2>3, <3>1, <3>2
  <2> QED BY <2>4, <2>5
<1>9. ASSUME NEW i \in 1 .. c PROVE Held(i)
  <2> HIDE DEF c
  <2>1. i \in 1 .. Modulo - 1 /\ ~(c < i) /\ i \in 1 .. i
    BY <1>2, <1>5, SMT
  <2>2. i \in K
    BY <1>7, <2>1
  <2> QED BY <1>1, <2>1, <2>2
<1> QED BY <1>5, <1>8, <1>9 DEF Held, K

LEMMA InSequence ==
  ASSUME NEW S, NEW owed \in BOOLEAN, Good(S, owed), S.state \in Up,
         NEW f, f.ns \in SeqNo
  PROVE  Good(AcceptInSequence(S, f), owed)
<1> DEFINE c == Cardinality(KeptBehind(S, f.ns))
           up == S.up \o <<f.msg>> \o [i \in 1 .. c |-> S.rxdata_by_ns[AX25MODULO(f.ns + i)]]
           rx == [x \in SeqNo |-> IF Minus(x, f.ns) <= c THEN None ELSE S.rxdata_by_ns[x]]
           vr == AX25MODULO(f.ns + 1 + c)
           D == [S EXCEPT !.up = up, !.rxdata_by_ns = rx, !.vr = vr]
           Q == [D EXCEPT !.acknowledge_pending = TRUE]
<1>1. /\ c \in 0 .. Modulo - 1
      /\ c < Modulo - 1 => S.rxdata_by_ns[AX25MODULO(f.ns + (c + 1))] = None
  BY Behind
<1> HIDE DEF c
<1>2. f.ns + 1 + c \in Nat /\ f.ns + 1 + c < 2 * Modulo /\ f.ns + 1 + c = f.ns + (c + 1)
  BY <1>1, LinkAssumption, SMT DEF SeqNo
<1>3. vr = IF f.ns + 1 + c < Modulo THEN f.ns + 1 + c ELSE (f.ns + 1 + c) - Modulo
  BY <1>2, Wrap
<1>4. vr \in SeqNo
  BY <1>1, <1>3, LinkAssumption, SMT DEF SeqNo
<1>5. rx \in Slots
  BY SMT DEF Good, Typed, Slots
<1>6. rx[vr] = None
  <2>1. CASE c = Modulo - 1
    <3>1. vr = f.ns
      BY <1>1, <1>3, <2>1, LinkAssumption, SMT DEF SeqNo
    <3>2. Minus(f.ns, f.ns) \in 0 .. Modulo - 1
      BY Distance
    <3> QED BY <1>4, <2>1, <3>1, <3>2, LinkAssumption, SMT
  <2>2. CASE c # Modulo - 1
    <3>1. S.rxdata_by_ns[vr] = None
      BY <1>1, <1>2, <2>2, LinkAssumption, SMT
    <3> QED BY <1>4, <3>1
  <2> QED BY <2>1, <2>2
<1> HIDE DEF up, rx, vr
<1>7. Good(D, owed) /\ D.state = S.state
  BY <1>4, <1>5, <1>6, SMT DEF Good, Typed, Windowed, Owes, Fields, Up
<1> HIDE DEF D
<1>8. Good(enquiry_response(D, TRUE), owed)
  BY <1>7, Responses
<1>9. Good(lm_seize_request(Q), owed)
  BY <1>7, SMT DEF lm_seize_request, Good, Typed, Windowed, Owes, Fields, Up
<1>10. AcceptInSequence(S, f) \in {enquiry_response(D, TRUE), lm_seize_request(Q), D}
  <2>1. AcceptInSequence(S, f) = CASE f.pf -> enquiry_response(D, TRUE)
          [] ~f.pf /\ ~D.acknowledge_pending -> lm_seize_request(Q)
          [] OTHER -> D
    BY DEF AcceptInSequence, D, c, up, rx, vr
  <2> QED BY <2>1
<1> QED BY <1>7, <1>8, <1>9, <1>10

LEMMA OutOfSequence ==
  ASSUME NEW S, NEW owed \in BOOLEAN, Good(S, owed), S.state \in Up,
         NEW f, f.ns \in SeqNo, f.ns # S.vr, f.msg \in Msgs
  PROVE  Good(KeepOutOfSequence(S, f), owed)
<1> DEFINE K == [S EXCEPT !.rxdata_by_ns[f.ns] = f.msg]
<1>1. Good(K, owed)
  BY SMT DEF Good, Typed, Windowed, Owes, Fields, Slots, Up
<1> HIDE DEF K
<1>2. ASSUME NEW first, NEW count PROVE Good(send_srej_frames(K, first, count), owed)
  <2> DEFINE Nr(i) == AX25MODULO(first + i - 1)
             out == K.out \o [i \in 1 .. count |-> SFrame("SREJ", "res", Nr(i) = K.vr, Nr(i))]
             ack == K.acknowledge_pending /\ K.vr \notin {Nr(i) : i \in 1 .. count}
  <2>1. ack \in BOOLEAN /\ (ack => K.acknowledge_pending)
    OBVIOUS
  <2>2. send_srej_frames(K, first, count) = [K EXCEPT !.out = out, !.acknowledge_pending = ack]
    BY <1>1 DEF send_srej_frames, Good, Typed, Fields
  <2> HIDE DEF out, ack
  <2>3. Good([K EXCEPT !.out = out, !.acknowledge_pending = ack], owed)
    BY <1>1, <2>1, SMT DEF Good, Typed, Windowed, Owes, Fields
  <2> QED BY <2>2, <2>3
<1>3. Good(enquiry_response(K, TRUE), owed)
  BY <1>1, Responses
<1> QED BY <1>1, <1>2, <1>3 DEF KeepOutOfSequence, K

LEMMA Received ==
  ASSUME NEW S, NEW owed \in BOOLEAN, Good(S, owed), S.state \in Up,
         NEW f, f.ns \in SeqNo, f.msg \in Msgs
  PROVE  Good(i_frame_continued(S, f), owed)
<1>1. CASE f.ns = S.vr
  <2>1. i_frame_continued(S, f) = AcceptInSequence(S, f)
    BY <1>1 DEF i_frame_continued
  <2> QED BY <2>1, InSequence
<1>2. CASE f.ns # S.vr
  <2>1. i_frame_continued(S, f) \in {KeepOutOfSequence(S, f), enquiry_response(S, TRUE), S}
    BY <1>2 DEF i_frame_continued
  <2> QED BY <1>2, <2>1, OutOfSequence, Responses
<1> QED BY <1>1, <1>2

LEMMA IFrameReceived ==
  ASSUME NEW S, NEW owed \in BOOLEAN, Good(S, owed),
         NEW f, f.nr \in SeqNo, f.ns \in SeqNo, f.msg \in Msgs
  PROVE  Good(i_frame(S, f), owed)
<1> DEFINE A == check_i_frame_ackd(S, f.nr)
           C == CaughtUp(StopT1(A))
<1>1. i_frame(S, f) \in {DmResponse(S, f.pf), S} \/ S.state \in Up
  BY DEF i_frame
<1>2. CASE i_frame(S, f) \in {DmResponse(S, f.pf), S}
  BY <1>2, Responses
<1>3. CASE S.state \in Up
  <2>1. S.state # "disconnected"
    BY <1>3 DEF Up
  <2>2. CASE ~is_good_nr(S, f.nr)
    <3>1. i_frame(S, f) = GiveUpNr(S)
      BY <1>3, <2>1, <2>2 DEF i_frame
    <3> QED BY <3>1, Awaiting
  <2>3. CASE is_good_nr(S, f.nr)
    <3>1. Good(A, owed) /\ A.state \in Up
      BY <1>3, <2>3, Acknowledged
    <3>2. i_frame(S, f) \in {i_frame_continued(C, f), i_frame_continued(A, f)}
      BY <1>3, <2>1, <2>3 DEF i_frame
    <3> HIDE DEF A
    <3>3. Good(StopT1(A), owed) /\ StopT1(A).state \in Up
      BY <3>1, Timers, TimersState DEF Good
    <3>4. Good(C, owed) /\ C.state \in Up
      BY <3>3, BackToConnected DEF Up
    <3> HIDE DEF C
    <3>5. Good(i_frame_continued(C, f), owed) /\ Good(i_frame_continued(A, f), owed)
      BY <3>1, <3>4, Received
    <3> QED BY <3>2, <3>5
  <2> QED BY <2>2, <2>3
<1> QED BY <1>1, <1>2, <1>3

-----------------------------------------------------------------------------
(* Received supervisory frames.                                              *)

LEMMA PeerReady ==
  ASSUME NEW S, NEW owed \in BOOLEAN, Good(S, owed), NEW busy \in BOOLEAN
  PROVE  LET B == [S EXCEPT !.peer_receiver_busy = busy]
         IN  Good(B, owed) /\ B.state = S.state /\ B.vs = S.vs /\ B.va = S.va
BY SMT DEF Good, Typed, Windowed, Owes, Fields

LEMMA StoppedT1 ==
  ASSUME NEW S, NEW owed \in BOOLEAN, Good(S, owed)
  PROVE  /\ Good(StopT1(S), owed) /\ StopT1(S).state = S.state
         /\ StopT1(S).vs = S.vs /\ StopT1(S).va = S.va
<1>1. Good(StopT1(S), owed)
  BY Timers
<1>2. /\ StopT1(S).state = S.state /\ StopT1(S).vs = S.vs /\ StopT1(S).va = S.va
  BY SMT DEF Good, Typed, Fields, StopT1
<1> QED BY <1>1, <1>2

LEMMA NewVA ==
  ASSUME NEW S, NEW owed \in BOOLEAN, Good(S, owed), S.state \in Up, NEW nr \in SeqNo,
         NEW vs, NEW va, S.vs = vs, S.va = va, Minus(nr, va) <= Minus(vs, va)
  PROVE  Good(SetVA(S, nr), owed) /\ SetVA(S, nr).state = S.state
<1>1. is_good_nr(S, nr)
  BY DEF is_good_nr
<1> QED BY <1>1, VA, VABase DEF Good

LEMMA Answered ==
  ASSUME NEW S, NEW owed \in BOOLEAN, Good(S, owed), S.state \in Up, NEW nr \in SeqNo
  PROVE  Good(EnquiryAnswered(S, nr), owed)
<1> DEFINE P == StopT1(S)
           A == SetVA(P, nr)
<1>1. Good(P, owed) /\ P.state \in Up /\ P.vs = S.vs /\ P.va = S.va
  BY StoppedT1
<1> HIDE DEF P
<1>2. CASE ~is_good_nr(S, nr)
  <2>1. EnquiryAnswered(S, nr) = GiveUpNr(P)
    BY <1>2 DEF EnquiryAnswered, P
  <2> QED BY <1>1, <2>1, Awaiting
<1>3. CASE is_good_nr(S, nr)
  <2>1. Good(A, owed) /\ A.state \in Up
    BY <1>1, <1>3, NewVA DEF is_good_nr
  <2>2. EnquiryAnswered(S, nr) \in {CaughtUp(A), Retransmit(A, nr)}
    BY <1>3 DEF EnquiryAnswered, P
  <2> HIDE DEF A
  <2> QED BY <2>1, <2>2, BackToConnected, Resent
<1> QED BY <1>2, <1>3

\* What RR, RNR and REJ have in common: the state of the peer is noted, a command
\* that asks for it is answered, and V(A) is set from a good N(R).
LEMMA Noted ==
  ASSUME NEW S, NEW owed \in BOOLEAN, Good(S, owed), NEW busy \in BOOLEAN,
         NEW f, f.nr \in SeqNo
  PROVE  LET B == [S EXCEPT !.peer_receiver_busy = busy]
             R == check_need_for_response(B, f)
             A == SetVA(R, f.nr)
         IN  /\ Good(B, owed) /\ B.state = S.state
             /\ Good(R, owed) /\ R.state = S.state
             /\ S.state \in Up /\ is_good_nr(R, f.nr) => Good(A, owed) /\ A.state = S.state
<1> DEFINE B == [S EXCEPT !.peer_receiver_busy = busy]
           R == check_need_for_response(B, f)
           A == SetVA(R, f.nr)
<1>1. Good(B, owed) /\ B.state = S.state
  BY PeerReady
<1> HIDE DEF B
<1>2. Good(R, owed) /\ R.state = S.state
  BY <1>1, Needed
<1> HIDE DEF R
<1>3. ASSUME S.state \in Up, is_good_nr(R, f.nr) PROVE Good(A, owed) /\ A.state = S.state
  BY <1>2, <1>3, VA, VABase DEF Good
<1> QED BY <1>1, <1>2, <1>3 DEF B, R

LEMMA ReadyReceived ==
  ASSUME NEW S, NEW owed \in BOOLEAN, Good(S, owed), NEW ready \in BOOLEAN,
         NEW f, f.nr \in SeqNo
  PROVE  Good(rr_rnr_frame(S, ready, f), owed)
<1> DEFINE B == [S EXCEPT !.peer_receiver_busy = ~ready]
           R == check_need_for_response(B, f)
           A == SetVA(R, f.nr)
           Result == rr_rnr_frame(S, ready, f)
<1>1. /\ Good(B, owed) /\ B.state = S.state
      /\ Good(R, owed) /\ R.state = S.state
      /\ S.state \in Up /\ is_good_nr(R, f.nr) => Good(A, owed) /\ A.state = S.state
  <2>1. (~ready) \in BOOLEAN
    OBVIOUS
  <2> QED BY <2>1, Noted
<1>2. CASE S.state = "disconnected"
  <2>1. Result \in {DmResponse(S, f.pf), S}
    BY <1>2 DEF rr_rnr_frame
  <2> QED BY <2>1, Responses
<1>3. CASE S.state = "connected"
  <2>1. Result = IF is_good_nr(R, f.nr) THEN check_i_frame_ackd(R, f.nr) ELSE GiveUpNr(R)
    BY <1>3 DEF rr_rnr_frame
  <2> HIDE DEF R
  <2> QED BY <1>1, <2>1, Acknowledged, Awaiting
<1>4. CASE S.state = "timer_recovery"
  <2>1. \/ Result = EnquiryAnswered(B, f.nr)
        \/ ~is_good_nr(R, f.nr) /\ Result = GiveUpNr(R)
        \/ is_good_nr(R, f.nr) /\ Result \in {CaughtUp(StopT1(A)), A}
    BY <1>4 DEF rr_rnr_frame
  <2> HIDE DEF A, R, B, Result
  <2>2. ASSUME is_good_nr(R, f.nr) PROVE Good(A, owed) /\ Good(CaughtUp(StopT1(A)), owed)
    <3>1. Good(A, owed) /\ A.state \in Up
      BY <1>1, <1>4, <2>2 DEF Up
    <3>2. Good(StopT1(A), owed) /\ StopT1(A).state \in Up
      BY <3>1, StoppedT1
    <3> QED BY <3>1, <3>2, BackToConnected
  <2>3. Good(EnquiryAnswered(B, f.nr), owed)
    BY <1>1, <1>4, Answered DEF Up
  <2> QED BY <1>1, <2>1, <2>2, <2>3, Awaiting DEF Result
<1>5. CASE S.state \notin {"disconnected", "connected", "timer_recovery"}
  <2>1. Result = S
    BY <1>5 DEF rr_rnr_frame
  <2> QED BY <2>1
<1> QED BY <1>2, <1>3, <1>4, <1>5

LEMMA RejectReceived ==
  ASSUME NEW S, NEW owed \in BOOLEAN, Good(S, owed), NEW f, f.nr \in SeqNo
  PROVE  Good(rej_frame(S, f), owed)
<1> DEFINE B == [S EXCEPT !.peer_receiver_busy = FALSE]
           R == check_need_for_response(B, f)
           A == SetVA(R, f.nr)
           Result == rej_frame(S, f)
<1>1. /\ Good(B, owed) /\ B.state = S.state
      /\ Good(R, owed) /\ R.state = S.state
      /\ S.state \in Up /\ is_good_nr(R, f.nr) => Good(A, owed) /\ A.state = S.state
  BY Noted
<1>2. CASE S.state = "disconnected"
  <2>1. Result \in {DmResponse(S, f.pf), S}
    BY <1>2 DEF rej_frame
  <2> QED BY <2>1, Responses
<1>3. CASE S.state \in Up
  <2>1. \/ Result = EnquiryAnswered(B, f.nr)
        \/ Result = GiveUpNr(R)
        \/ is_good_nr(R, f.nr)
             /\ Result \in {Retransmit(StopT1(A), f.nr), Retransmit(A, f.nr), A}
    BY <1>3 DEF rej_frame, Up
  <2> HIDE DEF A, R, B, Result
  <2>2. ASSUME is_good_nr(R, f.nr)
        PROVE  Good(A, owed) /\ Good(Retransmit(A, f.nr), owed)
               /\ Good(Retransmit(StopT1(A), f.nr), owed)
    <3>1. Good(A, owed) /\ Good(StopT1(A), owed)
      BY <1>1, <1>3, <2>2, StoppedT1
    <3> QED BY <3>1, Resent
  <2>3. Good(EnquiryAnswered(B, f.nr), owed)
    BY <1>1, <1>3, Answered
  <2> QED BY <1>1, <2>1, <2>2, <2>3, Awaiting DEF Result
<1>4. CASE S.state \notin {"disconnected", "connected", "timer_recovery"}
  <2>1. Result = S
    BY <1>4 DEF rej_frame
  <2> QED BY <2>1
<1> QED BY <1>2, <1>3, <1>4 DEF Up

LEMMA ResentAsAsked ==
  ASSUME NEW S, NEW owed \in BOOLEAN, Good(S, owed), NEW f
  PROVE  Good(resend_for_srej(S, f), owed)
<1> DEFINE Asked == SelectSeq(<<f.nr>> \o (IF f.msg = None THEN <<>> ELSE f.msg),
                              LAMBDA x : S.txdata_by_ns[x] # None)
           out == S.out \o [i \in 1 .. Len(Asked) |->
                               IFrame(S, Asked[i], S.txdata_by_ns[Asked[i]])]
           T == [S EXCEPT !.out = out]
           R == [StartT1(StopT3(T)) EXCEPT !.acknowledge_pending = FALSE]
<1>1. resend_for_srej(S, f) = S \/ resend_for_srej(S, f) = R
  BY DEF resend_for_srej
<1> HIDE DEF out
<1>2. Good(T, owed)
  BY Sent
<1> HIDE DEF T
<1>3. Good(R, owed)
  BY <1>2, SMT DEF StartT1, StopT3, Good, Typed, Windowed, Owes, Fields
<1> QED BY <1>1, <1>3

LEMMA SelectiveRejectReceived ==
  ASSUME NEW S, NEW owed \in BOOLEAN, Good(S, owed), NEW f, f.nr \in SeqNo
  PROVE  Good(srej_frame(S, f), owed)
<1> DEFINE P == [S EXCEPT !.peer_receiver_busy = FALSE]
           B == StopT1(P)
           A == IF f.pf THEN SetVA(B, f.nr) ELSE B
           Result == srej_frame(S, f)
<1>1. Good(P, owed) /\ P.state = S.state /\ P.vs = S.vs /\ P.va = S.va
  BY PeerReady
<1> HIDE DEF P
<1>2. Good(B, owed) /\ B.state = S.state /\ B.vs = S.vs /\ B.va = S.va
  BY <1>1, StoppedT1
<1> HIDE DEF B
<1>3. ASSUME S.state \in Up, is_good_nr(S, f.nr) PROVE Good(A, owed) /\ A.state = S.state
  <2>1. Good(SetVA(B, f.nr), owed) /\ SetVA(B, f.nr).state = S.state
    BY <1>2, <1>3, NewVA DEF is_good_nr
  <2> QED BY <1>2, <2>1
<1>4. CASE S.state \in Up
  <2>1. \/ Result \in {GiveUpNr(P), GiveUpNr(B)}
        \/ is_good_nr(S, f.nr)
             /\ Result \in {resend_for_srej(StartT3(A), f), CaughtUp(A), resend_for_srej(A, f)}
    BY <1>4 DEF srej_frame, Up, P, B
  <2> HIDE DEF A, Result
  <2>2. ASSUME is_good_nr(S, f.nr)
        PROVE  /\ Good(resend_for_srej(StartT3(A), f), owed)
               /\ Good(CaughtUp(A), owed) /\ Good(resend_for_srej(A, f), owed)
    <3>1. Good(A, owed) /\ A.state \in Up
      BY <1>3, <1>4, <2>2
    <3>2. Good(StartT3(A), owed)
      BY <3>1, Timers
    <3> QED BY <3>1, <3>2, ResentAsAsked, BackToConnected
  <2>3. Good(GiveUpNr(P), owed) /\ Good(GiveUpNr(B), owed)
    BY <1>1, <1>2, Awaiting
  <2> QED BY <2>1, <2>2, <2>3 DEF Result
<1>5. CASE S.state \notin Up
  <2>1. Result = S
    BY <1>5 DEF srej_frame, Up
  <2> QED BY <2>1
<1> QED BY <1>4, <1>5

-----------------------------------------------------------------------------
(* Received unnumbered frames.                                               *)

LEMMA Connecting ==
  ASSUME NEW S, NEW owed \in BOOLEAN, Good(S, owed), Cleared(S)
  PROVE  Good(Connected(S), owed)
<1> DEFINE T == StartT3(S)
           R == ResetSeq(T)
<1>1. Good(T, owed) /\ Cleared(T)
  BY SMT DEF StartT3, Cleared, Good, Typed, Windowed, Owes, Fields
<1> HIDE DEF T
<1>2. Good(R, owed) /\ Windowed(R) /\ ~R.acknowledge_pending
  BY <1>1, Reset DEF Cleared
<1> HIDE DEF R
<1>3. 0 \in 0 .. n2_retry
  BY LinkAssumption, SMT
<1>4. Good(enter_new_state([R EXCEPT !.rc = 0], "connected"), owed)
  BY <1>2, <1>3, SMT DEF enter_new_state, Good, Typed, Windowed, Owes, Fields, States
<1> QED BY <1>4 DEF Connected, R, T

LEMMA ClearedStays ==
  ASSUME NEW S, NEW owed \in BOOLEAN, Good(S, owed), Cleared(S)
  PROVE  /\ Good(StopT1(S), owed) /\ Cleared(StopT1(S))
         /\ Good(discard_i_queue(S), owed) /\ Cleared(discard_i_queue(S))
<1>1. Cleared(StopT1(S)) /\ Cleared(discard_i_queue(S))
  BY SMT DEF StopT1, discard_i_queue, Cleared, Good, Typed, Fields
<1> QED BY <1>1, Timers, Queue

LEMMA Answering ==
  ASSUME NEW S, NEW owed \in BOOLEAN, Good(S, owed), NEW type, NEW f
  PROVE  Good(Answer(S, type, f), owed) /\ Answer(S, type, f).state = S.state
<1>1. Good(Answer(S, type, f), owed)
  BY DataRequest DEF Answer
<1>2. Answer(S, type, f).state = S.state
  BY SMT DEF Answer, lm_data_request, Good, Typed, Fields
<1> QED BY <1>1, <1>2

LEMMA UnnumberedReceived ==
  ASSUME NEW S, NEW owed \in BOOLEAN, Good(S, owed), NEW f
  PROVE  /\ Good(sabm_frame(S, f), owed)
         /\ Good(disc_frame(S, f), owed)
         /\ Good(dm_frame(S, f), owed)
         /\ Good(ua_frame(S, f), owed)
         /\ Good(frmr_frame(S), owed)
         /\ Good(ui_frame(S, f), owed)
<1>1. Good(sabm_frame(S, f), owed)
  <2> DEFINE A == Answer(S, "UA", f)
             C == clear_exception_conditions(A)
             D == IF C.vs # C.va THEN discard_i_queue(C) ELSE C
             Result == sabm_frame(S, f)
  <2>1. Result \in {Connected(C), A, Connected(StopT1(D))}
    BY DEF sabm_frame
  <2>2. Good(A, owed)
    BY Answering
  <2> HIDE DEF A, Result
  <2>3. Good(C, owed) /\ Cleared(C)
    BY <2>2, Clear
  <2> HIDE DEF C
  <2>4. Good(D, owed) /\ Cleared(D)
    BY <2>3, ClearedStays
  <2> HIDE DEF D
  <2>5. Good(StopT1(D), owed) /\ Cleared(StopT1(D))
    BY <2>4, ClearedStays
  <2>6. Good(Connected(C), owed) /\ Good(Connected(StopT1(D)), owed)
    BY <2>3, <2>5, Connecting
  <2> QED BY <2>1, <2>2, <2>6 DEF Result
<1>2. Good(disc_frame(S, f), owed)
  <2>1. disc_frame(S, f) \in {StopT3(Disconnected(Answer(S, "UA", f))), Answer(S, "DM", f)}
    BY DEF disc_frame
  <2>2. Good(Answer(S, "UA", f), owed) /\ Good(Answer(S, "DM", f), owed)
    BY Answering
  <2>3. Good(Disconnected(Answer(S, "UA", f)), owed)
    BY <2>2, Queue
  <2>4. Good(StopT3(Disconnected(Answer(S, "UA", f))), owed)
    BY <2>3, Timers
  <2> QED BY <2>1, <2>2, <2>4
<1>3. Good(dm_frame(S, f), owed)
  <2>1. dm_frame(S, f) \in {Disconnected(S), StopT3(Disconnected(S)), S}
    BY DEF dm_frame
  <2>2. Good(Disconnected(S), owed)
    BY Queue
  <2>3. Good(StopT3(Disconnected(S)), owed)
    BY <2>2, Timers
  <2> QED BY <2>1, <2>2, <2>3
<1>4. Good(ua_frame(S, f), owed)
  <2>1. \/ S.state = "awaiting_connection" /\ ua_frame(S, f) = Connected(StopT1(S))
        \/ ua_frame(S, f) \in {SetUpAnew(S), S}
    BY DEF ua_frame
  <2>2. ASSUME S.state = "awaiting_connection" PROVE Good(Connected(StopT1(S)), owed)
    <3>1. Cleared(S)
      BY <2>2 DEF Good, Cleared
    <3>2. Good(StopT1(S), owed) /\ Cleared(StopT1(S))
      BY <3>1, ClearedStays
    <3> QED BY <3>2, Connecting
  <2> QED BY <2>1, <2>2, Awaiting
<1>5. Good(frmr_frame(S), owed)
  BY Awaiting DEF frmr_frame
<1>6. Good(ui_frame(S, f), owed)
  <2>1. ui_frame(S, f) \in {S, enquiry_response(S, TRUE), Answer(S, "DM", f)}
    BY DEF ui_frame
  <2> QED BY <2>1, Responses, Answering
<1> QED BY <1>1, <1>2, <1>3, <1>4, <1>5, <1>6

-----------------------------------------------------------------------------
(* The events of the receive loop.                                           *)

LEMMA FreshLink ==
  ASSUME NEW S, NEW owed \in BOOLEAN, Good(S, TRUE), Owes(S) => owed
  PROVE  Good(Fresh(S), owed) /\ Fresh(S).state = S.state
BY SMT DEF Fresh, Good, Typed, Windowed, Owes, Fields

LEMMA Seized ==
  ASSUME NEW S, NEW owed \in BOOLEAN, Good(S, owed)
  PROVE  Good(SeizeForQueue(S), owed)
<1>1. SeizeForQueue(S) \in {lm_seize_request(S), S}
  BY DEF SeizeForQueue
<1> QED BY <1>1, SeizeRequest

LEMMA Dispatched ==
  ASSUME NEW S, NEW owed \in BOOLEAN, Good(S, owed),
         NEW f, f.type \in FrameTypes, f.nr \in SeqNo, f.ns \in SeqNo,
         f.type = "I" => f.msg \in Msgs
  PROVE  Good(Dispatch(S, f), owed)
<1>1. \/ f.type = "I" /\ Dispatch(S, f) = i_frame(S, f)
      \/ Dispatch(S, f) = rr_rnr_frame(S, TRUE, f)
      \/ Dispatch(S, f) = rr_rnr_frame(S, FALSE, f)
      \/ Dispatch(S, f) = rej_frame(S, f)
      \/ Dispatch(S, f) = srej_frame(S, f)
      \/ Dispatch(S, f) \in {sabm_frame(S, f), disc_frame(S, f), dm_frame(S, f),
                            ua_frame(S, f), frmr_frame(S), ui_frame(S, f)}
  BY DEF Dispatch, FrameTypes
<1>2. f.type = "I" => Good(i_frame(S, f), owed)
  BY IFrameReceived
<1>3. Good(rr_rnr_frame(S, TRUE, f), owed) /\ Good(rr_rnr_frame(S, FALSE, f), owed)
  BY ReadyReceived
<1>4. Good(rej_frame(S, f), owed) /\ Good(srej_frame(S, f), owed)
  BY RejectReceived, SelectiveRejectReceived
<1> QED BY <1>1, <1>2, <1>3, <1>4, UnnumberedReceived

\* A frame that ax25_frame_type can make sense of.
Receivable(f) ==
  /\ DOMAIN f = {"type", "cr", "pf", "nr", "ns", "msg"}
  /\ f.type \in FrameTypes /\ f.pf \in BOOLEAN /\ f.nr \in SeqNo /\ f.ns \in SeqNo
  /\ f.type = "I" => f.msg \in Msgs

LEMMA DataIndication ==
  ASSUME NEW S, NEW owed \in BOOLEAN, Good(S, TRUE), Owes(S) => owed,
         NEW f, Receivable(f)
  PROVE  Good(lm_data_indication(S, f), owed)
<1> DEFINE F == Fresh(S)
           L == get_link_handle(F, f)
           g == ax25_frame_type(f)
<1>1. Good(F, owed)
  BY FreshLink
<1> HIDE DEF F
<1>2. Good(L, owed)
  <2>1. Good([F EXCEPT !.state = "disconnected"], owed)
    BY <1>1, SMT DEF Good, Typed, Windowed, Owes, Fields, States, Up
  <2> QED BY <1>1, <2>1 DEF get_link_handle
<1> HIDE DEF L
<1>3. /\ g.type \in FrameTypes /\ g.nr \in SeqNo /\ g.ns \in SeqNo
      /\ g.type = "I" => g.msg \in Msgs
  BY SMT DEF ax25_frame_type, Receivable
<1> HIDE DEF g
<1>4. Good(Dispatch(L, g), owed)
  BY <1>2, <1>3, Dispatched
<1>5. Good(SeizeForQueue(Dispatch(L, g)), owed)
  BY <1>4, Seized
<1> QED BY <1>2, <1>5 DEF lm_data_indication, L, F, g

LEMMA SeizeConfirmed ==
  ASSUME NEW S, NEW owed \in BOOLEAN, Good(S, TRUE), Owes(S) => owed
  PROVE  Good(lm_seize_confirm(S), owed) /\ ~Owes(lm_seize_confirm(S))
<1> DEFINE F == Fresh(S)
           P == i_frame_pop_off_queue(F)
           E == enquiry_response(P, FALSE)
<1>1. Good(F, owed) /\ F.state = S.state
  BY FreshLink
<1>2. Good(P, owed)
  <2> HIDE DEF F
  <2> QED BY <1>1, Pop
<1>3. Good(E, owed) /\ ~E.acknowledge_pending
  <2> HIDE DEF P
  <2>1. ~E.acknowledge_pending
    BY <1>2, SMT DEF enquiry_response, lm_data_request, Good, Typed, Fields
  <2> QED BY <1>2, <2>1, Responses
<1>4. \/ S.state \notin Up /\ lm_seize_confirm(S) = F
      \/ lm_seize_confirm(S) = E
      \/ ~P.acknowledge_pending /\ lm_seize_confirm(S) = P
  BY DEF lm_seize_confirm
<1> HIDE DEF F, P, E
<1> QED BY <1>1, <1>2, <1>3, <1>4 DEF Owes

LEMMA CarrierSeen ==
  ASSUME NEW S, NEW owed \in BOOLEAN, Good(S, TRUE), Owes(S) => owed, NEW busy \in BOOLEAN
  PROVE  Good(lm_channel_busy(S, busy), owed)
<1> DEFINE F == Fresh(S)
           L == [F EXCEPT !.radio_channel_busy = busy]
<1>1. Good(F, owed)
  BY FreshLink
<1>2. \/ lm_channel_busy(S, busy) = F
      \/ busy /\ lm_channel_busy(S, busy) = PauseT1(L)
      \/ ~busy /\ lm_channel_busy(S, busy) = ResumeT1(L)
  BY DEF lm_channel_busy
<1> HIDE DEF F
<1>3. busy => Good(PauseT1(L), owed)
  BY <1>1, SMT DEF PauseT1, Good, Typed, Windowed, Owes, Fields
<1>4. ~busy => Good(ResumeT1(L), owed)
  BY <1>1, SMT DEF ResumeT1, Good, Typed, Windowed, Owes, Fields
<1> QED BY <1>1, <1>2, <1>3, <1>4

LEMMA Enquiring ==
  ASSUME NEW S, NEW owed \in BOOLEAN, Good(S, owed), S.state = "connected"
  PROVE  Good(Enquire(S), owed)
<1> DEFINE C == [S EXCEPT !.rc = 1]
           T == transmit_enquiry(C)
<1>1. 1 \in 0 .. n2_retry
  BY LinkAssumption, SMT
<1>2. Good(C, owed) /\ C.state = "connected"
  BY <1>1, SMT DEF Good, Typed, Windowed, Owes, Fields
<1> HIDE DEF C
<1>3. Good(T, owed) /\ T.state = "connected"
  BY <1>2, SMT DEF transmit_enquiry, lm_data_request, StartT1, Good, Typed, Windowed, Owes, Fields
<1> HIDE DEF T
<1>4. Good(enter_new_state(T, "timer_recovery"), owed)
  BY <1>3, SMT DEF enter_new_state, Good, Typed, Windowed, Owes, Fields, States, Up
<1> QED BY <1>4 DEF Enquire, T, C

LEMMA TimersExpire ==
  ASSUME NEW S, NEW owed \in BOOLEAN, Good(S, TRUE), Owes(S) => owed
  PROVE  Good(ExpireT1(S), owed) /\ Good(ExpireT3(S), owed)
<1> DEFINE F == Fresh(S)
           T == [F EXCEPT !.t1 = "stopped"]
           U == [F EXCEPT !.t3 = "stopped"]
<1>1. Good(F, owed)
  BY FreshLink
<1> HIDE DEF F
<1>2. Good(T, owed) /\ Good(U, owed)
  BY <1>1, SMT DEF Good, Typed, Windowed, Owes, Fields
<1> HIDE DEF T, U
<1>3. Good(t1_expiry(T), owed)
  <2> DEFINE More == [T EXCEPT !.rc = @ + 1]
             A == lm_data_request(More, UFrame("SABM", "cmd", TRUE))
             D == lm_data_request(T, UFrame("DM", "res", FALSE))
  <2>1. \/ t1_expiry(T) \in {GiveUp(T), GiveUp(D), T}
        \/ ~RetriesUsedUp(T) /\ t1_expiry(T) \in {StartT1(A), transmit_enquiry(More)}
        \/ T.state = "connected" /\ t1_expiry(T) = Enquire(T)
    BY DEF t1_expiry
  <2>2. ASSUME ~RetriesUsedUp(T) PROVE Good(More, owed)
    <3>1. T.rc + 1 \in 0 .. n2_retry
      BY <1>2, <2>2, LinkAssumption, SMT DEF Good, Typed, RetriesUsedUp
    <3> QED BY <1>2, <3>1, SMT DEF Good, Typed, Windowed, Owes, Fields
  <2>3. Good(D, owed)
    BY <1>2, DataRequest
  <2> HIDE DEF More, D
  <2>4. ASSUME ~RetriesUsedUp(T) PROVE Good(StartT1(A), owed) /\ Good(transmit_enquiry(More), owed)
    <3>1. Good(A, owed)
      BY <2>2, <2>4, DataRequest
    <3> QED BY <2>2, <2>4, <3>1, Timers, Responses
  <2>5. Good(GiveUp(T), owed) /\ Good(GiveUp(D), owed)
    BY <1>2, <2>3, Queue
  <2> QED BY <1>2, <2>1, <2>4, <2>5, Enquiring
<1>4. Good(t3_expiry(U), owed)
  BY <1>2, Enquiring DEF t3_expiry
<1> QED BY <1>3, <1>4 DEF ExpireT1, ExpireT3, T, U, F

LEMMA DataHandedOver ==
  ASSUME NEW S, NEW owed \in BOOLEAN, Good(S, TRUE), Owes(S) => owed, NEW m \in Msgs
  PROVE  Good(SeizeForQueue([Fresh(S) EXCEPT !.i_frame_queue = Append(@, m)]), owed)
<1> DEFINE F == Fresh(S)
           Q == [F EXCEPT !.i_frame_queue = Append(@, m)]
<1>1. Good(F, owed)
  BY FreshLink
<1> HIDE DEF F
<1>2. Good(Q, owed)
  <2>1. Append(F.i_frame_queue, m) \in Seq(Msgs)
    BY <1>1, SMT DEF Good, Typed
  <2> QED BY <1>1, <2>1, SMT DEF Good, Typed, Windowed, Owes, Fields
<1> HIDE DEF Q
<1>3. Good(SeizeForQueue(Q), owed)
  BY <1>2, Seized
<1> QED BY <1>3 DEF Q, F

LEMMA MinOfTwo ==
  ASSUME NEW a \in Nat, NEW b \in Nat
  PROVE  Min({a, b}) = IF a <= b THEN a ELSE b
<1>1. \E x \in {a, b} : \A y \in {a, b} : x <= y
  BY SMT
<1>2. Min({a, b}) \in {a, b} /\ \A y \in {a, b} : Min({a, b}) <= y
  BY <1>1 DEF Min
<1> QED BY <1>2, SMT

\* What a step does to the link of a state that satisfies the invariant.
LEMMA LinkKept ==
  ASSUME NEW L, NEW owed \in BOOLEAN, Good(L, owed)
  PROVE  /\ Fresh(L) \in Link /\ Fresh(L).seize = 0 /\ Good(Fresh(L), TRUE)
         /\ Owes(Fresh(L)) <=> Owes(L)
<1>1. Good(Fresh(L), TRUE)
  BY SMT DEF Fresh, Good, Typed, Windowed, Owes, Fields
<1>2. Owes(Fresh(L)) <=> Owes(L)
  BY SMT DEF Fresh, Good, Typed, Owes, Fields
<1>3. Fresh(L) = [L EXCEPT !.out = <<>>, !.up = <<>>, !.seize = 0]
  BY DEF Fresh
<1>4. DOMAIN L = Fields /\ Typed(L)
  BY DEF Good, Typed
<1>5. /\ <<>> \in Seq(Frames) /\ <<>> \in Seq(Msgs) /\ 0 \in 0 .. 2
  BY SMT
<1>6. Fresh(L) \in Link
  <2> DEFINE G == Fresh(L)
  <2>1. /\ DOMAIN G = Fields
        /\ G.state = L.state /\ G.vs = L.vs /\ G.va = L.va /\ G.vr = L.vr /\ G.rc = L.rc
        /\ G.peer_receiver_busy = L.peer_receiver_busy
        /\ G.acknowledge_pending = L.acknowledge_pending
        /\ G.radio_channel_busy = L.radio_channel_busy /\ G.t1 = L.t1 /\ G.t3 = L.t3
        /\ G.i_frame_queue = L.i_frame_queue /\ G.txdata_by_ns = L.txdata_by_ns
        /\ G.rxdata_by_ns = L.rxdata_by_ns
        /\ G.out = <<>> /\ G.up = <<>> /\ G.seize = 0
    BY <1>3, <1>4, SMT DEF Fields
  <2>2. G = [x \in Fields |-> G[x]]
    BY <1>3, <1>4, Zenon
  <2> HIDE DEF G
  <2>3. /\ G.state \in States /\ G.vs \in SeqNo /\ G.va \in SeqNo /\ G.vr \in SeqNo
        /\ G.rc \in 0 .. n2_retry
        /\ G.peer_receiver_busy \in BOOLEAN /\ G.acknowledge_pending \in BOOLEAN
        /\ G.radio_channel_busy \in BOOLEAN
        /\ G.t1 \in {"stopped", "running", "paused"} /\ G.t3 \in {"stopped", "running"}
        /\ G.i_frame_queue \in Seq(Msgs)
        /\ G.txdata_by_ns \in [SeqNo -> Msgs \cup {None}]
        /\ G.rxdata_by_ns \in [SeqNo -> Msgs \cup {None}]
        /\ G.out \in Seq(Frames) /\ G.up \in Seq(Msgs) /\ G.seize \in 0 .. 2
    BY <1>4, <1>5, <2>1 DEF Typed, Slots
  <2>4. G \in Link
    BY <2>2, <2>3, SMT DEF Link, Fields
  <2> QED BY <2>4 DEF G
<1>7. Fresh(L).seize = 0
  BY <1>3, <1>4, SMT DEF Fields
<1> QED BY <1>1, <1>2, <1>6, <1>7

-----------------------------------------------------------------------------
(* Timers: what keeps a link that waits for its peer with one running.       *)

Armed(S) ==
  /\ S.state \in {"awaiting_connection", "timer_recovery"} => S.t1 # "stopped"
  /\ S.state = "connected" => S.t1 # "stopped" \/ (S.vs = S.va /\ S.t3 = "running")

SameTimers(T, S) ==
  /\ DOMAIN T = Fields
  /\ T.state = S.state /\ T.t1 = S.t1 /\ T.t3 = S.t3 /\ T.vs = S.vs /\ T.va = S.va

LEMMA Untouched ==
  ASSUME NEW S, DOMAIN S = Fields, NEW f, NEW x
  PROVE  /\ SameTimers(lm_data_request(S, f), S)
         /\ SameTimers(enquiry_response(S, x), S)
         /\ SameTimers(lm_seize_request(S), S)
         /\ SameTimers([S EXCEPT !.peer_receiver_busy = x], S)
         /\ SameTimers([S EXCEPT !.rc = x], S)
         /\ SameTimers([S EXCEPT !.i_frame_queue = x], S)
         /\ SameTimers(Fresh(S), S)
<1>1. SameTimers(lm_data_request(S, f), S)
  BY SMT DEF SameTimers, Fields, lm_data_request
<1>2. SameTimers(enquiry_response(S, x), S)
  BY SMT DEF SameTimers, Fields, lm_data_request, enquiry_response
<1>3. SameTimers(lm_seize_request(S), S)
  BY SMT DEF SameTimers, Fields, lm_seize_request
<1>4. /\ SameTimers([S EXCEPT !.peer_receiver_busy = x], S)
      /\ SameTimers([S EXCEPT !.rc = x], S)
      /\ SameTimers([S EXCEPT !.i_frame_queue = x], S)
  BY SMT DEF SameTimers, Fields
<1>5. SameTimers(Fresh(S), S)
  BY SMT DEF SameTimers, Fields, Fresh
<1> QED BY <1>1, <1>2, <1>3, <1>4, <1>5

LEMMA UntouchedBy ==
  ASSUME NEW S, DOMAIN S = Fields, NEW f, NEW type
  PROVE  /\ SameTimers(Answer(S, type, f), S)
         /\ SameTimers(DmResponse(S, f), S)
         /\ SameTimers(check_need_for_response(S, f), S)
         /\ SameTimers(SeizeForQueue(S), S)
<1>1. SameTimers(S, S)
  BY DEF SameTimers
<1>2. SameTimers(Answer(S, type, f), S) /\ SameTimers(DmResponse(S, f), S)
  BY Untouched DEF Answer, DmResponse
<1>3. check_need_for_response(S, f) \in {enquiry_response(S, TRUE), S}
      /\ SeizeForQueue(S) \in {lm_seize_request(S), S}
  BY DEF check_need_for_response, SeizeForQueue
<1>4. SameTimers(enquiry_response(S, TRUE), S) /\ SameTimers(lm_seize_request(S), S)
  BY Untouched
<1> QED BY <1>1, <1>2, <1>3, <1>4

LEMMA SameArmed ==
  ASSUME NEW S, NEW T, SameTimers(T, S)
  PROVE  Armed(T) <=> Armed(S)
BY DEF SameTimers, Armed

\* T1 runs, or is paused, whatever else has happened.
LEMMA Ticking ==
  ASSUME NEW S, DOMAIN S = Fields
  PROVE  /\ StartT1(S).t1 # "stopped" /\ DOMAIN StartT1(S) = Fields
         /\ StartT1(S).state = S.state
         /\ Armed(StartT1(S))
<1>1. StartT1(S).t1 # "stopped" /\ DOMAIN StartT1(S) = Fields /\ StartT1(S).state = S.state
  BY SMT DEF StartT1, Fields
<1> QED BY <1>1 DEF Armed

LEMMA ArmedAnew ==
  ASSUME NEW S, DOMAIN S = Fields
  PROVE  /\ Armed(GiveUpNr(S)) /\ Armed(SetUpAnew(S))
         /\ transmit_enquiry(S).t1 # "stopped"
         /\ Armed(transmit_enquiry(S))
         /\ Armed(Enquire(S))
<1>1. Armed(GiveUpNr(S)) /\ Armed(SetUpAnew(S))
  <2> DEFINE C == [clear_exception_conditions(S) EXCEPT !.rc = 1]
             R == lm_data_request(C, UFrame("SABM", "cmd", TRUE))
             T == StopT3(R)
             E == StartT1(T)
  <2>1. DOMAIN C = Fields
    BY SMT DEF clear_exception_conditions, Fields
  <2> HIDE DEF C
  <2>2. DOMAIN R = Fields
    BY <2>1, Untouched DEF SameTimers
  <2> HIDE DEF R
  <2>3. DOMAIN T = Fields
    BY <2>2, SMT DEF StopT3, Fields
  <2> HIDE DEF T
  <2>4. E.t1 # "stopped" /\ DOMAIN E = Fields
    BY <2>3, Ticking
  <2> HIDE DEF E
  <2>5. enter_new_state(E, "awaiting_connection").t1 # "stopped"
    BY <2>4, SMT DEF enter_new_state, Fields
  <2>6. Armed(enter_new_state(E, "awaiting_connection"))
    BY <2>5 DEF Armed
  <2> QED BY <2>6 DEF GiveUpNr, SetUpAnew, nr_error_recovery, establish_data_link, C, R, T, E
<1>2. ASSUME NEW U, DOMAIN U = Fields
      PROVE  DOMAIN transmit_enquiry(U) = Fields /\ transmit_enquiry(U).t1 # "stopped"
  BY <1>2, SMT DEF transmit_enquiry, lm_data_request, StartT1, Fields
<1>3. Armed(Enquire(S))
  <2> DEFINE C == [S EXCEPT !.rc = 1]
             T == transmit_enquiry(C)
  <2>1. DOMAIN T = Fields /\ T.t1 # "stopped"
    BY <1>2, Untouched DEF SameTimers
  <2> HIDE DEF T
  <2>2. enter_new_state(T, "timer_recovery").t1 # "stopped"
    BY <2>1, SMT DEF enter_new_state, Fields
  <2> QED BY <2>2 DEF Armed, Enquire, T
<1> QED BY <1>1, <1>2, <1>3 DEF Armed

\* Nothing is outstanding, or there is no connection.
LEMMA AtRest ==
  ASSUME NEW S, DOMAIN S = Fields
  PROVE  /\ S.vs = S.va => Armed(CaughtUp(S)) /\ DOMAIN CaughtUp(S) = Fields
         /\ Armed(Disconnected(S)) /\ Armed(StopT3(Disconnected(S)))
         /\ Armed(GiveUp(S))
<1>1. S.vs = S.va => Armed(CaughtUp(S)) /\ DOMAIN CaughtUp(S) = Fields
  BY SMT DEF CaughtUp, enter_new_state, StartT3, Armed, Fields
<1>2. Disconnected(S).state = "disconnected" /\ StopT3(Disconnected(S)).state = "disconnected"
  BY SMT DEF Disconnected, enter_new_state, discard_i_queue, StopT1, StopT3, Fields
<1>3. GiveUp(S).state = "disconnected"
  BY SMT DEF GiveUp, enter_new_state, discard_i_queue, Fields
<1> QED BY <1>1, <1>2, <1>3 DEF Armed

LEMMA VAOnly ==
  ASSUME NEW S, DOMAIN S = Fields, NEW nr
  PROVE  LET T == SetVA(S, nr)
         IN  /\ DOMAIN T = Fields /\ T.va = nr /\ T.vs = S.vs /\ T.state = S.state
             /\ T.t1 = S.t1 /\ T.t3 = S.t3
<1> DEFINE kept == [x \in SeqNo |->
              IF x \in {y \in SeqNo : \A j \in 1 .. Minus(nr, y + 1) + 1 :
                                        S.txdata_by_ns[Minus(nr, j)] # None}
                THEN None ELSE S.txdata_by_ns[x]]
<1>1. SetVA(S, nr) = [S EXCEPT !.va = nr, !.txdata_by_ns = kept]
  BY SMT DEF SetVA, Fields
<1> HIDE DEF kept
<1> QED BY <1>1, SMT DEF Fields

LEMMA TimerFields ==
  ASSUME NEW S, DOMAIN S = Fields
  PROVE  /\ DOMAIN StopT1(S) = Fields /\ StopT1(S).state = S.state
         /\ StopT1(S).vs = S.vs /\ StopT1(S).va = S.va /\ StopT1(S).t3 = S.t3
         /\ DOMAIN StartT3(S) = Fields /\ StartT3(S).state = S.state /\ StartT3(S).t3 = "running"
         /\ StartT3(S).vs = S.vs /\ StartT3(S).va = S.va /\ StartT3(S).t1 = S.t1
BY SMT DEF StopT1, StartT3, Fields

LEMMA AckdArmed ==
  ASSUME NEW S, DOMAIN S = Fields, Armed(S), S.state \in Up, NEW nr
  PROVE  LET A == check_i_frame_ackd(S, nr)
         IN  /\ DOMAIN A = Fields /\ A.state = S.state
             /\ (A.state = "timer_recovery" /\ A.va = A.vs) \/ Armed(A)
<1> DEFINE V == SetVA(S, nr)
           B == StartT3(V)
           D == StartT3(StopT1(V))
           A == check_i_frame_ackd(S, nr)
<1>1. /\ DOMAIN V = Fields /\ V.va = nr /\ V.vs = S.vs /\ V.state = S.state
  BY VAOnly
<1>2. \/ B.t1 # "stopped" /\ A = B
      \/ A \in {StartT1(B), StartT1(V)}
      \/ nr = S.vs /\ A = D
      \/ nr # S.vs /\ nr = S.va /\ A = S
  BY DEF check_i_frame_ackd
<1> HIDE DEF V, A
<1>3. DOMAIN B = Fields /\ B.state = S.state
  BY <1>1, TimerFields
<1>4. /\ DOMAIN D = Fields /\ D.state = S.state /\ D.t3 = "running"
      /\ D.va = nr /\ D.vs = S.vs
  BY <1>1, TimerFields
<1> HIDE DEF B, D
<1>5. CASE B.t1 # "stopped" /\ A = B
  BY <1>3, <1>5 DEF Armed, A
<1>6. CASE A \in {StartT1(B), StartT1(V)}
  <2>1. /\ DOMAIN StartT1(B) = Fields /\ StartT1(B).state = S.state /\ Armed(StartT1(B))
        /\ DOMAIN StartT1(V) = Fields /\ StartT1(V).state = S.state /\ Armed(StartT1(V))
    BY <1>1, <1>3, Ticking
  <2> QED BY <1>6, <2>1 DEF A
<1>7. CASE nr = S.vs /\ A = D
  BY <1>4, <1>7 DEF Armed, Up, A
<1>8. CASE nr # S.vs /\ nr = S.va /\ A = S
  BY <1>8 DEF A
<1> QED BY <1>2, <1>5, <1>6, <1>7, <1>8

LEMMA ContinuedSame ==
  ASSUME NEW S, DOMAIN S = Fields, NEW f
  PROVE  SameTimers(i_frame_continued(S, f), S)
<1>1. SameTimers(AcceptInSequence(S, f), S)
  <2> DEFINE c == Cardinality(KeptBehind(S, f.ns))
             up == S.up \o <<f.msg>>
                        \o [i \in 1 .. c |-> S.rxdata_by_ns[AX25MODULO(f.ns + i)]]
             rx == [x \in SeqNo |-> IF Minus(x, f.ns) <= c THEN None ELSE S.rxdata_by_ns[x]]
             vr == AX25MODULO(f.ns + 1 + c)
             D == [S EXCEPT !.up = up, !.rxdata_by_ns = rx, !.vr = vr]
             Q == [D EXCEPT !.acknowledge_pending = TRUE]
  <2>1. AcceptInSequence(S, f) = CASE f.pf -> enquiry_response(D, TRUE)
          [] ~f.pf /\ ~D.acknowledge_pending -> lm_seize_request(Q)
          [] OTHER -> D
    BY DEF AcceptInSequence, D, c, up, rx, vr
  <2>2. AcceptInSequence(S, f) \in {enquiry_response(D, TRUE), lm_seize_request(Q), D}
    BY <2>1
  <2> HIDE DEF c, up, rx, vr
  <2>3. SameTimers(D, S) /\ SameTimers(Q, S)
    BY SMT DEF SameTimers, Fields
  <2> HIDE DEF D, Q
  <2>4. SameTimers(enquiry_response(D, TRUE), D) /\ SameTimers(lm_seize_request(Q), Q)
    <3>1. DOMAIN D = Fields /\ DOMAIN Q = Fields
      BY <2>3 DEF SameTimers
    <3> QED BY <3>1, Untouched
  <2> QED BY <2>2, <2>3, <2>4 DEF SameTimers
<1>2. SameTimers(KeepOutOfSequence(S, f), S)
  <2> DEFINE K == [S EXCEPT !.rxdata_by_ns[f.ns] = f.msg]
  <2>1. SameTimers(K, S)
    BY SMT DEF SameTimers, Fields
  <2> HIDE DEF K
  <2>2. ASSUME NEW first, NEW count PROVE SameTimers(send_srej_frames(K, first, count), K)
    <3> DEFINE Nr(i) == AX25MODULO(first + i - 1)
               out == K.out \o [i \in 1 .. count |-> SFrame("SREJ", "res", Nr(i) = K.vr, Nr(i))]
               ack == K.acknowledge_pending /\ K.vr \notin {Nr(i) : i \in 1 .. count}
    <3>1. send_srej_frames(K, first, count) = [K EXCEPT !.out = out, !.acknowledge_pending = ack]
      BY <2>1 DEF send_srej_frames, SameTimers, Fields
    <3> HIDE DEF out, ack
    <3> QED BY <2>1, <3>1, SMT DEF SameTimers, Fields
  <2>3. SameTimers(enquiry_response(K, TRUE), K)
    <3>1. DOMAIN K = Fields
      BY <2>1 DEF SameTimers
    <3> QED BY <3>1, Untouched
  <2>4. \/ KeepOutOfSequence(S, f) \in {enquiry_response(K, TRUE), K}
        \/ \E first, count : KeepOutOfSequence(S, f) = send_srej_frames(K, first, count)
    BY DEF KeepOutOfSequence, K
  <2> QED BY <2>1, <2>2, <2>3, <2>4 DEF SameTimers
<1>3. SameTimers(enquiry_response(S, TRUE), S) /\ SameTimers(S, S)
  <2>1. SameTimers(S, S)
    BY DEF SameTimers
  <2> QED BY <2>1, Untouched
<1>4. i_frame_continued(S, f) \in {AcceptInSequence(S, f), KeepOutOfSequence(S, f),
                                  enquiry_response(S, TRUE), S}
  BY DEF i_frame_continued
<1> QED BY <1>1, <1>2, <1>3, <1>4

LEMMA IFrameArmed ==
  ASSUME NEW S, DOMAIN S = Fields, Armed(S), NEW f
  PROVE  Armed(i_frame(S, f))
<1> DEFINE A == check_i_frame_ackd(S, f.nr)
           C == CaughtUp(StopT1(A))
<1>1. CASE S.state \notin Up
  <2>1. i_frame(S, f) \in {DmResponse(S, f.pf), S}
    BY <1>1 DEF i_frame
  <2>2. SameTimers(DmResponse(S, f.pf), S)
    BY UntouchedBy
  <2> QED BY <2>1, <2>2, SameArmed
<1>2. CASE S.state \in Up
  <2>1. /\ DOMAIN A = Fields /\ A.state = S.state
        /\ (A.state = "timer_recovery" /\ A.va = A.vs) \/ Armed(A)
    BY <1>2, AckdArmed
  <2>2. \/ i_frame(S, f) = GiveUpNr(S)
        \/ A.state = "timer_recovery" /\ A.va = A.vs /\ i_frame(S, f) = i_frame_continued(C, f)
        \/ ~(A.state = "timer_recovery" /\ A.va = A.vs)
              /\ i_frame(S, f) = i_frame_continued(A, f)
    BY <1>2 DEF i_frame, Up
  <2> HIDE DEF A
  <2>3. A.va = A.vs => Armed(C) /\ DOMAIN C = Fields
    <3>1. DOMAIN StopT1(A) = Fields /\ StopT1(A).vs = A.vs /\ StopT1(A).va = A.va
      BY <2>1, TimerFields
    <3> QED BY <3>1, AtRest
  <2> HIDE DEF C
  <2>4. A.va = A.vs => Armed(i_frame_continued(C, f))
    BY <2>3, ContinuedSame, SameArmed
  <2>5. Armed(A) => Armed(i_frame_continued(A, f))
    BY <2>1, ContinuedSame, SameArmed
  <2> QED BY <2>1, <2>2, <2>4, <2>5, ArmedAnew
<1> QED BY <1>1, <1>2

LEMMA RetransmitArmed ==
  ASSUME NEW S, DOMAIN S = Fields, NEW nr
  PROVE  Armed(Retransmit(S, nr))
<1> DEFINE T == invoke_retransmission(S, nr)
           Held == {d \in 0 .. Minus(S.vs, nr + 1) :
                      S.txdata_by_ns[AX25MODULO(nr + d)] # None}
           Ns(i) == AX25MODULO(nr + Ascending(Held)[i])
           out == S.out \o [i \in 1 .. Cardinality(Held) |->
                               IFrame(S, Ns(i), S.txdata_by_ns[Ns(i)])]
           U == StopT3(T)
           W == StartT1(U)
           R == [W EXCEPT !.acknowledge_pending = FALSE]
<1>1. T = S \/ T = [S EXCEPT !.out = out]
  BY DEF invoke_retransmission
<1> HIDE DEF T, out
<1>2. DOMAIN T = Fields
  BY <1>1, SMT DEF Fields
<1>3. DOMAIN U = Fields
  BY <1>2, SMT DEF StopT3, Fields
<1> HIDE DEF U
<1>4. DOMAIN W = Fields /\ W.t1 # "stopped"
  BY <1>3, Ticking
<1> HIDE DEF W
<1>5. R.t1 # "stopped"
  BY <1>4, SMT DEF Fields
<1> QED BY <1>5 DEF Armed, Retransmit, R, W, U, T

LEMMA AnsweredArmed ==
  ASSUME NEW S, DOMAIN S = Fields, NEW nr
  PROVE  Armed(EnquiryAnswered(S, nr))
<1> DEFINE P == StopT1(S)
           A == SetVA(P, nr)
<1>1. DOMAIN P = Fields
  BY TimerFields
<1>2. \/ EnquiryAnswered(S, nr) = GiveUpNr(P)
      \/ A.vs = A.va /\ EnquiryAnswered(S, nr) = CaughtUp(A)
      \/ EnquiryAnswered(S, nr) = Retransmit(A, nr)
  BY DEF EnquiryAnswered
<1> HIDE DEF P
<1>3. DOMAIN A = Fields
  BY <1>1, VAOnly
<1> HIDE DEF A
<1> QED BY <1>1, <1>2, <1>3, ArmedAnew, AtRest, RetransmitArmed

LEMMA SupervisoryArmed ==
  ASSUME NEW S, DOMAIN S = Fields, Armed(S), NEW ready, NEW f
  PROVE  Armed(rr_rnr_frame(S, ready, f)) /\ Armed(rej_frame(S, f))
<1>1. ASSUME NEW busy
      PROVE  LET B == [S EXCEPT !.peer_receiver_busy = busy]
                 R == check_need_for_response(B, f)
                 A == SetVA(R, f.nr)
             IN  /\ DOMAIN B = Fields /\ SameTimers(R, S) /\ DOMAIN R = Fields
                 /\ DOMAIN A = Fields /\ A.state = S.state /\ A.t1 = S.t1
  <2> DEFINE B == [S EXCEPT !.peer_receiver_busy = busy]
             R == check_need_for_response(B, f)
             A == SetVA(R, f.nr)
  <2>1. SameTimers(B, S) /\ DOMAIN B = Fields
    <3>1. SameTimers(B, S)
      BY Untouched
    <3> QED BY <3>1 DEF SameTimers
  <2> HIDE DEF B
  <2>2. SameTimers(R, B)
    BY <2>1, UntouchedBy
  <2>3. SameTimers(R, S) /\ DOMAIN R = Fields
    BY <2>1, <2>2 DEF SameTimers
  <2> HIDE DEF R
  <2>4. DOMAIN A = Fields /\ A.state = R.state /\ A.t1 = R.t1
    BY <2>3, VAOnly
  <2> HIDE DEF A
  <2>5. A.state = S.state /\ A.t1 = S.t1
    BY <2>3, <2>4 DEF SameTimers
  <2> QED BY <2>1, <2>3, <2>4, <2>5 DEF A, R, B
<1>2. SameTimers(DmResponse(S, f.pf), S)
  BY UntouchedBy
<1>3. Armed(DmResponse(S, f.pf))
  BY <1>2, SameArmed
<1>4. Armed(rr_rnr_frame(S, ready, f))
  <2> DEFINE B == [S EXCEPT !.peer_receiver_busy = ~ready]
             R == check_need_for_response(B, f)
             A == SetVA(R, f.nr)
             C == check_i_frame_ackd(R, f.nr)
             Result == rr_rnr_frame(S, ready, f)
  <2>1. /\ DOMAIN B = Fields /\ SameTimers(R, S) /\ DOMAIN R = Fields
        /\ DOMAIN A = Fields /\ A.state = S.state /\ A.t1 = S.t1
    BY <1>1
  <2>2. \/ Result \in {DmResponse(S, f.pf), S}
        \/ S.state = "connected" /\ Result \in {C, GiveUpNr(R)}
        \/ Result = EnquiryAnswered(B, f.nr)
        \/ Result = GiveUpNr(R)
        \/ A.vs = A.va /\ Result = CaughtUp(StopT1(A))
        \/ S.state = "timer_recovery" /\ Result = A
    BY DEF rr_rnr_frame
  <2> HIDE DEF B, A, Result
  <2>3. S.state = "connected" => Armed(C)
    <3>1. Armed(R) /\ R.state = S.state
      BY <2>1, SameArmed DEF SameTimers
    <3> HIDE DEF R
    <3>2. S.state = "connected" => C.state = S.state /\ (C.state = "timer_recovery" \/ Armed(C))
      BY <2>1, <3>1, AckdArmed DEF Up
    <3> HIDE DEF C
    <3> QED BY <3>2
  <2> HIDE DEF R, C
  <2>4. A.vs = A.va => Armed(CaughtUp(StopT1(A)))
    <3>1. DOMAIN StopT1(A) = Fields /\ StopT1(A).vs = A.vs /\ StopT1(A).va = A.va
      BY <2>1, TimerFields
    <3> QED BY <3>1, AtRest
  <2>5. S.state = "timer_recovery" => Armed(A)
    BY <2>1 DEF Armed
  <2>6. Armed(EnquiryAnswered(B, f.nr)) /\ Armed(GiveUpNr(R))
    BY <2>1, AnsweredArmed, ArmedAnew
  <2> QED BY <1>3, <2>2, <2>3, <2>4, <2>5, <2>6 DEF Result
<1>5. Armed(rej_frame(S, f))
  <2> DEFINE B == [S EXCEPT !.peer_receiver_busy = FALSE]
             R == check_need_for_response(B, f)
             A == SetVA(R, f.nr)
             Result == rej_frame(S, f)
  <2>1. /\ DOMAIN B = Fields /\ DOMAIN R = Fields
        /\ DOMAIN A = Fields /\ A.state = S.state /\ A.t1 = S.t1
    BY <1>1
  <2>2. \/ Result \in {DmResponse(S, f.pf), S}
        \/ Result = EnquiryAnswered(B, f.nr)
        \/ Result \in {GiveUpNr(R), Retransmit(StopT1(A), f.nr), Retransmit(A, f.nr)}
        \/ S.state = "timer_recovery" /\ Result = A
    BY DEF rej_frame
  <2> HIDE DEF B, A, R, Result
  <2>3. Armed(Retransmit(StopT1(A), f.nr)) /\ Armed(Retransmit(A, f.nr))
    <3>1. DOMAIN StopT1(A) = Fields
      BY <2>1, TimerFields
    <3> QED BY <2>1, <3>1, RetransmitArmed
  <2>4. S.state = "timer_recovery" => Armed(A)
    BY <2>1 DEF Armed
  <2>5. Armed(EnquiryAnswered(B, f.nr)) /\ Armed(GiveUpNr(R))
    BY <2>1, AnsweredArmed, ArmedAnew
  <2> QED BY <1>3, <2>2, <2>3, <2>4, <2>5 DEF Result
<1> QED BY <1>4, <1>5

LEMMA ConnectedArmed ==
  ASSUME NEW S, DOMAIN S = Fields
  PROVE  Armed(Connected(S))
<1> DEFINE T == StartT3(S)
           Z == [T EXCEPT !.vs = 0]
           V == SetVA(Z, 0)
           R == [V EXCEPT !.vr = 0]
           C == enter_new_state([R EXCEPT !.rc = 0], "connected")
<1>1. DOMAIN T = Fields /\ T.t3 = "running"
  BY TimerFields
<1> HIDE DEF T
<1>2. DOMAIN Z = Fields /\ Z.t3 = "running" /\ Z.vs = 0
  BY <1>1, SMT DEF Fields
<1> HIDE DEF Z
<1>3. DOMAIN V = Fields /\ V.t3 = "running" /\ V.vs = 0 /\ V.va = 0
  BY <1>2, VAOnly
<1> HIDE DEF V
<1>4. C.t3 = "running" /\ C.vs = C.va /\ C.state = "connected"
  BY <1>3, SMT DEF enter_new_state, Fields
<1> QED BY <1>4 DEF Armed, Connected, ResetSeq, C, R, V, Z, T

LEMMA UnnumberedArmed ==
  ASSUME NEW S, DOMAIN S = Fields, Armed(S), NEW f
  PROVE  /\ Armed(sabm_frame(S, f)) /\ Armed(disc_frame(S, f)) /\ Armed(dm_frame(S, f))
         /\ Armed(ua_frame(S, f)) /\ Armed(frmr_frame(S)) /\ Armed(ui_frame(S, f))
<1>1. ASSUME NEW type
      PROVE  DOMAIN Answer(S, type, f) = Fields /\ Armed(Answer(S, type, f))
  <2>1. SameTimers(Answer(S, type, f), S)
    BY UntouchedBy
  <2> QED BY <2>1, SameArmed DEF SameTimers
<1>2. Armed(sabm_frame(S, f))
  <2> DEFINE A == Answer(S, "UA", f)
             C == clear_exception_conditions(A)
             D == IF C.vs # C.va THEN discard_i_queue(C) ELSE C
  <2>1. sabm_frame(S, f) \in {Connected(C), A, Connected(StopT1(D))}
    BY DEF sabm_frame
  <2>2. DOMAIN A = Fields
    BY <1>1
  <2> HIDE DEF A
  <2>3. DOMAIN C = Fields
    BY <2>2, SMT DEF clear_exception_conditions, Fields
  <2> HIDE DEF C
  <2>4. DOMAIN D = Fields
    BY <2>3, SMT DEF discard_i_queue, Fields
  <2> HIDE DEF D
  <2>5. DOMAIN StopT1(D) = Fields
    BY <2>4, TimerFields
  <2> QED BY <1>1, <2>1, <2>3, <2>5, ConnectedArmed DEF A
<1>3. Armed(disc_frame(S, f))
  <2>1. disc_frame(S, f) \in {StopT3(Disconnected(Answer(S, "UA", f))), Answer(S, "DM", f)}
    BY DEF disc_frame
  <2> QED BY <1>1, <2>1, AtRest
<1>4. Armed(dm_frame(S, f))
  BY AtRest DEF dm_frame
<1>5. Armed(ua_frame(S, f))
  <2>1. DOMAIN StopT1(S) = Fields
    BY TimerFields
  <2> QED BY <2>1, ConnectedArmed, ArmedAnew DEF ua_frame
<1>6. Armed(frmr_frame(S))
  BY ArmedAnew DEF frmr_frame
<1>7. Armed(ui_frame(S, f))
  <2>1. SameTimers(enquiry_response(S, TRUE), S)
    BY Untouched
  <2>2. Armed(enquiry_response(S, TRUE))
    BY <2>1, SameArmed
  <2>3. ui_frame(S, f) \in {S, enquiry_response(S, TRUE), Answer(S, "DM", f)}
    BY DEF ui_frame
  <2> QED BY <1>1, <2>2, <2>3
<1> QED BY <1>2, <1>3, <1>4, <1>5, <1>6, <1>7

LEMMA DispatchArmed ==
  ASSUME NEW S, DOMAIN S = Fields, Armed(S),
         NEW f, f.type \in FrameTypes, f.type # "SREJ"
  PROVE  Armed(Dispatch(S, f))
<1>1. \/ Dispatch(S, f) = i_frame(S, f)
      \/ Dispatch(S, f) = rr_rnr_frame(S, TRUE, f)
      \/ Dispatch(S, f) = rr_rnr_frame(S, FALSE, f)
      \/ Dispatch(S, f) = rej_frame(S, f)
      \/ Dispatch(S, f) \in {sabm_frame(S, f), disc_frame(S, f), dm_frame(S, f),
                            ua_frame(S, f), frmr_frame(S), ui_frame(S, f)}
  BY DEF Dispatch, FrameTypes
<1> QED BY <1>1, IFrameArmed, SupervisoryArmed, UnnumberedArmed

LEMMA IndicationArmed ==
  ASSUME NEW S, Good(S, TRUE), Armed(S), NEW f, Receivable(f), f.type # "SREJ"
  PROVE  Armed(lm_data_indication(S, f))
<1> DEFINE F == Fresh(S)
           L == get_link_handle(F, f)
           g == ax25_frame_type(f)
           D == Dispatch(L, g)
<1>1. Good(F, TRUE) /\ Armed(F)
  <2>1. DOMAIN S = Fields
    BY DEF Good, Typed
  <2>2. SameTimers(F, S)
    BY <2>1, Untouched
  <2> QED BY <2>2, FreshLink, SameArmed
<1> HIDE DEF F
<1>2. Good(L, TRUE) /\ Armed(L)
  <2>1. Good([F EXCEPT !.state = "disconnected"], TRUE)
    BY <1>1, SMT DEF Good, Typed, Windowed, Owes, Fields, States, Up
  <2>2. [F EXCEPT !.state = "disconnected"].state = "disconnected"
    BY <1>1, SMT DEF Good, Typed, Fields
  <2>3. Armed([F EXCEPT !.state = "disconnected"])
    BY <2>2 DEF Armed
  <2> QED BY <1>1, <2>1, <2>3 DEF get_link_handle
<1> HIDE DEF L
<1>3. /\ g.type \in FrameTypes /\ g.nr \in SeqNo /\ g.ns \in SeqNo
      /\ g.type = "I" => g.msg \in Msgs
      /\ g.type # "SREJ"
  BY SMT DEF ax25_frame_type, Receivable
<1> HIDE DEF g
<1>4. DOMAIN L = Fields
  BY <1>2 DEF Good, Typed
<1>5. Good(D, TRUE) /\ Armed(D)
  BY <1>2, <1>3, <1>4, Dispatched, DispatchArmed
<1> HIDE DEF D
<1>6. DOMAIN D = Fields
  BY <1>5 DEF Good, Typed
<1>7. SameTimers(SeizeForQueue(D), D)
  BY <1>6, UntouchedBy
<1>8. Armed(SeizeForQueue(D))
  BY <1>5, <1>7, SameArmed
<1> QED BY <1>2, <1>8 DEF lm_data_indication, D, L, F, g

LEMMA PopArmed ==
  ASSUME NEW S, Good(S, TRUE), Armed(S)
  PROVE  Armed(i_frame_pop_off_queue(S))
<1> DEFINE R(out, kept, rest, w) ==
             StartT1(StopT3([S EXCEPT !.out = out, !.txdata_by_ns = kept, !.i_frame_queue = rest,
                                      !.vs = w, !.acknowledge_pending = FALSE]))
<1>1. \/ i_frame_pop_off_queue(S) = S
      \/ \E out, kept, rest, w : i_frame_pop_off_queue(S) = R(out, kept, rest, w)
  BY DEF i_frame_pop_off_queue
<1>2. ASSUME NEW out, NEW kept, NEW rest, NEW w
      PROVE  Armed(R(out, kept, rest, w))
  <2> DEFINE T == [S EXCEPT !.out = out, !.txdata_by_ns = kept, !.i_frame_queue = rest,
                            !.vs = w, !.acknowledge_pending = FALSE]
  <2>1. DOMAIN T = Fields
    BY SMT DEF Good, Typed, Fields
  <2> HIDE DEF T
  <2>2. DOMAIN StopT3(T) = Fields
    BY <2>1, SMT DEF StopT3, Fields
  <2>3. Armed(StartT1(StopT3(T)))
    BY <2>2, Ticking
  <2> QED BY <2>3 DEF T
<1> HIDE DEF R
<1>3. CASE i_frame_pop_off_queue(S) = S
  BY <1>3
<1>4. CASE \E out, kept, rest, w : i_frame_pop_off_queue(S) = R(out, kept, rest, w)
  <2>1. PICK out, kept, rest, w : i_frame_pop_off_queue(S) = R(out, kept, rest, w)
    BY <1>4, Zenon
  <2>2. Armed(R(out, kept, rest, w))
    BY <1>2, Zenon
  <2> QED BY <2>1, <2>2
<1> QED BY <1>1, <1>3, <1>4

LEMMA ConfirmArmed ==
  ASSUME NEW S, Good(S, TRUE), Armed(S)
  PROVE  Armed(lm_seize_confirm(S))
<1> DEFINE F == Fresh(S)
           P == i_frame_pop_off_queue(F)
           E == enquiry_response(P, FALSE)
<1>1. Good(F, TRUE) /\ Armed(F)
  <2>1. DOMAIN S = Fields
    BY DEF Good, Typed
  <2>2. SameTimers(F, S)
    BY <2>1, Untouched
  <2> QED BY <2>2, FreshLink, SameArmed
<1> HIDE DEF F
<1>2. Good(P, TRUE) /\ Armed(P)
  BY <1>1, Pop, PopArmed
<1> HIDE DEF P
<1>3. DOMAIN P = Fields
  BY <1>2 DEF Good, Typed
<1>4. SameTimers(E, P)
  BY <1>3, Untouched
<1>5. Armed(E)
  BY <1>2, <1>4, SameArmed
<1> QED BY <1>1, <1>2, <1>5 DEF lm_seize_confirm, E, P, F

LEMMA FreshArmed ==
  ASSUME NEW S, Good(S, TRUE), Armed(S)
  PROVE  DOMAIN Fresh(S) = Fields /\ Armed(Fresh(S))
<1>1. DOMAIN S = Fields
  BY DEF Good, Typed
<1>2. SameTimers(Fresh(S), S)
  BY <1>1, Untouched
<1>3. DOMAIN Fresh(S) = Fields
  BY <1>2 DEF SameTimers
<1> QED BY <1>2, <1>3, SameArmed

LEMMA CarrierArmed ==
  ASSUME NEW S, Good(S, TRUE), Armed(S), NEW busy \in BOOLEAN
  PROVE  Armed(lm_channel_busy(S, busy))
<1> DEFINE F == Fresh(S)
           L == [F EXCEPT !.radio_channel_busy = busy]
<1>1. DOMAIN F = Fields /\ Armed(F)
  BY FreshArmed
<1>2. Armed(lm_channel_busy(S, busy))
  <2>1. lm_channel_busy(S, busy) \in {F, PauseT1(L), ResumeT1(L)}
    BY DEF lm_channel_busy
  <2> HIDE DEF F
  <2>2. Armed(PauseT1(L)) /\ Armed(ResumeT1(L))
    BY <1>1, SMT DEF Armed, PauseT1, ResumeT1, Fields
  <2> QED BY <1>1, <2>1, <2>2
<1> QED BY <1>2

LEMMA ExpiryArmed ==
  ASSUME NEW S, Good(S, TRUE), Armed(S)
  PROVE  Armed(ExpireT1(S)) /\ Armed(ExpireT3(S))
<1> DEFINE F == Fresh(S)
           T == [F EXCEPT !.t1 = "stopped"]
           U == [F EXCEPT !.t3 = "stopped"]
<1>1. DOMAIN F = Fields /\ Armed(F)
  BY FreshArmed
<1>3. Armed(ExpireT1(S))
  <2> HIDE DEF F
  <2>1. DOMAIN T = Fields
    BY <1>1, SMT DEF Fields
  <2> HIDE DEF T
  <2> DEFINE More == [T EXCEPT !.rc = @ + 1]
             A == lm_data_request(More, UFrame("SABM", "cmd", TRUE))
             D == lm_data_request(T, UFrame("DM", "res", FALSE))
  <2>2. \/ t1_expiry(T) \in {GiveUp(T), GiveUp(D), StartT1(A), transmit_enquiry(More), Enquire(T)}
        \/ T.state \notin {"awaiting_connection", "connected", "timer_recovery"} /\ t1_expiry(T) = T
    BY DEF t1_expiry
  <2>3. DOMAIN More = Fields
    BY <2>1, SMT DEF Fields
  <2> HIDE DEF More
  <2>4. DOMAIN A = Fields /\ DOMAIN D = Fields
    <3>1. SameTimers(A, More) /\ SameTimers(D, T)
      BY <2>1, <2>3, Untouched
    <3> QED BY <3>1 DEF SameTimers
  <2> HIDE DEF A, D
  <2>5. /\ Armed(GiveUp(T)) /\ Armed(GiveUp(D)) /\ Armed(StartT1(A))
        /\ Armed(transmit_enquiry(More)) /\ Armed(Enquire(T))
    BY <2>1, <2>3, <2>4, AtRest, Ticking, ArmedAnew
  <2>6. T.state \notin {"awaiting_connection", "connected", "timer_recovery"} => Armed(T)
    BY DEF Armed
  <2>7. Armed(t1_expiry(T))
    BY <2>2, <2>5, <2>6
  <2> QED BY <2>7 DEF ExpireT1, T, F
<1>4. Armed(ExpireT3(S))
  <2> HIDE DEF F
  <2>1. /\ DOMAIN U = Fields
        /\ U.state # "connected" => Armed(U)
    BY <1>1, SMT DEF Armed, Fields
  <2> HIDE DEF U
  <2>2. Armed(t3_expiry(U))
    BY <2>1, ArmedAnew DEF t3_expiry
  <2> QED BY <2>2 DEF ExpireT3, U, F
<1> QED BY <1>3, <1>4

LEMMA DataArmed ==
  ASSUME NEW S, Good(S, TRUE), Armed(S), NEW m \in Msgs
  PROVE  Armed(SeizeForQueue([Fresh(S) EXCEPT !.i_frame_queue = Append(@, m)]))
<1> DEFINE F == Fresh(S)
           Q == [F EXCEPT !.i_frame_queue = Append(@, m)]
<1>1. DOMAIN F = Fields /\ Armed(F)
  BY FreshArmed
<1>5. Armed(SeizeForQueue(Q))
  <2> HIDE DEF F
  <2>1. SameTimers(Q, F)
    BY <1>1, Untouched
  <2>2. DOMAIN Q = Fields /\ Armed(Q)
    <3>1. DOMAIN Q = Fields
      BY <2>1 DEF SameTimers
    <3> QED BY <1>1, <2>1, <3>1, SameArmed
  <2> HIDE DEF Q
  <2>3. SameTimers(SeizeForQueue(Q), Q)
    BY <2>2, UntouchedBy
  <2> QED BY <2>2, <2>3, SameArmed
<1> QED BY <1>5
===============================================================================
