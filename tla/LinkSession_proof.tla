-------------------------- MODULE LinkSession_proof --------------------------
(***************************************************************************)
(* Proofs about one data link with a peer that may send anything, for every *)
(* modulus, window size and number of retries: what Ax25Link_proof shows of *)
(* the operators, as theorems of the session.                               *)
(***************************************************************************)
EXTENDS LinkSession, Ax25Link_proof

-----------------------------------------------------------------------------
(* The invariant.                                                            *)

IInv ==
  /\ link \in Link /\ link.seize = 0
  /\ Good(link, TRUE)
  /\ seizes \in 0 .. MaxSeize
  /\ onAir \in BOOLEAN

LEMMA PeerFrameReceivable == \A f \in PeerFrames : Receivable(f)
BY SMT DEF PeerFrames, Receivable

LEMMA InitInv == Init => IInv
<1> SUFFICES ASSUME Init PROVE IInv
  OBVIOUS
<1> DEFINE L == NewLink
<1>0. 0 \in SeqNo /\ 0 \in 0 .. n2_retry /\ 0 \in 0 .. MaxSeize /\ Minus(0, 1) \in SeqNo
  <2>1. 0 \in SeqNo /\ 0 \in 0 .. n2_retry /\ 0 \in 0 .. MaxSeize /\ 1 \in 0 .. Modulo
    BY LinkAssumption, SessionAssumption, SMT DEF SeqNo
  <2> QED BY <2>1, MinusType
<1>1. Good(L, TRUE)
  BY <1>0, SMT DEF NewLink, Good, Typed, Windowed, Owes, Fields, Slots, States, Up
<1>2. /\ <<>> \in Seq(Frames) /\ <<>> \in Seq(Msgs) /\ 0 \in 0 .. 2
  BY SMT
<1>3. L \in Link /\ L.seize = 0
  BY <1>0, <1>2, SMT DEF NewLink, Link, States
<1> QED BY <1>0, <1>1, <1>3 DEF Init, IInv

\* An event that is over when its frames are queued and its null packets wait.
LEMMA StepInv ==
  ASSUME IInv, NEW L, Good(L, Owes(link) \/ seizes > 0), Becomes(L)
  PROVE  IInv' /\ (AckSecured => AckSecured')
<1> DEFINE owed == Owes(link) \/ seizes > 0
<1>1. /\ link' = Fresh(L) /\ seizes' = Min({seizes + L.seize, MaxSeize}) /\ onAir' = onAir
  BY DEF Becomes
<1>2. owed \in BOOLEAN /\ Good(L, owed)
  OBVIOUS
<1>3. /\ Fresh(L) \in Link /\ Fresh(L).seize = 0 /\ Good(Fresh(L), TRUE)
      /\ Owes(Fresh(L)) <=> Owes(L)
  <2> HIDE DEF owed
  <2> QED BY <1>2, LinkKept
<1>4. L.seize \in Nat /\ seizes \in Nat /\ MaxSeize \in Nat /\ MaxSeize > 0 /\ seizes <= MaxSeize
  BY <1>2, SessionAssumption, SMT DEF Good, Typed, IInv
<1>5. seizes' = IF seizes + L.seize <= MaxSeize THEN seizes + L.seize ELSE MaxSeize
  <2>1. seizes + L.seize \in Nat
    BY <1>4, SMT
  <2> QED BY <1>1, <1>4, <2>1, MinOfTwo
<1>6. seizes' \in 0 .. MaxSeize
  BY <1>4, <1>5, SMT
<1>7. IInv'
  BY <1>1, <1>3, <1>6 DEF IInv
<1>8. ASSUME AckSecured, Owes(link') PROVE seizes' > 0
  <2>1. owed \/ L.seize > 0
    BY <1>1, <1>2, <1>3, <1>8 DEF Good
  <2>2. Owes(link) => seizes > 0
    BY <1>8 DEF AckSecured, Owes
  <2>3. seizes > 0 \/ L.seize > 0
    BY <2>1, <2>2
  <2> QED BY <1>4, <1>5, <2>3, SMT
<1> QED BY <1>7, <1>8 DEF AckSecured, Owes

LEMMA NextInv ==
  ASSUME IInv, [Next]_vars
  PROVE  IInv' /\ (AckSecured => AckSecured' \/ SeizeDropped)
<1> DEFINE owed == Owes(link) \/ seizes > 0
<1>0. Good(link, TRUE) /\ owed \in BOOLEAN /\ (Owes(link) => owed)
  BY DEF IInv
<1>1. ASSUME NEW f \in PeerFrames, PeerFrame(f) PROVE IInv' /\ (AckSecured => AckSecured')
  BY <1>0, <1>1, DataIndication, PeerFrameReceivable, StepInv DEF PeerFrame
<1>2. CASE PeerGone
  BY <1>2 DEF PeerGone, IInv, AckSecured
<1>3. CASE link' = Fresh(lm_seize_confirm(link)) /\ seizes' \in 0 .. MaxSeize /\ UNCHANGED onAir
  <2> DEFINE L == lm_seize_confirm(link)
  <2>1. Good(L, owed) /\ ~Owes(L)
    BY <1>0, SeizeConfirmed
  <2> HIDE DEF L, owed
  <2>2. /\ Fresh(L) \in Link /\ Fresh(L).seize = 0 /\ Good(Fresh(L), TRUE) /\ ~Owes(Fresh(L))
    BY <1>0, <2>1, LinkKept
  <2> QED BY <1>3, <2>2 DEF IInv, AckSecured, Owes, L
<1>4. CASE SeizeConfirm
  <2>1. seizes' \in 0 .. MaxSeize
    BY <1>4, SessionAssumption, SMT DEF SeizeConfirm, IInv
  <2> QED BY <1>3, <1>4, <2>1 DEF SeizeConfirm
<1>5. CASE OtherTransmission
  <2>1. seizes' \in 0 .. MaxSeize
    BY <1>5 DEF OtherTransmission, IInv
  <2> QED BY <1>3, <1>5, <2>1 DEF OtherTransmission
<1>6. CASE SeizeDropped
  <2>1. seizes' \in 0 .. MaxSeize
    BY <1>6, SessionAssumption, SMT DEF SeizeDropped, IInv
  <2> QED BY <1>6, <2>1 DEF SeizeDropped, IInv
<1>7. ASSUME NEW busy \in BOOLEAN, ChannelBusy(busy) PROVE IInv' /\ (AckSecured => AckSecured')
  BY <1>0, <1>7, CarrierSeen, StepInv DEF ChannelBusy
<1>8. CASE T1Expires \/ T3Expires
  BY <1>0, <1>8, TimersExpire, StepInv DEF T1Expires, T3Expires
<1>9. ASSUME NEW m \in Msgs, ClientData(m) PROVE IInv' /\ (AckSecured => AckSecured')
  BY <1>0, <1>9, DataHandedOver, StepInv DEF ClientData
<1>10. CASE UNCHANGED vars
  BY <1>10 DEF vars, IInv, AckSecured
<1> QED BY <1>1, <1>2, <1>4, <1>5, <1>6, <1>7, <1>8, <1>9, <1>10 DEF Next

LEMMA Implied ==
  ASSUME IInv
  PROVE  TypeOK /\ NotFrozen /\ NothingDeliverableHeld /\ WindowKept
BY DEF IInv, TypeOK, NotFrozen, NothingDeliverableHeld, WindowKept, Outstanding, Good, Windowed

LEMMA Inductive == Spec => []IInv
BY InitInv, NextInv, PTL DEF Spec

\* Whatever the peer sends and in whatever order timers, carrier, client and
\* transmitter act, the fields of the ax25_dlsm_t keep their ranges: sequence
\* numbers stay below the modulus and the retry count does not pass n2_retry.
THEOREM LinkTyped == Spec => []TypeOK
BY Inductive, Implied, PTL

\* T1 is paused by pause_t1 only as long as there is a carrier: a link that waits
\* is never left waiting for a carrier to go that has gone.
THEOREM TimerThawed == Spec => []NotFrozen
BY Inductive, Implied, PTL

\* i_frame_continued never keeps in rxdata_by_ns the frame V(R) asks for, so no
\* frame that could be delivered is held back.
THEOREM NothingHeldBack == Spec => []NothingDeliverableHeld
BY Inductive, Implied, PTL

\* i_frame_pop_off_queue sends no more than the window allows, and SET_VA frees no
\* frame that is still unacknowledged: each of them can be sent again.
THEOREM WindowSafe == Spec => []WindowKept
BY Inductive, Implied, PTL

\* An acknowledgement that is owed has a null packet in the transmit queue until
\* it is sent, unless wait_for_clear_channel gives up and the packet is dropped.
THEOREM AckSafe == Spec => AckWillBeSent
<1>1. ASSUME IInv, [Next]_vars PROVE [AckSecured /\ ~AckSecured' => SeizeDropped]_vars
  BY <1>1, NextInv
<1> QED BY <1>1, Inductive, PTL DEF Spec, AckWillBeSent

-----------------------------------------------------------------------------
(* Timers.                                                                  *)

LEMMA StepArmed ==
  ASSUME IInv, [Next]_vars, TimerArmed
  PROVE  TimerArmed' \/ \E f \in PeerFrames : f.type = "SREJ" /\ PeerFrame(f)
<1>1. Good(link, TRUE) /\ Armed(link)
  BY DEF IInv, TimerArmed, Armed
<1>2. ASSUME NEW L, DOMAIN L = Fields, Armed(L), link' = Fresh(L) PROVE TimerArmed'
  <2>1. SameTimers(Fresh(L), L)
    BY <1>2, Untouched
  <2>2. Armed(Fresh(L))
    BY <1>2, <2>1, SameArmed
  <2> QED BY <1>2, <2>2 DEF Armed, TimerArmed
<1>3. ASSUME NEW f \in PeerFrames, PeerFrame(f), f.type # "SREJ" PROVE TimerArmed'
  <2>1. link' = Fresh(lm_data_indication(link, f))
    BY <1>3 DEF PeerFrame, Becomes
  <2>2. Good(lm_data_indication(link, f), TRUE)
    BY <1>1, DataIndication, PeerFrameReceivable
  <2>3. DOMAIN lm_data_indication(link, f) = Fields
    BY <2>2 DEF Good, Typed
  <2>4. Armed(lm_data_indication(link, f))
    <3>1. Receivable(f)
      BY PeerFrameReceivable
    <3> QED BY <1>1, <1>3, <3>1, IndicationArmed
  <2> QED BY <1>2, <2>1, <2>3, <2>4
<1>4. CASE SeizeConfirm \/ OtherTransmission
  <2>1. link' = Fresh(lm_seize_confirm(link))
    BY <1>4 DEF SeizeConfirm, OtherTransmission
  <2>2. Good(lm_seize_confirm(link), TRUE)
    BY <1>1, SeizeConfirmed
  <2>3. DOMAIN lm_seize_confirm(link) = Fields
    BY <2>2 DEF Good, Typed
  <2> QED BY <1>1, <1>2, <2>1, <2>3, ConfirmArmed
<1>5. ASSUME NEW busy \in BOOLEAN, ChannelBusy(busy) PROVE TimerArmed'
  <2>1. link' = Fresh(lm_channel_busy(link, busy))
    BY <1>5 DEF ChannelBusy, Becomes
  <2>2. Good(lm_channel_busy(link, busy), TRUE)
    BY <1>1, CarrierSeen
  <2>3. DOMAIN lm_channel_busy(link, busy) = Fields
    BY <2>2 DEF Good, Typed
  <2>4. Armed(lm_channel_busy(link, busy))
    BY <1>1, CarrierArmed
  <2> QED BY <1>2, <2>1, <2>3, <2>4
<1>6. CASE T1Expires \/ T3Expires
  <2>1. link' = Fresh(ExpireT1(link)) \/ link' = Fresh(ExpireT3(link))
    BY <1>6 DEF T1Expires, T3Expires, Becomes
  <2>2. Good(ExpireT1(link), TRUE) /\ Good(ExpireT3(link), TRUE)
    BY <1>1, TimersExpire
  <2>3. DOMAIN ExpireT1(link) = Fields /\ DOMAIN ExpireT3(link) = Fields
    BY <2>2 DEF Good, Typed
  <2>4. Armed(ExpireT1(link)) /\ Armed(ExpireT3(link))
    BY <1>1, ExpiryArmed
  <2> QED BY <1>2, <2>1, <2>3, <2>4
<1>7. ASSUME NEW m \in Msgs, ClientData(m) PROVE TimerArmed'
  <2> DEFINE L == SeizeForQueue([Fresh(link) EXCEPT !.i_frame_queue = Append(@, m)])
  <2>1. link' = Fresh(L)
    BY <1>7 DEF ClientData, Becomes
  <2>2. Good(L, TRUE)
    BY <1>1, DataHandedOver
  <2>3. Armed(L)
    BY <1>1, DataArmed
  <2> HIDE DEF L
  <2>4. DOMAIN L = Fields
    BY <2>2 DEF Good, Typed
  <2> QED BY <1>2, <2>1, <2>3, <2>4
<1>8. CASE PeerGone \/ SeizeDropped \/ UNCHANGED vars
  BY <1>8 DEF PeerGone, SeizeDropped, vars, TimerArmed
<1> QED BY <1>3, <1>4, <1>5, <1>6, <1>7, <1>8 DEF Next

\* The last timer of a link that waits for its peer does not stop on its own:
\* whatever timer, frame, confirmation or packet of the node makes the link
\* lose both T1 and T3, it was an SREJ of the peer.
THEOREM TimersSafe == Spec => TimerRuns
<1>1. ASSUME IInv, [Next]_vars
      PROVE  [TimerArmed /\ ~TimerArmed' =>
                \E f \in PeerFrames : f.type = "SREJ" /\ PeerFrame(f)]_vars
  BY <1>1, StepArmed
<1> QED BY <1>1, Inductive, PTL DEF Spec, TimerRuns
=============================================================================
