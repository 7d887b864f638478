-------------------------- MODULE Transmitter_proof --------------------------
(***************************************************************************)
(* Proofs about the transmit thread, for every set of producers and packets *)
(* and every limit.  ChannelNotLeaked rests on the transmit thread being    *)
(* the only one that removes packets: the list it has seen one in still has *)
(* one when the channel is claimed.  That and what the thread has in hand   *)
(* at each label make every step one of TransmitService or none.  That LO   *)
(* packets overtake late HI packets only follows from LateInv.              *)
(***************************************************************************)
EXTENDS Transmitter, TLAPS

\* The labels at which the transmit thread is on its way to a packet it has
\* seen, has one in hand, is in tx_frames, and has the transmitter keyed.
Claiming == {"dcd", "dwait", "slot", "trylock", "removeHI"}
InHand   == {"got", "key", "confirm", "send"}
Keyed    == {"confirm", "send", "moreHI", "moreLO", "takeHI", "takeLO", "tail"}
Sending  == Keyed \cup {"key", "unlock"}

QueueType == queue \in [TQ!Prio -> Seq(Packets)]

\* A packet that was seen is still there.
SeenInv ==
  /\ tpc \in Claiming => \E p \in TQ!Prio : queue[p] # <<>>
  /\ tpc = "removeLO" => queue["LO"] # <<>>

\* audio_out_dev_mutex is held from the claim to the end of the transmission.
LockInv ==
  audioLocked <=> \/ tpc \in Sending
                  \/ ok /\ tpc \in {"removeHI", "removeLO", "got"}

OkInv  == ok => tpc \in {"removeHI", "removeLO", "got"}
HeldInv ==
  /\ tpc \in InHand => \E x \in Packets : held = {x}
  /\ tpc \notin InHand => held = {}
PttInv == ptt <=> tpc \in Keyed

\* About to take a LO packet, the thread has found the HI list empty.
LateInv == tpc \in {"removeLO", "moreLO", "takeLO"} => Range(queue["HI"]) \subseteq late

IInv == QueueType /\ SeenInv /\ LockInv /\ OkInv /\ HeldInv /\ PttInv

-----------------------------------------------------------------------------
\* What a producer does to the queue: one packet that nobody has, at the end of
\* one list.
LEMMA ProduceAppends ==
  ASSUME NEW t \in TQ!Producers, Produce(t)
  PROVE  /\ UNCHANGED <<txvars, held>>
         /\ \E p \in TQ!Prio, x \in Packets :
              /\ queue' = [queue EXCEPT ![p] = Append(@, x)]
              /\ x \notin TQ!Queued \cup held
<1>1. UNCHANGED txvars /\ TQ!Produce(t)
  BY DEF Produce
<1>2. PICK x \in Packets : \/ TQ!tq_append(t, x) \/ TQ!lm_seize_request(t, x)
                           \/ \E p \in TQ!Prio : TQ!lm_data_request(t, p, x)
  BY <1>1 DEF TQ!Produce
<1>3. \E p \in TQ!Prio : TQ!Enqueue(t, p, x)
  BY <1>2 DEF TQ!tq_append, TQ!lm_seize_request, TQ!lm_data_request, TQ!Prio
<1> QED BY <1>1, <1>3 DEF TQ!Enqueue, TQ!Fresh

\* Removing takes the head of one list into the hand.
LEMMA RemoveTakes ==
  ASSUME QueueType, NEW p \in TQ!Prio, TQ!tq_remove(p), held = {}
  PROVE  /\ queue[p] # <<>>
         /\ queue' = [queue EXCEPT ![p] = Tail(@)]
         /\ QueueType'
         /\ Head(queue[p]) \in Packets
         /\ held' = {Head(queue[p])}
<1>1. /\ queue[p] \in Seq(Packets) /\ queue[p] # <<>>
      /\ queue' = [queue EXCEPT ![p] = Tail(@)]
      /\ held' = {Head(queue[p])}
  BY DEF TQ!tq_remove, QueueType
<1>2. Head(queue[p]) \in Packets /\ Tail(queue[p]) \in Seq(Packets)
  BY <1>1
<1> QED BY <1>1, <1>2 DEF QueueType

\* Before the first packet everything is empty, free and off.
LEMMA InitIInv == Init => IInv
<1> SUFFICES ASSUME Init PROVE IInv
  OBVIOUS
<1>1. queue = [p \in TQ!Prio |-> <<>>] /\ held = {} /\ tpc = "wait"
      /\ ok = FALSE /\ audioLocked = FALSE /\ ptt = FALSE
  BY DEF Init, TQ!Init, TQ!tq_init
<1>2. QueueType
  <2>1. <<>> \in Seq(Packets)
    OBVIOUS
  <2> QED BY <1>1, <2>1, Zenon DEF QueueType
<1> QED BY <1>1, <1>2 DEF IInv, SeenInv, LockInv, OkInv, HeldInv, PttInv, Claiming,
                           InHand, Keyed, Sending

\* An append hides no packet and takes none out of the hand.
LEMMA ProduceIInv ==
  ASSUME IInv, NEW t \in TQ!Producers, Produce(t)
  PROVE  IInv'
<1> USE DEF IInv
<1>1. PICK p \in TQ!Prio, x \in Packets : queue' = [queue EXCEPT ![p] = Append(@, x)]
  BY ProduceAppends
<1>2. UNCHANGED <<tpc, ok, audioLocked, ptt, held>>
  BY ProduceAppends DEF txvars
<1>3. QueueType'
  BY <1>1 DEF QueueType
<1>4. \A q \in TQ!Prio : queue[q] # <<>> => queue'[q] # <<>>
  <2>1. \A q \in TQ!Prio : queue[q] \in Seq(Packets)
    BY DEF QueueType
  <2>2. queue'[p] = Append(queue[p], x) /\ \A q \in TQ!Prio \ {p} : queue'[q] = queue[q]
    BY <1>1 DEF QueueType
  <2>3. queue'[p] # <<>>
    BY <2>1, <2>2
  <2> QED BY <2>2, <2>3
<1>5. SeenInv'
  BY <1>2, <1>4 DEF SeenInv, TQ!Prio
<1>6. LockInv' /\ OkInv' /\ HeldInv' /\ PttInv'
  BY <1>2 DEF LockInv, OkInv, HeldInv, PttInv
<1> QED BY <1>3, <1>5, <1>6

\* The steps that leave the queue and the hand alone.
LEMMA OtherIInv ==
  ASSUME IInv,
         \/ \E t \in TQ!Producers : Notify(t)
         \/ TakeConfirm \/ Waiting \/ SpuriousWake
  PROVE  IInv'
<1>1. UNCHANGED <<queue, held, tpc, ok, audioLocked, ptt>>
  BY DEF Notify, TakeConfirm, Waiting, SpuriousWake, txvars, tqvars,
         TQ!Notify, TQ!CheckWaiting, TQ!LockToSignal, TQ!Signal, TQ!UnlockAfterSignal,
         TQ!WaitStep, TQ!LockToWait, TQ!SetWaiting, TQ!CondWait, TQ!Relock,
         TQ!ClearWaiting, TQ!UnlockAfterWait, TQ!SpuriousWake
<1> QED BY <1>1 DEF IInv, QueueType, SeenInv, LockInv, OkInv, HeldInv, PttInv

\* From waiting for a packet to the claim of the channel.
LEMMA ClaimIInv ==
  ASSUME IInv, CallWait \/ PeekHI \/ PeekLO \/ ClearChannelStep
  PROVE  IInv'
<1> USE DEF IInv
<1>1. UNCHANGED <<queue, held, ptt>>
  BY DEF CallWait, PeekHI, PeekLO, ClearChannelStep, CheckCarrier, CheckAfterDwait,
         Slot, TryLock, Tick, Goto, EnterClearChannel, tqvars, TQ!TestEmpty
<1>2. tpc \notin InHand /\ tpc' \notin InHand /\ tpc \notin Keyed /\ tpc' \notin Keyed
  BY DEF CallWait, PeekHI, PeekLO, ClearChannelStep, CheckCarrier, CheckAfterDwait,
         Slot, TryLock, Tick, Goto, EnterClearChannel, At, InHand, Keyed
<1>3. QueueType' /\ HeldInv' /\ PttInv'
  BY <1>1, <1>2 DEF QueueType, HeldInv, PttInv
<1>4. CASE CallWait
  BY <1>1, <1>3, <1>4 DEF CallWait, At, SeenInv, LockInv, OkInv, Claiming, Sending, Keyed
<1>5. CASE PeekHI \/ PeekLO
  <2>1. tpc \notin Sending /\ tpc' \notin Sending \cup {"removeHI", "removeLO", "got"}
        /\ UNCHANGED <<ok, audioLocked>>
    BY <1>5 DEF PeekHI, PeekLO, At, Goto, EnterClearChannel, Sending, Keyed
  <2>2. LockInv' /\ OkInv'
    BY <1>5, <2>1 DEF LockInv, OkInv, PeekHI, PeekLO, At
  <2>3. tpc' \in Claiming => \E p \in TQ!Prio : queue[p] # <<>>
    BY <1>5 DEF PeekHI, PeekLO, Goto, Empty, TQ!tq_peek, TQ!Prio, Claiming
  <2>4. SeenInv'
    BY <1>1, <2>1, <2>3 DEF SeenInv
  <2> QED BY <1>3, <2>2, <2>4
<1>6. CASE ClearChannelStep
  <2>1. tpc \in Claiming \ {"removeHI"} /\ tpc' \in Claiming
    BY <1>6 DEF ClearChannelStep, CheckCarrier, CheckAfterDwait, Slot, TryLock, Tick,
                Goto, At, Claiming
  <2>2. SeenInv'
    BY <1>1, <2>1 DEF SeenInv, Claiming
  <2>3. ~audioLocked /\ ~ok
    BY <2>1 DEF LockInv, OkInv, Claiming, Sending, Keyed
  <2>4. \/ tpc' # "removeHI" /\ UNCHANGED <<ok, audioLocked>>
        \/ tpc' = "removeHI" /\ ok' = FALSE /\ audioLocked' = audioLocked
        \/ tpc' = "removeHI" /\ ok' = TRUE /\ audioLocked' = TRUE
    BY <1>6 DEF ClearChannelStep, CheckCarrier, CheckAfterDwait, Slot, TryLock, Tick, Goto
  <2>5. LockInv' /\ OkInv'
    BY <2>1, <2>3, <2>4 DEF LockInv, OkInv, Claiming, Sending, Keyed
  <2> QED BY <1>3, <2>2, <2>5
<1> QED BY <1>4, <1>5, <1>6

\* The packet that was seen is removed: RemoveLO cannot find its list empty.
LEMMA RemoveIInv ==
  ASSUME IInv, RemoveHI \/ RemoveLO
  PROVE  /\ IInv'
         /\ \/ UNCHANGED <<queue, held>>
            \/ \E p \in TQ!Prio : TQ!tq_remove(p) /\ held = {}
         /\ ptt' = ptt
<1> USE DEF IInv
<1>1. held = {} /\ ~ptt /\ ptt' = ptt /\ UNCHANGED <<ok, audioLocked>>
      /\ (audioLocked <=> ok)
  BY DEF RemoveHI, RemoveLO, At, HeldInv, PttInv, LockInv, InHand, Keyed, Sending
<1>2. CASE RemoveHI /\ queue["HI"] = <<>>
  <2>1. tpc = "removeHI" /\ tpc' = "removeLO" /\ UNCHANGED <<queue, held>>
    BY <1>2 DEF RemoveHI, At, Empty, TQ!tq_peek, tqvars
  <2>2. queue["LO"] # <<>>
    BY <1>2, <2>1 DEF SeenInv, Claiming, TQ!Prio
  <2> QED BY <1>1, <2>1, <2>2
          DEF QueueType, SeenInv, LockInv, OkInv, HeldInv, PttInv, Claiming, InHand,
              Keyed, Sending
<1>3. CASE ~(RemoveHI /\ queue["HI"] = <<>>)
  <2>1. PICK p \in TQ!Prio : TQ!tq_remove(p) /\ tpc' = "got"
    BY <1>3 DEF RemoveHI, RemoveLO, At, Empty, TQ!tq_peek, SeenInv, TQ!Prio
  <2>2. QueueType' /\ \E x \in Packets : held' = {x}
    BY <1>1, <2>1, RemoveTakes
  <2>3. SeenInv' /\ LockInv' /\ OkInv' /\ HeldInv' /\ PttInv'
    BY <1>1, <2>1, <2>2 DEF SeenInv, LockInv, OkInv, HeldInv, PttInv, Claiming, InHand,
                             Keyed, Sending
  <2> QED BY <1>1, <2>1, <2>2, <2>3
<1> QED BY <1>2, <1>3

\* The packet in hand is discarded, or taken on the air.
LEMMA GotIInv ==
  ASSUME IInv, DropPacket \/ EnterTxFrames \/ KeyUp \/ ConfirmSeize
  PROVE  IInv'
<1> USE DEF IInv
<1>1. queue' = queue /\ audioLocked' = audioLocked
  BY DEF DropPacket, EnterTxFrames, KeyUp, ConfirmSeize, tqvars, TQ!ax25_delete
<1>2. CASE DropPacket
  <2>1. tpc = "got" /\ ~ok /\ tpc' = "peekHI" /\ UNCHANGED <<ok, ptt>>
    BY <1>2 DEF DropPacket, At
  <2>2. held' = {}
    BY <1>2, <2>1 DEF DropPacket, TQ!ax25_delete, HeldInv, InHand
  <2> QED BY <1>1, <2>1, <2>2
          DEF QueueType, SeenInv, LockInv, OkInv, HeldInv, PttInv, Claiming, InHand,
              Keyed, Sending
<1>3. CASE EnterTxFrames
  BY <1>1, <1>3
     DEF EnterTxFrames, At, tqvars, QueueType, SeenInv, LockInv, OkInv, HeldInv, PttInv,
         Claiming, InHand, Keyed, Sending
<1>4. CASE KeyUp \/ ConfirmSeize
  BY <1>1, <1>4
     DEF KeyUp, ConfirmSeize, At, tqvars, QueueType, SeenInv, LockInv, OkInv, HeldInv,
         PttInv, Claiming, InHand, Keyed, Sending
<1> QED BY <1>2, <1>3, <1>4

\* The rest of the transmission.
LEMMA BurstIInv ==
  ASSUME IInv,
         \/ SendFrame \/ MoreHI \/ MoreLO
         \/ TakeNext("HI", "takeHI") \/ TakeNext("LO", "takeLO")
         \/ KeyDown \/ UnlockAudio
  PROVE  IInv'
<1> USE DEF IInv
<1>1. CASE SendFrame
  <2>1. tpc = "send" /\ tpc' = "moreHI" /\ UNCHANGED <<queue, ok, audioLocked, ptt>>
    BY <1>1 DEF SendFrame, At, TQ!ax25_delete
  <2>2. held' = {}
    BY <1>1, <2>1 DEF SendFrame, TQ!ax25_delete, HeldInv, InHand
  <2> QED BY <2>1, <2>2
          DEF QueueType, SeenInv, LockInv, OkInv, HeldInv, PttInv, Claiming, InHand,
              Keyed, Sending
<1>2. CASE MoreHI \/ MoreLO
  <2>1. /\ tpc \in {"moreHI", "moreLO"} /\ tpc' \in {"moreLO", "takeHI", "takeLO", "tail"}
        /\ UNCHANGED <<queue, held, ok, audioLocked, ptt>>
    BY <1>2 DEF MoreHI, MoreLO, At, Goto, tqvars
  <2> QED BY <2>1
          DEF QueueType, SeenInv, LockInv, OkInv, HeldInv, PttInv, Claiming, InHand,
              Keyed, Sending
<1>3. CASE TakeNext("HI", "takeHI") \/ TakeNext("LO", "takeLO")
  <2>1. PICK p \in TQ!Prio : TQ!tq_remove(p)
    BY <1>3 DEF TakeNext, TQ!Prio
  <2>2. /\ tpc \in {"takeHI", "takeLO"} /\ tpc' = "send"
        /\ UNCHANGED <<ok, audioLocked, ptt>>
    BY <1>3 DEF TakeNext, At
  <2>3. held = {}
    BY <2>2 DEF HeldInv, InHand
  <2>4. QueueType' /\ \E x \in Packets : held' = {x}
    BY <2>1, <2>3, RemoveTakes
  <2> QED BY <2>2, <2>4
          DEF SeenInv, LockInv, OkInv, HeldInv, PttInv, Claiming, InHand, Keyed, Sending
<1>4. CASE KeyDown \/ UnlockAudio
  BY <1>4
     DEF KeyDown, UnlockAudio, At, tqvars, QueueType, SeenInv, LockInv, OkInv, HeldInv,
         PttInv, Claiming, InHand, Keyed, Sending
<1> QED BY <1>1, <1>2, <1>3, <1>4

\* IInv holds in every state.
LEMMA IInvStep == IInv /\ [Next]_vars => IInv'
<1> SUFFICES ASSUME IInv, [Next]_vars PROVE IInv'
  OBVIOUS
<1>1. ASSUME NEW t \in TQ!Producers, Produce(t) PROVE IInv'
  BY <1>1, ProduceIInv
<1>2. CASE \/ \E t \in TQ!Producers : Notify(t)
           \/ TakeConfirm \/ Waiting \/ SpuriousWake
  BY <1>2, OtherIInv
<1>3. CASE CallWait \/ PeekHI \/ PeekLO \/ ClearChannelStep
  BY <1>3, ClaimIInv
<1>4. CASE RemoveHI \/ RemoveLO
  BY <1>4, RemoveIInv
<1>5. CASE DropPacket \/ EnterTxFrames \/ KeyUp \/ ConfirmSeize
  BY <1>5, GotIInv
<1>6. CASE \/ SendFrame \/ MoreHI \/ MoreLO
           \/ TakeNext("HI", "takeHI") \/ TakeNext("LO", "takeLO")
           \/ KeyDown \/ UnlockAudio
  BY <1>6, BurstIInv
<1>7. CASE UNCHANGED vars
  BY <1>7 DEF vars, tqvars, txvars, IInv, QueueType, SeenInv, LockInv, OkInv, HeldInv,
              PttInv
<1> QED BY <1>1, <1>2, <1>3, <1>4, <1>5, <1>6, <1>7 DEF Next, TxStep, TxFramesStep

\* Outside a transmission audio_out_dev_mutex is free: tx_thread never takes it
\* and then finds both lists empty.
THEOREM NoLeak == Spec => []ChannelNotLeaked
<1>1. IInv => ChannelNotLeaked
  BY DEF IInv, LockInv, ChannelNotLeaked, Sending, Keyed
<1> QED BY InitIInv, IInvStep, <1>1, PTL DEF Spec

-----------------------------------------------------------------------------
\* What a producer does is a Submit of the service.
LEMMA ProduceServes ==
  ASSUME IInv, NEW t \in TQ!Producers, Produce(t)
  PROVE  Service!SNext
<1>1. PICK p \in TQ!Prio, x \in Packets :
        /\ queue' = [queue EXCEPT ![p] = Append(@, x)]
        /\ x \notin TQ!Queued \cup held
  BY ProduceAppends
<1>2. UNCHANGED <<held, ptt>>
  BY ProduceAppends DEF txvars
<1>3. Service!Submit(p, x)
  BY <1>1, <1>2 DEF Service!Submit, Service!Range, TQ!Queued, TQ!Range
<1> QED BY <1>3 DEF Service!SNext

\* Removing a packet with nothing in hand is a Take.
LEMMA RemoveServes ==
  ASSUME IInv, NEW p \in TQ!Prio, TQ!tq_remove(p), held = {}, ptt' = ptt
  PROVE  Service!SNext
<1>1. /\ queue[p] # <<>>
      /\ queue' = [queue EXCEPT ![p] = Tail(@)]
      /\ held' = {Head(queue[p])}
  BY RemoveTakes DEF IInv
<1>2. Service!Take(p)
  BY <1>1 DEF Service!Take
<1> QED BY <1>2 DEF Service!SNext

\* The steps the service does not see.
LEMMA OtherServes ==
  ASSUME \/ \E t \in TQ!Producers : Notify(t)
         \/ TakeConfirm \/ Waiting \/ SpuriousWake
         \/ CallWait \/ PeekHI \/ PeekLO \/ ClearChannelStep
         \/ EnterTxFrames \/ ConfirmSeize \/ MoreHI \/ MoreLO \/ UnlockAudio
         \/ UNCHANGED vars
  PROVE  UNCHANGED Service!svars
<1>1. CASE (\E t \in TQ!Producers : Notify(t)) \/ TakeConfirm \/ Waiting \/ SpuriousWake
  BY <1>1
     DEF Service!svars, Notify, TakeConfirm, Waiting, SpuriousWake, txvars, tqvars,
         TQ!Notify, TQ!CheckWaiting, TQ!LockToSignal, TQ!Signal, TQ!UnlockAfterSignal,
         TQ!WaitStep, TQ!LockToWait, TQ!SetWaiting, TQ!CondWait, TQ!Relock,
         TQ!ClearWaiting, TQ!UnlockAfterWait, TQ!SpuriousWake
<1>2. CASE CallWait \/ PeekHI \/ PeekLO \/ ClearChannelStep
  BY <1>2
     DEF Service!svars, CallWait, PeekHI, PeekLO, ClearChannelStep, CheckCarrier,
         CheckAfterDwait, Slot, TryLock, Tick, Goto, EnterClearChannel, tqvars,
         TQ!TestEmpty
<1>3. CASE \/ EnterTxFrames \/ ConfirmSeize \/ MoreHI \/ MoreLO \/ UnlockAudio
           \/ UNCHANGED vars
  BY <1>3
     DEF Service!svars, EnterTxFrames, ConfirmSeize, MoreHI, MoreLO, UnlockAudio, Goto,
         vars, tqvars, txvars
<1> QED BY <1>1, <1>2, <1>3

\* Keying, sending, discarding and the end of a transmission.
LEMMA SendServes ==
  ASSUME IInv, DropPacket \/ KeyUp \/ SendFrame \/ KeyDown
  PROVE  Service!SNext
<1> USE DEF IInv
<1>1. CASE DropPacket
  <2>1. tpc = "got" /\ UNCHANGED <<queue, ptt>>
    BY <1>1 DEF DropPacket, At, TQ!ax25_delete
  <2>2. ~ptt /\ held # {} /\ held' = {}
    BY <1>1, <2>1 DEF DropPacket, TQ!ax25_delete, HeldInv, PttInv, InHand, Keyed
  <2> QED BY <2>1, <2>2 DEF Service!SNext, Service!Discard
<1>2. CASE KeyUp
  BY <1>2 DEF KeyUp, At, tqvars, HeldInv, PttInv, InHand, Keyed, Service!SNext, Service!Key
<1>3. CASE SendFrame
  <2>1. tpc = "send" /\ UNCHANGED <<queue, ptt>>
    BY <1>3 DEF SendFrame, At, TQ!ax25_delete
  <2>2. ptt /\ held # {} /\ held' = {}
    BY <1>3, <2>1 DEF SendFrame, TQ!ax25_delete, HeldInv, PttInv, InHand, Keyed
  <2> QED BY <2>1, <2>2 DEF Service!SNext, Service!Finish
<1>4. CASE KeyDown
  BY <1>4
     DEF KeyDown, At, tqvars, HeldInv, PttInv, InHand, Keyed, Service!SNext,
         Service!Unkey
<1> QED BY <1>1, <1>2, <1>3, <1>4

\* The first packet of a transmission and those that follow it.
LEMMA TakeServes ==
  ASSUME IInv,
         \/ RemoveHI \/ RemoveLO
         \/ TakeNext("HI", "takeHI") \/ TakeNext("LO", "takeLO")
  PROVE  [Service!SNext]_(Service!svars)
<1>1. CASE RemoveHI \/ RemoveLO
  <2>1. /\ ptt' = ptt
        /\ \/ UNCHANGED <<queue, held>>
           \/ \E p \in TQ!Prio : TQ!tq_remove(p) /\ held = {}
    BY <1>1, RemoveIInv
  <2> QED BY <2>1, RemoveServes DEF Service!svars
<1>2. CASE TakeNext("HI", "takeHI") \/ TakeNext("LO", "takeLO")
  <2>1. PICK p \in TQ!Prio : TQ!tq_remove(p)
    BY <1>2 DEF TakeNext, TQ!Prio
  <2>2. tpc \in {"takeHI", "takeLO"} /\ ptt' = ptt
    BY <1>2 DEF TakeNext, At
  <2>3. held = {}
    BY <2>2 DEF IInv, HeldInv, InHand
  <2> QED BY <2>1, <2>2, <2>3, RemoveServes
<1> QED BY <1>1, <1>2

\* Every step of the transmit side is one of TransmitService or none.
LEMMA StepServes == IInv /\ [Next]_vars => [Service!SNext]_(Service!svars)
<1> SUFFICES ASSUME IInv, [Next]_vars PROVE [Service!SNext]_(Service!svars)
  OBVIOUS
<1>1. ASSUME NEW t \in TQ!Producers, Produce(t) PROVE Service!SNext
  BY <1>1, ProduceServes
<1>2. CASE \/ \E t \in TQ!Producers : Notify(t)
           \/ TakeConfirm \/ Waiting \/ SpuriousWake
           \/ CallWait \/ PeekHI \/ PeekLO \/ ClearChannelStep
           \/ EnterTxFrames \/ ConfirmSeize \/ MoreHI \/ MoreLO \/ UnlockAudio
           \/ UNCHANGED vars
  BY <1>2, OtherServes
<1>3. CASE \/ RemoveHI \/ RemoveLO
           \/ TakeNext("HI", "takeHI") \/ TakeNext("LO", "takeLO")
  BY <1>3, TakeServes
<1>4. CASE DropPacket \/ KeyUp \/ SendFrame \/ KeyDown
  BY <1>4, SendServes
<1> QED BY <1>1, <1>2, <1>3, <1>4 DEF Next, TxStep, TxFramesStep

\* The transmit queue and the transmit thread together do to packets what
\* TransmitService promises: each priority in order, one at a time, keyed only
\* with a packet in hand, none thrown away on the air.
THEOREM Refinement == Spec => ImplementsService
<1>1. Init => Service!SInit
  BY DEF Init, TQ!Init, TQ!tq_init, Service!SInit
<1> QED BY InitIInv, IInvStep, StepServes, <1>1, PTL
        DEF Spec, ImplementsService, Service!SSpec

-----------------------------------------------------------------------------
\* A HI packet is late unless it is seen by the look that is still to come.
LEMMA LateStep == IInv /\ LateInv /\ [Next]_vars => LateInv'
<1> SUFFICES ASSUME IInv, LateInv, [Next]_vars PROVE LateInv'
  OBVIOUS
<1>1. ASSUME NEW t \in TQ!Producers, Produce(t) PROVE LateInv'
  <2>1. tpc' = tpc
    BY <1>1 DEF Produce, txvars
  <2>2. tpc \in Choosing =>
          late' = late \cup (Range(queue'["HI"]) \ Range(queue["HI"]))
    BY <1>1 DEF Produce
  <2> QED BY <2>1, <2>2, Zenon DEF LateInv, Choosing
<1>2. CASE \/ \E t \in TQ!Producers : Notify(t)
           \/ TakeConfirm \/ Waiting \/ SpuriousWake \/ UNCHANGED vars
  <2>1. UNCHANGED <<queue, tpc, late>>
    BY <1>2
       DEF Notify, TakeConfirm, Waiting, SpuriousWake, vars, txvars, tqvars,
           TQ!Notify, TQ!CheckWaiting, TQ!LockToSignal, TQ!Signal,
           TQ!UnlockAfterSignal, TQ!WaitStep, TQ!LockToWait, TQ!SetWaiting,
           TQ!CondWait, TQ!Relock, TQ!ClearWaiting, TQ!UnlockAfterWait,
           TQ!SpuriousWake
  <2> QED BY <2>1 DEF LateInv
<1>3. CASE RemoveHI \/ MoreHI \/ MoreLO
  <2>1. CASE tpc' \in {"removeLO", "moreLO"} /\ tpc # "moreLO"
    <3>1. queue["HI"] = <<>> /\ queue' = queue
      BY <1>3, <2>1 DEF RemoveHI, MoreHI, MoreLO, At, Goto, Empty, TQ!tq_peek, tqvars
    <3>2. Range(queue'["HI"]) = {}
      BY <3>1 DEF Range
    <3> QED BY <3>2 DEF LateInv
  <2>2. CASE ~(tpc' \in {"removeLO", "moreLO"} /\ tpc # "moreLO")
    BY <1>3, <2>2 DEF RemoveHI, MoreHI, MoreLO, At, Goto, tqvars, LateInv
  <2> QED BY <2>1, <2>2
<1>4. CASE \/ CallWait \/ PeekHI \/ PeekLO \/ ClearChannelStep \/ RemoveLO
           \/ DropPacket \/ EnterTxFrames \/ KeyUp \/ ConfirmSeize \/ SendFrame
           \/ TakeNext("HI", "takeHI") \/ TakeNext("LO", "takeLO")
           \/ KeyDown \/ UnlockAudio
  <2>1. tpc' \notin {"removeLO", "moreLO", "takeLO"}
    BY <1>4
       DEF CallWait, PeekHI, PeekLO, ClearChannelStep, CheckCarrier, CheckAfterDwait,
           Slot, TryLock, Tick, Goto, EnterClearChannel, RemoveLO, DropPacket,
           EnterTxFrames, KeyUp, ConfirmSeize, SendFrame, TakeNext, KeyDown, UnlockAudio
  <2> QED BY <2>1 DEF LateInv
<1> QED BY <1>1, <1>2, <1>3, <1>4 DEF Next, TxStep, TxFramesStep

\* Only a removal makes the LO list shorter, at the labels LateInv names.
LEMMA ShorterOnlyByRemoval ==
  ASSUME IInv, [Next]_vars, Len(queue'["LO"]) < Len(queue["LO"])
  PROVE  tpc \in {"removeLO", "takeLO"}
<1> USE DEF IInv
<1>1. queue["LO"] \in Seq(Packets) /\ queue["HI"] \in Seq(Packets)
  BY DEF QueueType, TQ!Prio
<1>2. queue' # queue
  BY <1>1
<1>3. ASSUME NEW t \in TQ!Producers, Produce(t) PROVE FALSE
  <2>1. PICK p \in TQ!Prio, x \in Packets : queue' = [queue EXCEPT ![p] = Append(@, x)]
    BY <1>3, ProduceAppends
  <2>2. \/ queue'["LO"] = queue["LO"]
        \/ queue'["LO"] = Append(queue["LO"], x)
    BY <2>1 DEF QueueType, TQ!Prio
  <2>3. Len(queue'["LO"]) >= Len(queue["LO"])
    BY <1>1, <2>2
  <2> QED BY <1>1, <2>2, <2>3
<1>4. CASE RemoveHI \/ TakeNext("HI", "takeHI")
  <2>1. \/ queue' = queue
        \/ queue' = [queue EXCEPT !["HI"] = Tail(@)]
    BY <1>4 DEF RemoveHI, TakeNext, TQ!tq_remove, tqvars
  <2>2. queue'["LO"] = queue["LO"]
    BY <2>1 DEF QueueType, TQ!Prio
  <2> QED BY <1>1, <2>2
<1>5. CASE RemoveLO \/ TakeNext("LO", "takeLO")
  BY <1>5 DEF RemoveLO, TakeNext, At
<1>6. CASE \/ \E t \in TQ!Producers : Notify(t)
           \/ TakeConfirm \/ Waiting \/ SpuriousWake
           \/ CallWait \/ PeekHI \/ PeekLO \/ ClearChannelStep
           \/ EnterTxFrames \/ ConfirmSeize \/ MoreHI \/ MoreLO \/ UnlockAudio
           \/ UNCHANGED vars
  BY <1>2, <1>6, OtherServes DEF Service!svars
<1>7. CASE DropPacket \/ KeyUp \/ SendFrame \/ KeyDown
  BY <1>2, <1>7 DEF DropPacket, KeyUp, SendFrame, KeyDown, TQ!ax25_delete, tqvars
<1> QED BY <1>3, <1>4, <1>5, <1>6, <1>7 DEF Next, TxStep, TxFramesStep

\* A LO packet goes before a HI packet only if the transmit thread had looked
\* at the HI list before that one was there.
THEOREM Overtaking == Spec => OvertakenOnlyByLate
<1>1. Init => LateInv
  BY DEF Init, LateInv
<1>2. IInv /\ LateInv /\ [Next]_vars =>
        [Len(queue'["LO"]) < Len(queue["LO"]) => Range(queue["HI"]) \subseteq late]_vars
  BY ShorterOnlyByRemoval DEF LateInv
<1> QED BY InitIInv, IInvStep, LateStep, <1>1, <1>2, PTL DEF Spec, OvertakenOnlyByLate

-----------------------------------------------------------------------------
\* A frame is taken for a transmission only if it has room for it.
BurstInv == tpc \notin {"moreHI", "tail"} => numframe < MaxBurst

TypeInv == TypeOK /\ BurstInv

\* tq.c keeps the types of its state, whoever calls it.
LEMMA QueueCallType ==
  ASSUME TQ!TypeOK,
         \/ \E t \in TQ!Producers : TQ!Produce(t) \/ TQ!Notify(t)
         \/ TQ!TestEmpty \/ TQ!WaitStep \/ TQ!SpuriousWake
         \/ \E p \in TQ!Prio : TQ!tq_remove(p)
         \/ \E x \in Packets : TQ!ax25_delete(x)
         \/ UNCHANGED tqvars
  PROVE  TQ!TypeOK'
<1> USE DEF TQ!TypeOK, TQ!PPC, TQ!WPC
<1>1. ASSUME NEW t \in TQ!Producers, TQ!Produce(t) PROVE TQ!TypeOK'
  <2>1. ASSUME NEW p \in TQ!Prio, NEW x \in Packets, TQ!Enqueue(t, p, x) PROVE TQ!TypeOK'
    BY <2>1 DEF TQ!Enqueue, TQ!AfterCheck
  <2> QED BY <1>1, <2>1 DEF TQ!Produce, TQ!tq_append, TQ!lm_data_request,
                            TQ!lm_seize_request, TQ!Prio
<1>2. ASSUME NEW t \in TQ!Producers, TQ!Notify(t) PROVE TQ!TypeOK'
  BY <1>2 DEF TQ!Notify, TQ!CheckWaiting, TQ!AfterCheck, TQ!LockToSignal, TQ!Signal,
              TQ!UnlockAfterSignal
<1>3. CASE TQ!TestEmpty \/ TQ!WaitStep \/ TQ!SpuriousWake
  BY <1>3 DEF TQ!TestEmpty, TQ!WaitStep, TQ!LockToWait, TQ!SetWaiting, TQ!CondWait,
              TQ!SpuriousWake, TQ!Relock, TQ!ClearWaiting, TQ!UnlockAfterWait
<1>4. ASSUME NEW p \in TQ!Prio, TQ!tq_remove(p) PROVE TQ!TypeOK'
  <2>1. queue[p] \in Seq(Packets) /\ queue[p] # <<>>
    BY <1>4 DEF TQ!tq_remove
  <2>2. Head(queue[p]) \in Packets /\ Tail(queue[p]) \in Seq(Packets)
    BY <2>1
  <2> QED BY <1>4, <2>2 DEF TQ!tq_remove
<1>5. ASSUME NEW x \in Packets, TQ!ax25_delete(x) PROVE TQ!TypeOK'
  BY <1>5 DEF TQ!ax25_delete
<1>6. CASE UNCHANGED tqvars
  BY <1>6 DEF tqvars
<1> QED BY <1>1, <1>2, <1>3, <1>4, <1>5, <1>6

LEMMA InitTypeInv == Init => TypeInv
<1> SUFFICES ASSUME Init PROVE TypeInv
  OBVIOUS
<1>1. queue \in [TQ!Prio -> Seq(Packets)]
  BY InitIInv DEF IInv, QueueType
<1>2. TQ!TypeOK
  BY <1>1 DEF Init, TQ!Init, TQ!tq_init, TQ!TypeOK, TQ!PPC, TQ!WPC
<1>3. 0 \in 0 .. MaxTries /\ 0 \in 0 .. MaxBurst /\ 0 \in 0 .. MaxConfirms /\ 0 < MaxBurst
  BY TransmitterAssumption
<1> QED BY <1>2, <1>3 DEF Init, TypeInv, TypeOK, BurstInv, TPC

\* The steps of the other threads, and those of the transmit thread inside tq.c.
LEMMA OtherTypeInv ==
  ASSUME TypeInv,
         \/ \E t \in TQ!Producers : Produce(t) \/ Notify(t)
         \/ TakeConfirm \/ Waiting \/ SpuriousWake \/ UNCHANGED vars
  PROVE  TypeInv'
<1> USE DEF TypeInv, TypeOK
<1>1. TQ!TypeOK'
  BY QueueCallType DEF Produce, Notify, TakeConfirm, Waiting, SpuriousWake, vars
<1>2. /\ UNCHANGED <<tpc, n, ok, numframe, audioLocked, ptt>>
      /\ (confirms' = confirms \/ (confirms > 0 /\ confirms' = confirms - 1))
  BY DEF Produce, Notify, TakeConfirm, Waiting, SpuriousWake, vars, txvars
<1>3. confirms' \in 0 .. MaxConfirms
  BY <1>2, TransmitterAssumption
<1>4. late' \subseteq Packets
  <2>1. CASE \E t \in TQ!Producers : Produce(t)
    <3>1. late' \subseteq late \cup Range(queue'["HI"])
      BY <2>1 DEF Produce
    <3>2. queue'["HI"] \in Seq(Packets)
      BY <1>1 DEF TQ!TypeOK, TQ!Prio
    <3>3. Range(queue'["HI"]) \subseteq Packets
      BY <3>2 DEF Range
    <3> QED BY <3>1, <3>3
  <2>2. CASE ~\E t \in TQ!Producers : Produce(t)
    BY <2>2 DEF Notify, TakeConfirm, Waiting, SpuriousWake, vars
  <2> QED BY <2>1, <2>2
<1> QED BY <1>1, <1>2, <1>3, <1>4 DEF BurstInv

\* From waiting for a packet to the claim of the channel: the tick count stays
\* within its limit.
LEMMA ClaimTypeInv ==
  ASSUME TypeInv, CallWait \/ PeekHI \/ PeekLO \/ ClearChannelStep
  PROVE  TypeInv'
<1> USE DEF TypeInv, TypeOK
<1>1. TQ!TypeOK'
  BY QueueCallType
     DEF CallWait, PeekHI, PeekLO, ClearChannelStep, CheckCarrier, CheckAfterDwait, Slot,
         TryLock, Tick, Goto, EnterClearChannel
<1>2. /\ UNCHANGED <<numframe, ptt, confirms, late>>
      /\ tpc' \in TPC /\ tpc \notin {"moreHI", "tail"} /\ tpc' \notin {"moreHI", "tail"}
      /\ ok' \in BOOLEAN /\ audioLocked' \in BOOLEAN
  BY DEF CallWait, PeekHI, PeekLO, ClearChannelStep, CheckCarrier, CheckAfterDwait, Slot,
         TryLock, Tick, Goto, EnterClearChannel, At, TPC
<1>3. n' \in 0 .. MaxTries
  <2>1. \/ n' = n \/ n' = 0
        \/ n < MaxTries /\ n' = n + 1
    BY DEF CallWait, PeekHI, PeekLO, ClearChannelStep, CheckCarrier, CheckAfterDwait, Slot,
           TryLock, Tick, Goto, EnterClearChannel
  <2> QED BY <2>1, TransmitterAssumption
<1> QED BY <1>1, <1>2, <1>3 DEF BurstInv

\* From the removal of the first packet to the key.
LEMMA GotTypeInv ==
  ASSUME TypeInv, \/ RemoveHI \/ RemoveLO \/ DropPacket \/ EnterTxFrames
                  \/ KeyUp \/ ConfirmSeize \/ UnlockAudio
  PROVE  TypeInv'
<1> USE DEF TypeInv, TypeOK
<1>1. TQ!TypeOK'
  <2>1. \A x \in held : x \in Packets
    BY DEF TQ!TypeOK
  <2> QED BY <2>1, QueueCallType
     DEF RemoveHI, RemoveLO, DropPacket, EnterTxFrames, KeyUp, ConfirmSeize, UnlockAudio,
         TQ!Prio, tqvars
<1>2. /\ UNCHANGED <<numframe, n>>
      /\ tpc' \in TPC /\ tpc \notin {"moreHI", "tail"} /\ tpc' \notin {"moreHI", "tail"}
      /\ ok' \in BOOLEAN /\ audioLocked' \in BOOLEAN /\ ptt' \in BOOLEAN
      /\ late' \in {late, {}}
      /\ (confirms' = confirms \/ (confirms < MaxConfirms /\ confirms' = confirms + 1))
  BY DEF RemoveHI, RemoveLO, DropPacket, EnterTxFrames, KeyUp, ConfirmSeize, UnlockAudio, At,
         TPC, dlq_seize_confirm
<1>3. confirms' \in 0 .. MaxConfirms
  BY <1>2, TransmitterAssumption
<1> QED BY <1>1, <1>2, <1>3 DEF BurstInv

\* The burst: at most MaxBurst frames.
LEMMA BurstTypeInv ==
  ASSUME TypeInv, \/ SendFrame \/ MoreHI \/ MoreLO
                  \/ TakeNext("HI", "takeHI") \/ TakeNext("LO", "takeLO") \/ KeyDown
  PROVE  TypeInv'
<1> USE DEF TypeInv, TypeOK
<1>1. TQ!TypeOK'
  <2>1. \A x \in held : x \in Packets
    BY DEF TQ!TypeOK
  <2> QED BY <2>1, QueueCallType
     DEF SendFrame, MoreHI, MoreLO, TakeNext, KeyDown, Goto, TQ!Prio
<1>2. /\ UNCHANGED <<n, ok, audioLocked>>
      /\ tpc' \in TPC /\ ptt' \in BOOLEAN /\ late' \in {late, {}}
      /\ (confirms' = confirms \/ (confirms < MaxConfirms /\ confirms' = confirms + 1))
  BY DEF SendFrame, MoreHI, MoreLO, TakeNext, KeyDown, Goto, TPC, send_one_frame,
         dlq_seize_confirm
<1>3. confirms' \in 0 .. MaxConfirms
  BY <1>2, TransmitterAssumption
<1>4. numframe' \in 0 .. MaxBurst /\ BurstInv'
  <2>1. CASE SendFrame
    <3>1. /\ tpc = "send" /\ tpc' = "moreHI"
          /\ numframe' = numframe \/ numframe' = numframe + 1
      BY <2>1 DEF SendFrame, At, send_one_frame
    <3> QED BY <3>1, TransmitterAssumption DEF BurstInv
  <2>2. CASE MoreHI \/ MoreLO \/ TakeNext("HI", "takeHI") \/ TakeNext("LO", "takeLO")
    <3>1. /\ numframe' = numframe
          /\ tpc \in {"moreHI", "tail"} /\ tpc' \notin {"moreHI", "tail"} =>
               numframe < MaxBurst
      BY <2>2, TransmitterAssumption DEF MoreHI, MoreLO, TakeNext, Goto, At
    <3>2. tpc' # "moreHI"
      BY <2>2 DEF MoreHI, MoreLO, TakeNext, Goto, At
    <3> QED BY <3>1, <3>2 DEF BurstInv
  <2>3. CASE KeyDown
    BY <2>3, TransmitterAssumption DEF KeyDown, BurstInv
  <2> QED BY <2>1, <2>2, <2>3
<1> QED BY <1>1, <1>2, <1>3, <1>4

\* The wait for a clear channel ends within its limit, a transmission has at most
\* MaxBurst frames, and everything else keeps its type.
THEOREM WithinLimits == Spec => []TypeOK
<1>1. TypeInv /\ [Next]_vars => TypeInv'
  BY OtherTypeInv, ClaimTypeInv, GotTypeInv, BurstTypeInv DEF Next, TxStep, TxFramesStep
<1>2. TypeInv => TypeOK
  BY DEF TypeInv
<1> QED BY InitTypeInv, <1>1, <1>2, PTL DEF Spec
=============================================================================
