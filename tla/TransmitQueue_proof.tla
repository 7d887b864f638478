------------------------- MODULE TransmitQueue_proof -------------------------
(***************************************************************************)
(* Proofs about the transmit queue, for every set of producers and packets. *)
(* TypeOK is inductive.  MissedOnlyInWindow is not: it needs to know who    *)
(* holds wake_up_mutex, when xmit_thread_is_waiting is set, and that the    *)
(* queue holds nothing but missed packets while the transmit thread is on   *)
(* its way to sleep.                                                        *)
(***************************************************************************)
EXTENDS TransmitQueue, TLAPS

\* wake_up_mutex is held exactly between a lock and the unlock after it.
MutexInv ==
  /\ \A t \in Producers : ppc[t] \in {"signal", "unlock"} <=> wakeMutex = t
  /\ wpc \in {"set", "wait", "clear", "unlock"} <=> wakeMutex = "tx"

\* xmit_thread_is_waiting covers the wait, from before it to after it.
FlagInv == waiting <=> wpc \in {"wait", "asleep", "woken", "clear"}

\* What the queue can hold while the transmit thread goes to sleep.
WindowInv == wpc \in Window => Queued \subseteq missed
SleepInv  == wpc \in {"wait", "asleep"} =>
               \/ Queued \subseteq missed
               \/ \E t \in Producers : ppc[t] \in Notifying

IInv == TypeOK /\ MutexInv /\ FlagInv /\ WindowInv /\ SleepInv

-----------------------------------------------------------------------------
\* Appending to a list adds that packet to the queue and no other.
LEMMA QueuedAppend ==
  ASSUME queue \in [Prio -> Seq(Packets)], NEW p \in Prio, NEW x \in Packets,
         queue' = [queue EXCEPT ![p] = Append(@, x)]
  PROVE  Queued' \subseteq Queued \cup {x}
<1>1. \A q \in Prio : Range(queue'[q]) \subseteq Range(queue[q]) \cup {x}
  <2>1. ASSUME NEW q \in Prio, NEW y \in Range(queue'[q])
        PROVE  y \in Range(queue[q]) \cup {x}
    <3>1. CASE q = p
      <4>1. queue'[q] = Append(queue[q], x) /\ queue[q] \in Seq(Packets)
        BY <3>1
      <4>2. PICK i \in DOMAIN queue'[q] : y = queue'[q][i]
        BY DEF Range
      <4>3. i \in 1 .. Len(queue[q]) + 1
        BY <4>1, <4>2
      <4>4. CASE i = Len(queue[q]) + 1
        BY <4>1, <4>2, <4>4
      <4>5. CASE i \in 1 .. Len(queue[q])
        BY <4>1, <4>2, <4>5 DEF Range
      <4> QED BY <4>1, <4>3, <4>4, <4>5
    <3>2. CASE q # p
      BY <3>2
    <3> QED BY <3>1, <3>2
  <2> QED BY <2>1
<1> QED BY <1>1 DEF Queued

\* Taking the head of a list adds nothing to the queue.
LEMMA QueuedTail ==
  ASSUME queue \in [Prio -> Seq(Packets)], NEW p \in Prio, queue[p] # <<>>,
         queue' = [queue EXCEPT ![p] = Tail(@)]
  PROVE  Queued' \subseteq Queued
<1>1. \A q \in Prio : Range(queue'[q]) \subseteq Range(queue[q])
  <2>1. ASSUME NEW q \in Prio, NEW y \in Range(queue'[q])
        PROVE  y \in Range(queue[q])
    <3>1. CASE q = p
      <4>1. queue'[q] = Tail(queue[q]) /\ queue[q] \in Seq(Packets)
            /\ queue[q] # <<>>
        BY <3>1
      <4>2. PICK i \in DOMAIN queue'[q] : y = queue'[q][i]
        BY DEF Range
      <4>3. i + 1 \in 1 .. Len(queue[q]) /\ y = queue[q][i + 1]
        BY <4>1, <4>2
      <4> QED BY <4>1, <4>3 DEF Range
    <3>2. CASE q # p
      BY <3>2
    <3> QED BY <3>1, <3>2
  <2> QED BY <2>1
<1> QED BY <1>1 DEF Queued

\* An empty queue holds no packet.
LEMMA QueuedEmpty == ASSUME tq_is_empty PROVE Queued = {}
<1>1. \A p \in Prio : Range(queue[p]) = {}
  BY DEF tq_is_empty, Range
<1> QED BY <1>1 DEF Queued

-----------------------------------------------------------------------------
\* The variables keep their types, whoever calls and whenever the transmit
\* thread wakes.
LEMMA TypeStep == TypeOK /\ [Next]_vars => TypeOK'
<1> SUFFICES ASSUME TypeOK, [Next]_vars PROVE TypeOK'
  OBVIOUS
<1> USE DEF TypeOK, PPC, WPC
<1>1. ASSUME NEW t \in Producers, NEW p \in Prio, NEW x \in Packets,
             Enqueue(t, p, x)
      PROVE  TypeOK'
  BY <1>1 DEF Enqueue, AfterCheck
<1>2. ASSUME NEW t \in Producers, Produce(t) PROVE TypeOK'
  BY <1>1, <1>2 DEF Produce, tq_append, lm_data_request, lm_seize_request, Prio
<1>3. ASSUME NEW t \in Producers, Notify(t) PROVE TypeOK'
  BY <1>3 DEF Notify, CheckWaiting, AfterCheck, LockToSignal, Signal,
              UnlockAfterSignal
<1>4. CASE TestEmpty
  BY <1>4 DEF TestEmpty
<1>5. CASE WaitStep \/ SpuriousWake
  BY <1>5 DEF WaitStep, LockToWait, SetWaiting, CondWait, SpuriousWake, Relock,
              ClearWaiting, UnlockAfterWait
<1>6. ASSUME NEW p \in Prio, tq_remove(p) PROVE TypeOK'
  <2>1. queue[p] \in Seq(Packets) /\ queue[p] # <<>>
    BY <1>6 DEF tq_remove
  <2>2. Head(queue[p]) \in Packets /\ Tail(queue[p]) \in Seq(Packets)
    BY <2>1
  <2> QED BY <1>6, <2>2 DEF tq_remove
<1>7. ASSUME NEW x \in Packets, ax25_delete(x) PROVE TypeOK'
  BY <1>7 DEF ax25_delete
<1>8. CASE UNCHANGED vars
  BY <1>8 DEF vars
<1> QED BY <1>2, <1>3, <1>4, <1>5, <1>6, <1>7, <1>8 DEF Next, Consume

\* tq_init and the start of the threads give every variable its type.
LEMMA InitType == Init => TypeOK
<1> SUFFICES ASSUME Init PROVE TypeOK
  OBVIOUS
<1>1. queue \in [Prio -> Seq(Packets)]
  <2>1. <<>> \in Seq(Packets)
    OBVIOUS
  <2> QED BY <2>1, Zenon DEF Init, tq_init
<1>2. /\ held \subseteq Packets /\ waiting \in BOOLEAN /\ missed \subseteq Packets
      /\ wakeMutex \in Producers \cup {"tx", NoOne} /\ wpc \in WPC
      /\ ppc \in [Producers -> PPC]
  BY DEF Init, tq_init, PPC, WPC
<1> QED BY <1>1, <1>2 DEF TypeOK

\* Every state of the queue, of the wake-up mutex and flag and of the threads
\* inside tq.c has its type.
THEOREM TypeCorrect == Spec => []TypeOK
<1> QED BY InitType, TypeStep, PTL DEF Spec

-----------------------------------------------------------------------------
\* At the start nobody holds wake_up_mutex and the transmit thread is not about
\* to sleep.
LEMMA InitIInv == Init => IInv
<1> SUFFICES ASSUME Init PROVE IInv
  OBVIOUS
<1>1. TypeOK
  BY InitType
<1>2. MutexInv /\ FlagInv /\ WindowInv /\ SleepInv
  BY ConstantsAssumption
     DEF Init, tq_init, MutexInv, FlagInv, WindowInv, SleepInv, Window, Producers
<1> QED BY <1>1, <1>2 DEF IInv

\* An append in the window is a missed packet; a later one finds the flag set.
LEMMA EnqueueIInv ==
  ASSUME IInv, TypeOK', NEW t \in Producers, NEW p \in Prio,
         NEW x \in Packets, Enqueue(t, p, x)
  PROVE  IInv'
<1> USE DEF IInv
<1>1. MutexInv' /\ FlagInv'
  BY DEF Enqueue, AfterCheck, MutexInv, FlagInv, TypeOK
<1>2. Queued' \subseteq Queued \cup {x} /\ x \notin Queued
  BY QueuedAppend DEF Enqueue, TypeOK, Fresh
<1>3. WindowInv'
  BY <1>2 DEF Enqueue, WindowInv
<1>4. SleepInv'
  <2>1. CASE wpc \in {"wait", "asleep"}
    <3>1. waiting
      BY <2>1 DEF FlagInv
    <3>2. ppc'[t] \in Notifying
      BY <3>1 DEF Enqueue, AfterCheck, Notifying, TypeOK
    <3> QED BY <3>2 DEF SleepInv
  <2>2. CASE wpc \notin {"wait", "asleep"}
    BY <2>2 DEF Enqueue, SleepInv
  <2> QED BY <2>1, <2>2
<1> QED BY <1>1, <1>3, <1>4

\* A producer gives up notifying only if the flag is clear, or after waking
\* the sleeper.
LEMMA NotifyIInv ==
  ASSUME IInv, TypeOK', NEW t \in Producers, Notify(t)
  PROVE  IInv'
<1> USE DEF IInv
<1>1. UNCHANGED <<queue, missed>> /\ Queued' = Queued
  BY DEF Notify, CheckWaiting, LockToSignal, Signal, UnlockAfterSignal, Queued
<1>2. CASE CheckWaiting(t)
  <2>1. MutexInv' /\ FlagInv'
    BY <1>2 DEF CheckWaiting, AfterCheck, MutexInv, FlagInv, TypeOK
  <2>2. WindowInv'
    BY <1>1, <1>2 DEF CheckWaiting, WindowInv
  <2>3. SleepInv'
    BY <1>1, <1>2 DEF CheckWaiting, AfterCheck, SleepInv, FlagInv, Notifying, TypeOK
  <2> QED BY <2>1, <2>2, <2>3
<1>3. CASE LockToSignal(t)
  <2>1. MutexInv' /\ FlagInv'
    BY <1>3, ConstantsAssumption
       DEF LockToSignal, MutexInv, FlagInv, TypeOK, Producers
  <2>2. WindowInv'
    BY <1>1, <1>3 DEF LockToSignal, WindowInv
  <2>3. SleepInv'
    BY <1>1, <1>3 DEF LockToSignal, SleepInv, Notifying, TypeOK
  <2> QED BY <2>1, <2>2, <2>3
<1>4. CASE Signal(t)
  <2>1. wakeMutex = t /\ wpc # "wait"
    BY <1>4, ConstantsAssumption DEF Signal, MutexInv, Producers
  <2>2. wpc' \notin {"wait", "asleep"} \cup Window \/ wpc' = wpc
    BY <1>4 DEF Signal, Window
  <2>3. MutexInv' /\ FlagInv'
    BY <1>4 DEF Signal, MutexInv, FlagInv, TypeOK
  <2>4. WindowInv' /\ SleepInv'
    BY <1>1, <1>4, <2>1, <2>2 DEF Signal, WindowInv, SleepInv
  <2> QED BY <2>3, <2>4
<1>5. CASE UnlockAfterSignal(t)
  <2>1. MutexInv' /\ FlagInv'
    BY <1>5, ConstantsAssumption
       DEF UnlockAfterSignal, MutexInv, FlagInv, TypeOK, Producers
  <2>2. WindowInv'
    BY <1>1, <1>5 DEF UnlockAfterSignal, WindowInv
  <2>3. SleepInv'
    BY <1>1, <1>5 DEF UnlockAfterSignal, SleepInv, Notifying, TypeOK
  <2> QED BY <2>1, <2>2, <2>3
<1> QED BY <1>2, <1>3, <1>4, <1>5 DEF Notify

\* The transmit thread starts to sleep from an empty queue.
LEMMA WaitIInv ==
  ASSUME IInv, TypeOK', TestEmpty \/ WaitStep \/ SpuriousWake
  PROVE  IInv'
<1> USE DEF IInv
<1>1. Queued' = Queued
  BY DEF TestEmpty, WaitStep, LockToWait, SetWaiting, CondWait, SpuriousWake,
         Relock, ClearWaiting, UnlockAfterWait, Queued
<1>2. CASE TestEmpty
  <2>1. MutexInv' /\ FlagInv' /\ SleepInv'
    BY <1>2 DEF TestEmpty, MutexInv, FlagInv, SleepInv
  <2>2. WindowInv'
    BY <1>1, <1>2, QueuedEmpty DEF TestEmpty, WindowInv, Window
  <2> QED BY <2>1, <2>2
<1>3. CASE WaitStep \/ SpuriousWake
  <2>1. MutexInv'
    BY <1>3, ConstantsAssumption
       DEF WaitStep, LockToWait, SetWaiting, CondWait, SpuriousWake, Relock,
           ClearWaiting, UnlockAfterWait, MutexInv, TypeOK, Producers
  <2>2. FlagInv'
    BY <1>3 DEF WaitStep, LockToWait, SetWaiting, CondWait, SpuriousWake, Relock,
                ClearWaiting, UnlockAfterWait, FlagInv
  <2>3. WindowInv' /\ SleepInv'
    BY <1>1, <1>3
       DEF WaitStep, LockToWait, SetWaiting, CondWait, SpuriousWake, Relock,
           ClearWaiting, UnlockAfterWait, WindowInv, SleepInv, Window
  <2> QED BY <2>1, <2>2, <2>3
<1> QED BY <1>2, <1>3

\* Outside tq_wait_while_empty the transmit thread is not about to sleep.
LEMMA ConsumeIInv ==
  ASSUME IInv, TypeOK', Consume
  PROVE  IInv'
<1>1. wpc = "out" /\ UNCHANGED <<waiting, wakeMutex, ppc, wpc, missed>>
  BY DEF Consume, tq_remove, ax25_delete
<1> QED BY <1>1 DEF IInv, MutexInv, FlagInv, WindowInv, SleepInv, Window

\* While the transmit thread sleeps, a packet in the queue was appended in the
\* window between the emptiness test and the flag, or its producer is about
\* to signal: the whole of what the wake-up protocol of tq.c guarantees.
THEOREM MissedOnly == Spec => []MissedOnlyInWindow
<1>1. IInv /\ [Next]_vars => IInv'
  <2> SUFFICES ASSUME IInv, [Next]_vars PROVE IInv'
    OBVIOUS
  <2>1. TypeOK'
    BY TypeStep DEF IInv
  <2>2. ASSUME NEW t \in Producers, Produce(t) PROVE IInv'
    BY <2>1, <2>2, EnqueueIInv
       DEF Produce, tq_append, lm_data_request, lm_seize_request, Prio
  <2>3. ASSUME NEW t \in Producers, Notify(t) PROVE IInv'
    BY <2>1, <2>3, NotifyIInv
  <2>4. CASE TestEmpty \/ WaitStep \/ SpuriousWake
    BY <2>1, <2>4, WaitIInv
  <2>5. CASE Consume
    BY <2>1, <2>5, ConsumeIInv
  <2>6. CASE UNCHANGED vars
    BY <2>6 DEF vars, IInv, TypeOK, MutexInv, FlagInv, WindowInv, SleepInv, Queued
  <2> QED BY <2>2, <2>3, <2>4, <2>5, <2>6 DEF Next
<1>2. IInv => MissedOnlyInWindow
  BY DEF IInv, SleepInv, MissedOnlyInWindow
<1> QED BY InitIInv, <1>1, <1>2, PTL DEF Spec
=============================================================================
