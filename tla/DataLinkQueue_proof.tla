------------------------- MODULE DataLinkQueue_proof -------------------------
(***************************************************************************)
(* Proofs about the data link queue and the main loop, for every set of     *)
(* reporters and items.  As in TransmitQueue_proof, MissedOnlyInWindow      *)
(* needs to know who holds wake_up_mutex, when recv_thread_is_waiting is    *)
(* set, and that the queue holds nothing but missed items while the main    *)
(* thread is on its way to sleep.  NoUntimedSleep needs to know that the    *)
(* timeout is as good as when it was asked for, all the way to the sleep.   *)
(***************************************************************************)
EXTENDS DataLinkQueue, TLAPS

\* wake_up_mutex is held exactly between a lock and the unlock after it.
MutexInv ==
  /\ \A t \in Reporters : ppc[t] \in {"signal", "unlock"} <=> wakeMutex = t
  /\ mpc \in {"set", "wait", "clear", "unlock"} <=> wakeMutex = "main"

\* recv_thread_is_waiting covers the wait, from before it to after it.
FlagInv == waiting <=> mpc \in {"wait", "asleep", "woken", "clear"}

\* What the queue can hold while the main thread goes to sleep.
WindowInv == mpc \in Window => Queued \subseteq missed
SleepInv  == mpc \in {"wait", "asleep"} =>
               \/ Queued \subseteq missed
               \/ \E t \in Reporters : ppc[t] \in Notifying

\* From asking for the timeout to the end of the wait no timer is started.
TimedInv == mpc \in {"look", "lock", "set", "wait", "asleep"} =>
              (timer # "off" => timed)

IInv == TypeOK /\ MutexInv /\ FlagInv /\ WindowInv /\ SleepInv

-----------------------------------------------------------------------------
\* The variables keep their types, whoever reports and whenever the main
\* thread wakes.
LEMMA TypeStep == TypeOK /\ [Next]_vars => TypeOK'
<1> SUFFICES ASSUME TypeOK, [Next]_vars PROVE TypeOK'
  OBVIOUS
<1> USE DEF TypeOK, PPC, MPC, Timer
<1>1. ASSUME NEW t \in Reporters, NEW x \in Items, append_to_queue(t, x)
      PROVE  TypeOK'
  BY <1>1 DEF append_to_queue, AfterCheck
<1>2. ASSUME NEW t \in Reporters, Notify(t) PROVE TypeOK'
  BY <1>2 DEF Notify, CheckWaiting, AfterCheck, LockToSignal, Signal,
              UnlockAfterSignal
<1>3. CASE AskTimer
  BY <1>3 DEF AskTimer
<1>4. CASE WaitStep \/ SpuriousWake
  BY <1>4 DEF WaitStep, LookAtHead, LockToWait, SetWaiting, CondWait, TimeOut,
              SpuriousWake, Relock, ClearWaiting, UnlockAfterWait
<1>5. CASE dlq_remove
  <2>1. CASE queue = <<>>
    BY <1>5, <2>1 DEF dlq_remove
  <2>2. CASE queue # <<>>
    <3>1. Head(queue) \in Items /\ Tail(queue) \in Seq(Items)
      BY <2>2
    <3> QED BY <1>5, <2>2, <3>1 DEF dlq_remove
  <2> QED BY <2>1, <2>2
<1>6. CASE dl_timer_expiry \/ HandleItem \/ dlq_delete \/ TimerDue
  BY <1>6 DEF dl_timer_expiry, HandleItem, dlq_delete, TimerDue
<1>7. CASE UNCHANGED vars
  BY <1>7 DEF vars
<1> QED BY <1>1, <1>2, <1>3, <1>4, <1>5, <1>6, <1>7 DEF Next, MainStep

\* dlq_init and the start of the loop give every variable its type.
LEMMA InitType == Init => TypeOK
<1> SUFFICES ASSUME Init PROVE TypeOK
  OBVIOUS
<1>1. queue \in Seq(Items)
  BY DEF Init, dlq_init
<1>2. /\ inHand \subseteq Items /\ waiting \in BOOLEAN /\ missed \subseteq Items
      /\ wakeMutex \in Reporters \cup {"main", NoOne} /\ mpc \in MPC
      /\ ppc \in [Reporters -> PPC] /\ timed \in BOOLEAN /\ timedOut \in BOOLEAN
      /\ timer \in Timer
  BY DEF Init, dlq_init, PPC, MPC, Timer
<1> QED BY <1>1, <1>2 DEF TypeOK

\* Every state of the queue, of the wake-up mutex and flag, of the timer and of
\* the threads has its type.
THEOREM TypeCorrect == Spec => []TypeOK
<1> QED BY InitType, TypeStep, PTL DEF Spec

-----------------------------------------------------------------------------
\* At the start nobody holds wake_up_mutex and the main thread is not about to
\* sleep.
LEMMA InitIInv == Init => IInv
<1> SUFFICES ASSUME Init PROVE IInv
  OBVIOUS
<1>1. TypeOK
  BY InitType
<1>2. MutexInv /\ FlagInv /\ WindowInv /\ SleepInv
  BY ReportersAssumption
     DEF Init, dlq_init, MutexInv, FlagInv, WindowInv, SleepInv, Window
<1> QED BY <1>1, <1>2 DEF IInv

\* Appending adds that item to the queue and no other.
LEMMA QueuedAppend ==
  ASSUME queue \in Seq(Items), NEW x \in Items, queue' = Append(queue, x)
  PROVE  Queued' \subseteq Queued \cup {x}
<1>1. ASSUME NEW y \in Queued' PROVE y \in Queued \cup {x}
  <2>1. PICK i \in DOMAIN queue' : y = queue'[i]
    BY <1>1 DEF Queued, Range
  <2>2. i \in 1 .. Len(queue) + 1
    BY <2>1
  <2>3. CASE i = Len(queue) + 1
    BY <2>1, <2>3
  <2>4. CASE i \in 1 .. Len(queue)
    BY <2>1, <2>4 DEF Queued, Range
  <2> QED BY <2>2, <2>3, <2>4
<1> QED BY <1>1

\* An append in the window is a missed item; a later one finds the flag set.
LEMMA AppendIInv ==
  ASSUME IInv, TypeOK', NEW t \in Reporters, NEW x \in Items,
         append_to_queue(t, x)
  PROVE  IInv'
<1> USE DEF IInv
<1>1. MutexInv' /\ FlagInv'
  BY DEF append_to_queue, AfterCheck, MutexInv, FlagInv, TypeOK
<1>2. Queued' \subseteq Queued \cup {x}
  BY QueuedAppend DEF append_to_queue, TypeOK
<1>3. x \notin Queued
  BY DEF append_to_queue, Fresh
<1>4. WindowInv'
  BY <1>2, <1>3 DEF append_to_queue, WindowInv
<1>5. SleepInv'
  <2>1. CASE mpc \in {"wait", "asleep"}
    <3>1. waiting
      BY <2>1 DEF FlagInv
    <3>2. ppc'[t] \in Notifying
      BY <3>1 DEF append_to_queue, AfterCheck, Notifying, TypeOK
    <3> QED BY <3>2 DEF SleepInv
  <2>2. CASE mpc \notin {"wait", "asleep"}
    BY <2>2 DEF append_to_queue, SleepInv
  <2> QED BY <2>1, <2>2
<1> QED BY <1>1, <1>4, <1>5

\* A reporter gives up notifying only if the flag is clear, or after waking the
\* sleeper.
LEMMA NotifyIInv ==
  ASSUME IInv, TypeOK', NEW t \in Reporters, Notify(t)
  PROVE  IInv'
<1> USE DEF IInv
<1>1. UNCHANGED <<queue, missed>> /\ Queued' = Queued
  BY DEF Notify, CheckWaiting, LockToSignal, Signal, UnlockAfterSignal, Queued
<1>2. CASE CheckWaiting(t)
  <2>1. MutexInv' /\ FlagInv'
    BY <1>2 DEF CheckWaiting, AfterCheck, MutexInv, FlagInv, TypeOK
  <2>2. WindowInv'
    BY <1>1, <1>2 DEF CheckWaiting, WindowInv
  <2>3. SleepInv'
    BY <1>1, <1>2 DEF CheckWaiting, AfterCheck, SleepInv, FlagInv, Notifying, TypeOK
  <2> QED BY <2>1, <2>2, <2>3
<1>3. CASE LockToSignal(t)
  <2>1. MutexInv' /\ FlagInv'
    BY <1>3, ReportersAssumption DEF LockToSignal, MutexInv, FlagInv, TypeOK
  <2>2. WindowInv'
    BY <1>1, <1>3 DEF LockToSignal, WindowInv
  <2>3. SleepInv'
    BY <1>1, <1>3 DEF LockToSignal, SleepInv, Notifying, TypeOK
  <2> QED BY <2>1, <2>2, <2>3
<1>4. CASE Signal(t)
  <2>1. wakeMutex = t /\ mpc # "wait"
    BY <1>4, ReportersAssumption DEF Signal, MutexInv
  <2>2. mpc' \notin {"wait", "asleep"} \cup Window \/ mpc' = mpc
    BY <1>4 DEF Signal, Window
  <2>3. MutexInv' /\ FlagInv'
    BY <1>4 DEF Signal, MutexInv, FlagInv, TypeOK
  <2>4. WindowInv' /\ SleepInv'
    BY <1>1, <1>4, <2>1, <2>2 DEF Signal, WindowInv, SleepInv
  <2> QED BY <2>3, <2>4
<1>5. CASE UnlockAfterSignal(t)
  <2>1. MutexInv' /\ FlagInv'
    BY <1>5, ReportersAssumption DEF UnlockAfterSignal, MutexInv, FlagInv, TypeOK
  <2>2. WindowInv'
    BY <1>1, <1>5 DEF UnlockAfterSignal, WindowInv
  <2>3. SleepInv'
    BY <1>1, <1>5 DEF UnlockAfterSignal, SleepInv, Notifying, TypeOK
  <2> QED BY <2>1, <2>2, <2>3
<1> QED BY <1>2, <1>3, <1>4, <1>5 DEF Notify

\* The main thread starts to sleep from an empty queue.
LEMMA WaitIInv ==
  ASSUME IInv, TypeOK', WaitStep \/ SpuriousWake
  PROVE  IInv'
<1> USE DEF IInv
<1>1. queue' = queue /\ Queued' = Queued
  BY DEF WaitStep, LookAtHead, LockToWait, SetWaiting, CondWait, TimeOut,
         SpuriousWake, Relock, ClearWaiting, UnlockAfterWait, Queued
<1>2. MutexInv'
  BY ReportersAssumption
     DEF WaitStep, LookAtHead, LockToWait, SetWaiting, CondWait, TimeOut,
         SpuriousWake, Relock, ClearWaiting, UnlockAfterWait, MutexInv, TypeOK
<1>3. FlagInv'
  BY DEF WaitStep, LookAtHead, LockToWait, SetWaiting, CondWait, TimeOut,
         SpuriousWake, Relock, ClearWaiting, UnlockAfterWait, FlagInv
<1>4. CASE LookAtHead
  <2>1. queue = <<>> => Queued = {}
    BY DEF Queued, Range
  <2>2. WindowInv'
    BY <1>1, <1>4, <2>1 DEF LookAtHead, WindowInv, Window
  <2>3. SleepInv'
    BY <1>4 DEF LookAtHead, SleepInv
  <2> QED BY <1>2, <1>3, <2>2, <2>3
<1>5. CASE ~LookAtHead
  <2>1. WindowInv' /\ SleepInv'
    BY <1>1, <1>5
       DEF WaitStep, LockToWait, SetWaiting, CondWait, TimeOut, SpuriousWake,
           Relock, ClearWaiting, UnlockAfterWait, WindowInv, SleepInv, Window
  <2> QED BY <1>2, <1>3, <2>1
<1> QED BY <1>4, <1>5

\* Elsewhere in its loop the main thread is not about to sleep.
LEMMA LoopIInv ==
  ASSUME IInv, TypeOK',
         \/ AskTimer \/ dl_timer_expiry \/ dlq_remove \/ HandleItem \/ dlq_delete
         \/ TimerDue
  PROVE  IInv'
<1>1. CASE TimerDue
  BY <1>1 DEF TimerDue, IInv, MutexInv, FlagInv, WindowInv, SleepInv, Queued
<1>2. CASE AskTimer \/ dl_timer_expiry \/ dlq_remove \/ HandleItem \/ dlq_delete
  <2>1. /\ mpc \in {"top", "decide", "handle", "delete"}
        /\ mpc' \in {"look", "top", "handle", "delete"}
        /\ UNCHANGED <<waiting, wakeMutex, ppc, missed>>
    BY <1>2 DEF AskTimer, dl_timer_expiry, dlq_remove, HandleItem, dlq_delete
  <2> QED BY <2>1 DEF IInv, MutexInv, FlagInv, WindowInv, SleepInv, Window
<1> QED BY <1>1, <1>2

\* While the main thread sleeps, an item in the queue was appended in the window
\* between the look at queue_head and the flag, or its reporter is about to
\* signal.
THEOREM MissedOnly == Spec => []MissedOnlyInWindow
<1>1. IInv /\ [Next]_vars => IInv'
  <2> SUFFICES ASSUME IInv, [Next]_vars PROVE IInv'
    OBVIOUS
  <2>1. TypeOK'
    BY TypeStep DEF IInv
  <2>2. ASSUME NEW t \in Reporters, NEW x \in Items, append_to_queue(t, x)
        PROVE  IInv'
    BY <2>1, <2>2, AppendIInv
  <2>3. ASSUME NEW t \in Reporters, Notify(t) PROVE IInv'
    BY <2>1, <2>3, NotifyIInv
  <2>4. CASE WaitStep \/ SpuriousWake
    BY <2>1, <2>4, WaitIInv
  <2>5. CASE \/ AskTimer \/ dl_timer_expiry \/ dlq_remove \/ HandleItem
             \/ dlq_delete \/ TimerDue
    BY <2>1, <2>5, LoopIInv
  <2>6. CASE UNCHANGED vars
    BY <2>6 DEF vars, IInv, TypeOK, MutexInv, FlagInv, WindowInv, SleepInv, Queued
  <2> QED BY <2>2, <2>3, <2>4, <2>5, <2>6 DEF Next, MainStep
<1>2. IInv => MissedOnlyInWindow
  BY DEF IInv, SleepInv, MissedOnlyInWindow
<1> QED BY InitIInv, <1>1, <1>2, PTL DEF Spec

-----------------------------------------------------------------------------
\* The main thread never sleeps without a timeout while a timer runs, so no
\* timer is slept past: the timers are its own, and it starts none between
\* asking for the time of the next expiry and going to sleep.
THEOREM NeverUntimed == Spec => []NoUntimedSleep
<1>1. Init => TimedInv
  BY DEF Init, TimedInv
<1>2. TypeOK /\ TimedInv /\ [Next]_vars => TimedInv'
  <2> SUFFICES ASSUME TypeOK, TimedInv, [Next]_vars PROVE TimedInv'
    OBVIOUS
  <2> USE DEF TimedInv
  <2>1. ASSUME NEW t \in Reporters, NEW x \in Items, append_to_queue(t, x)
        PROVE  TimedInv'
    BY <2>1 DEF append_to_queue
  <2>2. ASSUME NEW t \in Reporters, Notify(t) PROVE TimedInv'
    BY <2>2 DEF Notify, CheckWaiting, LockToSignal, Signal, UnlockAfterSignal
  <2>3. CASE AskTimer
    BY <2>3 DEF AskTimer
  <2>4. CASE WaitStep \/ SpuriousWake
    BY <2>4 DEF WaitStep, LookAtHead, LockToWait, SetWaiting, CondWait, TimeOut,
                SpuriousWake, Relock, ClearWaiting, UnlockAfterWait
  <2>5. CASE dl_timer_expiry \/ dlq_remove \/ HandleItem \/ dlq_delete
    BY <2>5 DEF dl_timer_expiry, dlq_remove, HandleItem, dlq_delete
  <2>6. CASE TimerDue
    BY <2>6 DEF TimerDue
  <2>7. CASE UNCHANGED vars
    BY <2>7 DEF vars
  <2> QED BY <2>1, <2>2, <2>3, <2>4, <2>5, <2>6, <2>7 DEF Next, MainStep
<1>3. TypeOK /\ TimedInv => NoUntimedSleep
  BY DEF TypeOK, TimedInv, NoUntimedSleep
<1> QED BY InitType, TypeStep, <1>1, <1>2, <1>3, PTL DEF Spec
=============================================================================
