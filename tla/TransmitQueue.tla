---------------------------- MODULE TransmitQueue ----------------------------
(***************************************************************************)
(* The transmit queue of tq.c: two lists of packets, one per priority,     *)
(* filled by the KISS listener and by the AX.25 link (the main thread) and *)
(* drained by the one transmit thread, which sleeps on a condition         *)
(* variable while both lists are empty.                                    *)
(*                                                                         *)
(* Each critical section of tq_mutex is one action: nothing in it can be   *)
(* seen half done by code that takes the mutex.  What tq.c does with       *)
(* wake_up_mutex, wake_up_cond and the unlocked xmit_thread_is_waiting is  *)
(* one action per access, because the wake-up protocol is built from them. *)
(* The caller's side of the transmit thread is left open here: whenever it *)
(* is outside tq.c it may wait, remove or free, in any order.              *)
(***************************************************************************)
EXTENDS Naturals, Sequences, Functions

CONSTANTS KissThreads,  \* threads that call tq_append
          LinkThreads,  \* threads that call lm_data_request, lm_seize_request
          Packets,      \* the packet objects ax25_new can hand out
          NullPackets,  \* those without a frame: seize requests
          NoOne         \* the owner of a mutex that is free

Producers == KissThreads \cup LinkThreads

ASSUME ConstantsAssumption ==
          /\ KissThreads \cap LinkThreads = {}
          /\ NullPackets \subseteq Packets
          /\ NoOne \notin Producers
          /\ "tx" \notin Producers
          /\ NoOne # "tx"

Prio == {"HI", "LO"}

VARIABLES queue,     \* queue_head: the packets of each priority, oldest first
          held,      \* packets the transmit thread took and has not freed
          waiting,   \* xmit_thread_is_waiting
          wakeMutex, \* the owner of wake_up_mutex
          ppc,       \* where each producer is in tq_append and its copies
          wpc,       \* where the transmit thread is in tq_wait_while_empty
          missed     \* history: packets appended after the emptiness test
                     \* and before xmit_thread_is_waiting was set

vars == <<queue, held, waiting, wakeMutex, ppc, wpc, missed>>

PPC == {"idle", "check", "lock", "signal", "unlock"}
WPC == {"out", "lock", "set", "wait", "asleep", "woken", "clear", "unlock"}

\* The states in which a producer has appended and is about to notify, and
\* those in which the transmit thread is between its test and its flag.
Notifying == {"check", "lock", "signal"}
Window    == {"lock", "set"}

tq_is_empty == \A p \in Prio : queue[p] = <<>>

Queued == UNION {Range(queue[p]) : p \in Prio}

\* What ax25_new can return: a packet nobody has.
Fresh == Packets \ (Queued \cup held)

TypeOK ==
  /\ queue \in [Prio -> Seq(Packets)]
  /\ held \subseteq Packets
  /\ waiting \in BOOLEAN
  /\ wakeMutex \in Producers \cup {"tx", NoOne}
  /\ ppc \in [Producers -> PPC]
  /\ wpc \in WPC
  /\ missed \subseteq Packets

tq_init ==
  /\ queue = [p \in Prio |-> <<>>]
  /\ waiting = FALSE
  /\ wakeMutex = NoOne

Init ==
  /\ tq_init
  /\ held = {}
  /\ ppc = [t \in Producers |-> "idle"]
  /\ wpc = "out"
  /\ missed = {}

-----------------------------------------------------------------------------
(* Producers.  The three enqueueing functions have the same body: append    *)
(* under tq_mutex, then look at xmit_thread_is_waiting without a lock and   *)
(* signal under wake_up_mutex if it is set.  The look is a data race: the   *)
(* load may also be satisfied before tq_mutex is released, so it happens    *)
(* either with the append or as a later step.                               *)

AfterCheck == IF waiting THEN "lock" ELSE "idle"

Enqueue(t, p, x) ==
  /\ ppc[t] = "idle"
  /\ x \in Fresh
  /\ queue' = [queue EXCEPT ![p] = Append(@, x)]
  /\ missed' = IF wpc \in Window THEN missed \cup {x} ELSE missed \ {x}
  /\ \E next \in {"check", AfterCheck} : ppc' = [ppc EXCEPT ![t] = next]
  /\ UNCHANGED <<held, waiting, wakeMutex, wpc>>

tq_append(t, x) ==
  /\ t \in KissThreads
  /\ x \notin NullPackets
  /\ Enqueue(t, "LO", x)

lm_data_request(t, p, x) ==
  /\ t \in LinkThreads
  /\ x \notin NullPackets
  /\ Enqueue(t, p, x)

lm_seize_request(t, x) ==
  /\ t \in LinkThreads
  /\ x \in NullPackets
  /\ Enqueue(t, "LO", x)

CheckWaiting(t) ==
  /\ ppc[t] = "check"
  /\ ppc' = [ppc EXCEPT ![t] = AfterCheck]
  /\ UNCHANGED <<queue, held, waiting, wakeMutex, wpc, missed>>

\* A faulty variant, for comparison: the signal is sent without wake_up_mutex.
LockToSignalUnlocked(t) ==
  /\ ppc[t] = "lock"
  /\ ppc' = [ppc EXCEPT ![t] = "signal"]
  /\ UNCHANGED <<queue, held, waiting, wakeMutex, wpc, missed>>

LockToSignal(t) ==
  /\ ppc[t] = "lock"
  /\ wakeMutex = NoOne
  /\ wakeMutex' = t
  /\ ppc' = [ppc EXCEPT ![t] = "signal"]
  /\ UNCHANGED <<queue, held, waiting, wpc, missed>>

\* A faulty variant, for comparison: the signal goes to a condition nobody waits on.
SignalElsewhere(t) ==
  /\ ppc[t] = "signal"
  /\ ppc' = [ppc EXCEPT ![t] = "unlock"]
  /\ UNCHANGED <<queue, held, waiting, wakeMutex, wpc, missed>>

\* pthread_cond_signal: wakes the transmit thread if it sleeps, else is lost.
Signal(t) ==
  /\ ppc[t] = "signal"
  /\ wpc' = IF wpc = "asleep" THEN "woken" ELSE wpc
  /\ ppc' = [ppc EXCEPT ![t] = "unlock"]
  /\ UNCHANGED <<queue, held, waiting, wakeMutex, missed>>

UnlockAfterSignal(t) ==
  /\ ppc[t] = "unlock"
  /\ wakeMutex' = NoOne
  /\ ppc' = [ppc EXCEPT ![t] = "idle"]
  /\ UNCHANGED <<queue, held, waiting, wpc, missed>>

Notify(t) == CheckWaiting(t) \/ LockToSignal(t) \/ Signal(t) \/ UnlockAfterSignal(t)

-----------------------------------------------------------------------------
(* The transmit thread in tq_wait_while_empty.                              *)

TestEmpty ==
  /\ wpc = "out"
  /\ wpc' = IF tq_is_empty THEN "lock" ELSE "out"
  /\ missed' = {}
  /\ UNCHANGED <<queue, held, waiting, wakeMutex, ppc>>

LockToWait ==
  /\ wpc = "lock"
  /\ wakeMutex = NoOne
  /\ wakeMutex' = "tx"
  /\ wpc' = "set"
  /\ UNCHANGED <<queue, held, waiting, ppc, missed>>

SetWaiting ==
  /\ wpc = "set"
  /\ waiting' = TRUE
  /\ wpc' = "wait"
  /\ UNCHANGED <<queue, held, wakeMutex, ppc, missed>>

\* pthread_cond_wait releases the mutex and sleeps in one step ...
CondWait ==
  /\ wpc = "wait"
  /\ wakeMutex' = NoOne
  /\ wpc' = "asleep"
  /\ UNCHANGED <<queue, held, waiting, ppc, missed>>

\* ... may return without a signal ...
SpuriousWake ==
  /\ wpc = "asleep"
  /\ wpc' = "woken"
  /\ UNCHANGED <<queue, held, waiting, wakeMutex, ppc, missed>>

\* ... and returns with the mutex locked again.
Relock ==
  /\ wpc = "woken"
  /\ wakeMutex = NoOne
  /\ wakeMutex' = "tx"
  /\ wpc' = "clear"
  /\ UNCHANGED <<queue, held, waiting, ppc, missed>>

ClearWaiting ==
  /\ wpc = "clear"
  /\ waiting' = FALSE
  /\ wpc' = "unlock"
  /\ UNCHANGED <<queue, held, wakeMutex, ppc, missed>>

UnlockAfterWait ==
  /\ wpc = "unlock"
  /\ wakeMutex' = NoOne
  /\ wpc' = "out"
  /\ UNCHANGED <<queue, held, waiting, ppc, missed>>

WaitStep == \/ LockToWait \/ SetWaiting \/ CondWait
            \/ Relock \/ ClearWaiting \/ UnlockAfterWait

-----------------------------------------------------------------------------
(* The transmit thread outside tq_wait_while_empty.                         *)

tq_peek(p) == IF queue[p] = <<>> THEN {} ELSE {Head(queue[p])}

\* A faulty variant, for comparison: what is handed out is the rest of the list.
tq_removeRest(p) ==
  /\ wpc = "out"
  /\ queue[p] # <<>>
  /\ queue' = [queue EXCEPT ![p] = Tail(@)]
  /\ held' = held \cup {Tail(queue[p])}
  /\ UNCHANGED <<waiting, wakeMutex, ppc, wpc, missed>>

tq_remove(p) ==
  /\ wpc = "out"
  /\ queue[p] # <<>>
  /\ queue' = [queue EXCEPT ![p] = Tail(@)]
  /\ held' = held \cup {Head(queue[p])}
  /\ UNCHANGED <<waiting, wakeMutex, ppc, wpc, missed>>

ax25_delete(x) ==
  /\ wpc = "out"
  /\ x \in held
  /\ held' = held \ {x}
  /\ UNCHANGED <<queue, waiting, wakeMutex, ppc, wpc, missed>>

-----------------------------------------------------------------------------
Produce(t) == \E x \in Packets :
  \/ tq_append(t, x)
  \/ lm_seize_request(t, x)
  \/ \E p \in Prio : lm_data_request(t, p, x)

Consume == \/ \E p \in Prio : tq_remove(p)
           \/ \E x \in Packets : ax25_delete(x)

Next == \/ \E t \in Producers : Produce(t) \/ Notify(t)
        \/ TestEmpty \/ WaitStep \/ SpuriousWake
        \/ Consume

\* A thread that is inside tq.c goes on; nobody has to call it, and nobody
\* has to wake up without a signal.
Fairness == /\ \A t \in Producers : WF_vars(Notify(t))
            /\ WF_vars(WaitStep)

Spec == Init /\ [][Next]_vars /\ Fairness

-----------------------------------------------------------------------------
\* While the transmit thread sleeps, every packet in the queue was appended
\* between its emptiness test and the line that sets xmit_thread_is_waiting,
\* or the producer of a later one is still on its way to signal: that window
\* is the only way tq_append and its copies lose a wake-up.
MissedOnlyInWindow ==
  wpc = "asleep" => \/ Queued \subseteq missed
                    \/ \E t \in Producers : ppc[t] \in Notifying

\* An append made while the transmit thread sleeps wakes it: the unlocked
\* look at xmit_thread_is_waiting cannot fail to see a sleeper, and the
\* signal cannot fall between setting the flag and going to sleep.
AppendWakesSleeper ==
  \A t \in Producers :
    (wpc = "asleep" /\ ppc[t] \in Notifying) ~> wpc # "asleep"

\* What the declaration of wake_up_cond says it is for ("Notify transmit
\* thread when queue not empty"): a thread that sleeps on it while a list has
\* a packet is about to be notified.
NotifiedWhenNotEmpty ==
  wpc = "asleep" /\ ~tq_is_empty =>
    \E t \in Producers : ppc[t] \in Notifying
=============================================================================
