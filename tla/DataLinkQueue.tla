---------------------------- MODULE DataLinkQueue ----------------------------
(***************************************************************************)
(* The queue of dlq.c through which the receive and transmit threads report *)
(* events to the main thread, and the main thread's loop, rx_process: it    *)
(* sleeps until there is an event or the link's next timer is due, and      *)
(* serves the timers only when a sleep timed out.                           *)
(*                                                                          *)
(* The link itself is a parameter here: whatever an event or an expiry      *)
(* makes it do, it may leave the earliest timer stopped or running.         *)
(***************************************************************************)
EXTENDS Naturals, Sequences, Functions

CONSTANTS Reporters,  \* threads that append: receiver, transmitter
          Items,      \* the dlq_item_s calloc can hand out
          NoOne       \* the owner of a mutex that is free

ASSUME ReportersAssumption == NoOne \notin Reporters \cup {"main"}
                              /\ "main" \notin Reporters

VARIABLES queue,     \* the list at queue_head, oldest first
          inHand,    \* the item rx_process has removed and not deleted
          waiting,   \* recv_thread_is_waiting
          wakeMutex, \* the owner of wake_up_mutex
          ppc,       \* where each reporter is in append_to_queue
          mpc,       \* where the main thread is
          timed,     \* the timeout it passed was not 0
          timedOut,  \* timed_out_result
          timer,     \* the link's earliest timer
          missed     \* history: items appended after the look at queue_head
                     \* and before recv_thread_is_waiting was set

vars == <<queue, inHand, waiting, wakeMutex, ppc, mpc, timed, timedOut, timer, missed>>

PPC == {"idle", "check", "lock", "signal", "unlock"}
MPC == {"top", "look", "lock", "set", "wait", "asleep", "woken", "clear",
        "unlock", "decide", "handle", "delete"}
Timer == {"off", "running", "due"}

Notifying == {"check", "lock", "signal"}
Window    == {"lock", "set"}

Queued == Range(queue)

Fresh == Items \ (Queued \cup inHand)

TypeOK ==
  /\ queue \in Seq(Items)
  /\ inHand \subseteq Items
  /\ waiting \in BOOLEAN
  /\ wakeMutex \in Reporters \cup {"main", NoOne}
  /\ ppc \in [Reporters -> PPC]
  /\ mpc \in MPC
  /\ timed \in BOOLEAN
  /\ timedOut \in BOOLEAN
  /\ timer \in Timer
  /\ missed \subseteq Items

dlq_init ==
  /\ queue = <<>>
  /\ wakeMutex = NoOne
  /\ waiting = FALSE

Init ==
  /\ dlq_init
  /\ inHand = {}
  /\ ppc = [t \in Reporters |-> "idle"]
  /\ mpc = "top"
  /\ timed = FALSE
  /\ timedOut = FALSE
  /\ timer = "off"
  /\ missed = {}

-----------------------------------------------------------------------------
(* Reporters.  dlq_rec_frame, dlq_seize_confirm and dlq_channel_busy differ  *)
(* in what they put in the item.  recv_thread_is_waiting is read outside any *)
(* lock: with the append, if the load moves up, or as a later step.          *)

AfterCheck == IF waiting THEN "lock" ELSE "idle"

append_to_queue(t, x) ==
  /\ ppc[t] = "idle"
  /\ x \in Fresh
  /\ queue' = Append(queue, x)
  /\ missed' = IF mpc \in Window THEN missed \cup {x} ELSE missed \ {x}
  /\ \E next \in {"check", AfterCheck} : ppc' = [ppc EXCEPT ![t] = next]
  /\ UNCHANGED <<inHand, waiting, wakeMutex, mpc, timed, timedOut, timer>>

CheckWaiting(t) ==
  /\ ppc[t] = "check"
  /\ ppc' = [ppc EXCEPT ![t] = AfterCheck]
  /\ UNCHANGED <<queue, inHand, waiting, wakeMutex, mpc, timed, timedOut, timer, missed>>

LockToSignal(t) ==
  /\ ppc[t] = "lock"
  /\ wakeMutex = NoOne
  /\ wakeMutex' = t
  /\ ppc' = [ppc EXCEPT ![t] = "signal"]
  /\ UNCHANGED <<queue, inHand, waiting, mpc, timed, timedOut, timer, missed>>

Signal(t) ==
  /\ ppc[t] = "signal"
  /\ mpc' = IF mpc = "asleep" THEN "woken" ELSE mpc
  /\ ppc' = [ppc EXCEPT ![t] = "unlock"]
  /\ UNCHANGED <<queue, inHand, waiting, wakeMutex, timed, timedOut, timer, missed>>

UnlockAfterSignal(t) ==
  /\ ppc[t] = "unlock"
  /\ wakeMutex' = NoOne
  /\ ppc' = [ppc EXCEPT ![t] = "idle"]
  /\ UNCHANGED <<queue, inHand, waiting, mpc, timed, timedOut, timer, missed>>

Notify(t) == CheckWaiting(t) \/ LockToSignal(t) \/ Signal(t) \/ UnlockAfterSignal(t)

-----------------------------------------------------------------------------
(* The main thread: rx_process and dlq_wait_while_empty.                     *)

\* A faulty variant, for comparison: a time that is past already counts as none.
AskTimerRunning ==
  /\ mpc = "top"
  /\ timed' = (timer = "running")
  /\ mpc' = "look"
  /\ UNCHANGED <<queue, inHand, waiting, wakeMutex, ppc, timedOut, timer, missed>>

\* The timeout is the time of the next expiry, 0 if no timer runs.
AskTimer ==
  /\ mpc = "top"
  /\ timed' = (timer # "off")
  /\ mpc' = "look"
  /\ UNCHANGED <<queue, inHand, waiting, wakeMutex, ppc, timedOut, timer, missed>>

\* A faulty variant, for comparison: it waits without a look at the list.
LookAtHeadOmitted ==
  /\ mpc = "look"
  /\ timedOut' = FALSE
  /\ missed' = {}
  /\ mpc' = "lock"
  /\ UNCHANGED <<queue, inHand, waiting, wakeMutex, ppc, timed, timer>>

\* queue_head is read without dlq_mutex.
LookAtHead ==
  /\ mpc = "look"
  /\ timedOut' = FALSE
  /\ missed' = {}
  /\ mpc' = IF queue = <<>> THEN "lock" ELSE "decide"
  /\ UNCHANGED <<queue, inHand, waiting, wakeMutex, ppc, timed, timer>>

LockToWait ==
  /\ mpc = "lock"
  /\ wakeMutex = NoOne
  /\ wakeMutex' = "main"
  /\ mpc' = "set"
  /\ UNCHANGED <<queue, inHand, waiting, ppc, timed, timedOut, timer, missed>>

\* A faulty variant, for comparison: recv_thread_is_waiting is not set.
SetWaitingOmitted ==
  /\ mpc = "set"
  /\ mpc' = "wait"
  /\ UNCHANGED <<queue, inHand, waiting, wakeMutex, ppc, timed, timedOut, timer, missed>>

SetWaiting ==
  /\ mpc = "set"
  /\ waiting' = TRUE
  /\ mpc' = "wait"
  /\ UNCHANGED <<queue, inHand, wakeMutex, ppc, timed, timedOut, timer, missed>>

CondWait ==
  /\ mpc = "wait"
  /\ wakeMutex' = NoOne
  /\ mpc' = "asleep"
  /\ UNCHANGED <<queue, inHand, waiting, ppc, timed, timedOut, timer, missed>>

\* A faulty variant, for comparison: ETIMEDOUT is not recognised.
TimeOutUnnoticed ==
  /\ mpc = "asleep"
  /\ timed
  /\ timer = "due"
  /\ mpc' = "woken"
  /\ UNCHANGED <<queue, inHand, waiting, wakeMutex, ppc, timed, timedOut, timer, missed>>

\* pthread_cond_timedwait gives up when the timer is due: err == ETIMEDOUT.
TimeOut ==
  /\ mpc = "asleep"
  /\ timed
  /\ timer = "due"
  /\ timedOut' = TRUE
  /\ mpc' = "woken"
  /\ UNCHANGED <<queue, inHand, waiting, wakeMutex, ppc, timed, timer, missed>>

SpuriousWake ==
  /\ mpc = "asleep"
  /\ mpc' = "woken"
  /\ UNCHANGED <<queue, inHand, waiting, wakeMutex, ppc, timed, timedOut, timer, missed>>

Relock ==
  /\ mpc = "woken"
  /\ wakeMutex = NoOne
  /\ wakeMutex' = "main"
  /\ mpc' = "clear"
  /\ UNCHANGED <<queue, inHand, waiting, ppc, timed, timedOut, timer, missed>>

ClearWaiting ==
  /\ mpc = "clear"
  /\ waiting' = FALSE
  /\ mpc' = "unlock"
  /\ UNCHANGED <<queue, inHand, wakeMutex, ppc, timed, timedOut, timer, missed>>

UnlockAfterWait ==
  /\ mpc = "unlock"
  /\ wakeMutex' = NoOne
  /\ mpc' = "decide"
  /\ UNCHANGED <<queue, inHand, waiting, ppc, timed, timedOut, timer, missed>>

\* A sleep that timed out serves the timers and leaves the queue for later.
dl_timer_expiry ==
  /\ mpc = "decide"
  /\ timedOut
  /\ timer' \in (IF timer = "due" THEN {"off", "running"} ELSE {timer})
  /\ mpc' = "top"
  /\ UNCHANGED <<queue, inHand, waiting, wakeMutex, ppc, timed, timedOut, missed>>

\* A faulty variant, for comparison: what is handed out is the rest of the list.
dlq_removeRest ==
  /\ mpc = "decide"
  /\ ~timedOut
  /\ IF queue = <<>>
       THEN mpc' = "top" /\ UNCHANGED <<queue, inHand>>
       ELSE /\ inHand' = {Tail(queue)}
            /\ queue' = Tail(queue)
            /\ mpc' = "handle"
  /\ UNCHANGED <<waiting, wakeMutex, ppc, timed, timedOut, timer, missed>>

\* After a wake-up without an item there is nothing to remove.
dlq_remove ==
  /\ mpc = "decide"
  /\ ~timedOut
  /\ IF queue = <<>>
       THEN mpc' = "top" /\ UNCHANGED <<queue, inHand>>
       ELSE /\ inHand' = {Head(queue)}
            /\ queue' = Tail(queue)
            /\ mpc' = "handle"
  /\ UNCHANGED <<waiting, wakeMutex, ppc, timed, timedOut, timer, missed>>

\* The link gets the event; it may start or stop timers.
HandleItem ==
  /\ mpc = "handle"
  /\ timer' \in {timer, "off", "running"}
  /\ mpc' = "delete"
  /\ UNCHANGED <<queue, inHand, waiting, wakeMutex, ppc, timed, timedOut, missed>>

dlq_delete ==
  /\ mpc = "delete"
  /\ inHand' = {}
  /\ mpc' = "top"
  /\ UNCHANGED <<queue, waiting, wakeMutex, ppc, timed, timedOut, timer, missed>>

\* Time passes.
TimerDue ==
  /\ timer = "running"
  /\ timer' = "due"
  /\ UNCHANGED <<queue, inHand, waiting, wakeMutex, ppc, mpc, timed, timedOut, missed>>

WaitStep == \/ LookAtHead \/ LockToWait \/ SetWaiting \/ CondWait \/ TimeOut
            \/ Relock \/ ClearWaiting \/ UnlockAfterWait

MainStep == \/ AskTimer \/ WaitStep \/ dl_timer_expiry
            \/ dlq_remove \/ HandleItem \/ dlq_delete

Next == \/ \E t \in Reporters : Notify(t) \/ \E x \in Items : append_to_queue(t, x)
        \/ MainStep
        \/ SpuriousWake
        \/ TimerDue

\* Threads keep running and time passes; nobody has to report anything.  A
\* timed wait that is over its deadline again and again does time out: it is
\* not always interrupted by a wake-up without cause.
Fairness == /\ WF_vars(MainStep)
            /\ SF_vars(TimeOut)
            /\ WF_vars(TimerDue)
            /\ \A t \in Reporters : WF_vars(Notify(t))

Spec == Init /\ [][Next]_vars /\ Fairness

-----------------------------------------------------------------------------
\* While the main thread sleeps, every item in the queue was appended between
\* its look at queue_head and the line that sets recv_thread_is_waiting, or a
\* reporter is on its way to signal.
MissedOnlyInWindow ==
  mpc = "asleep" => \/ Queued \subseteq missed
                    \/ \E t \in Reporters : ppc[t] \in Notifying

\* A running timer repairs a lost wake-up: an item is handled in the end
\* unless the main thread sleeps without a timeout.
ItemHandled ==
  \A x \in Items :
    x \in Queued ~> (x \notin Queued \/ (mpc = "asleep" /\ ~timed))

\* A due timer is served in the end, or events keep the queue from running
\* dry: rx_process looks at the timers only after a sleep that timed out.
TimerServedWhenQuiet == (timer = "due" /\ queue = <<>>) ~> (timer # "due" \/ queue # <<>>)

\* The main thread never sleeps without a timeout while a timer runs: only it
\* starts timers, so the timeout it asked for cannot be stale.
NoUntimedSleep == mpc = "asleep" /\ ~timed => timer = "off"
=============================================================================
