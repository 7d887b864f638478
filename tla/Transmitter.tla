----------------------------- MODULE Transmitter -----------------------------
(***************************************************************************)
(* The transmit thread of tx.c at work on the transmit queue: it waits for  *)
(* a packet, waits for a clear channel (p-persistence, with a limit on the  *)
(* time spent), takes the packet, keys the transmitter and sends it and     *)
(* whatever has been queued meanwhile in one transmission.                  *)
(*                                                                          *)
(* The producers and tq.c are those of TransmitQueue; here the caller's     *)
(* side, which that module leaves open, is the control flow of tx.c, one    *)
(* action per look at a list, since each look is a separate unlocked read.  *)
(***************************************************************************)
EXTENDS Naturals, Sequences, Functions

CONSTANTS KissThreads, LinkThreads, Packets, NullPackets, NoOne,
          BadPackets, \* packets il2p_encode_frame refuses
          DcdValues,  \* what dcd_detect may return
          FullDup,    \* tx_fulldup
          MaxTries,   \* WAIT_TIMEOUT_MS / WAIT_CHECK_EVERY_MS
          MaxBurst,   \* frames in one transmission: 256
          MaxConfirms \* bound on the confirmations waiting in the dlq

ASSUME TransmitterAssumption ==
          /\ BadPackets \subseteq Packets \ NullPackets
          /\ FALSE \in DcdValues /\ DcdValues \subseteq BOOLEAN
          /\ FullDup \in BOOLEAN
          /\ MaxTries \in Nat
          /\ MaxBurst \in Nat \ {0}
          /\ MaxConfirms \in Nat \ {0}

\* Variables of a C function that has returned are back at their initial value.
VARIABLES queue, held, waiting, wakeMutex, ppc, wpc, missed, \* TransmitQueue
          tpc,          \* where the transmit thread is in tx.c
          n,            \* wait_for_clear_channel: ticks spent so far
          ok,           \* its result
          numframe,     \* frames sent in this transmission
          audioLocked,  \* audio_out_dev_mutex
          ptt,          \* the transmitter is keyed
          confirms,     \* DLQ_SEIZE_CONFIRM items the main thread has not taken
          late          \* history: HI packets appended while the transmit
                        \* thread is choosing the packet it takes next

TQ == INSTANCE TransmitQueue

tqvars == <<queue, held, waiting, wakeMutex, ppc, wpc, missed>>
txvars == <<tpc, n, ok, numframe, audioLocked, ptt, confirms>>
vars   == <<tqvars, txvars, late>>

TPC == {"wait", "peekHI", "peekLO", "dcd", "dwait", "slot", "trylock",
        "removeHI", "removeLO", "got", "key", "confirm", "send",
        "moreHI", "moreLO", "takeHI", "takeLO", "tail", "unlock"}

\* From the claim of the channel, or the end of a frame, to the next removal.
Choosing == {"removeHI", "removeLO", "moreHI", "moreLO", "takeHI", "takeLO"}

TypeOK ==
  /\ TQ!TypeOK
  /\ tpc \in TPC
  /\ n \in 0 .. MaxTries
  /\ ok \in BOOLEAN
  /\ numframe \in 0 .. MaxBurst
  /\ audioLocked \in BOOLEAN
  /\ ptt \in BOOLEAN
  /\ confirms \in 0 .. MaxConfirms
  /\ late \subseteq Packets

Init ==
  /\ TQ!Init
  /\ tpc = "wait"
  /\ n = 0
  /\ ok = FALSE
  /\ numframe = 0
  /\ audioLocked = FALSE
  /\ ptt = FALSE
  /\ confirms = 0
  /\ late = {}

-----------------------------------------------------------------------------
(* The other threads: producers in tq.c, and the main thread taking a        *)
(* confirmation from the data link queue.                                    *)

Produce(t) ==
  /\ TQ!Produce(t)
  /\ late' = IF tpc \in Choosing
               THEN late \cup (Range(queue'["HI"]) \ Range(queue["HI"])) ELSE late
  /\ UNCHANGED txvars

Notify(t) ==
  /\ TQ!Notify(t)
  /\ UNCHANGED <<txvars, late>>

TakeConfirm ==
  /\ confirms > 0
  /\ confirms' = confirms - 1
  /\ UNCHANGED <<tqvars, tpc, n, ok, numframe, audioLocked, ptt, late>>

-----------------------------------------------------------------------------
(* tx_thread: waiting for a packet.                                          *)

\* The transmit thread runs its own code at label l, outside tq.c.
At(l) == tpc = l /\ wpc = "out"

Empty(p) == TQ!tq_peek(p) = {}

Goto(l) == tpc' = l /\ UNCHANGED <<tqvars, n, ok, numframe, audioLocked,
                                   ptt, confirms, late>>

CallWait ==
  /\ At("wait")
  /\ TQ!TestEmpty
  /\ tpc' = "peekHI"
  /\ UNCHANGED <<n, ok, numframe, audioLocked, ptt, confirms, late>>

Waiting ==
  /\ TQ!WaitStep
  /\ UNCHANGED <<txvars, late>>

SpuriousWake ==
  /\ TQ!SpuriousWake
  /\ UNCHANGED <<txvars, late>>

\* A packet in either list starts wait_for_clear_channel.
EnterClearChannel ==
  /\ tpc' = IF FullDup THEN "trylock" ELSE "dcd"
  /\ UNCHANGED <<tqvars, n, ok, numframe, audioLocked, ptt, confirms, late>>

\* A faulty variant, for comparison: only the LO list is looked at.
PeekHIOmitted == At("peekHI") /\ Goto("peekLO")

PeekHI == /\ At("peekHI")
          /\ IF Empty("HI") THEN Goto("peekLO") ELSE EnterClearChannel

\* A faulty variant, for comparison: the thread trusts that it was woken for a packet.
PeekLOOmitted == At("peekLO") /\ EnterClearChannel

PeekLO == /\ At("peekLO")
          /\ IF Empty("LO") THEN Goto("wait") ELSE EnterClearChannel

-----------------------------------------------------------------------------
(* wait_for_clear_channel: one action per look at the carrier, at the HI     *)
(* list or at audio_out_dev_mutex.  A tick that changes nothing (the dice of *)
(* p-persistence say no) is a stuttering step.                               *)

\* Another tick; past the limit the wait is given up, without the mutex.
Tick(l) ==
  /\ IF n < MaxTries
       THEN tpc' = l /\ n' = n + 1 /\ UNCHANGED ok
       ELSE tpc' = "removeHI" /\ n' = 0 /\ ok' = FALSE
  /\ UNCHANGED <<tqvars, numframe, audioLocked, ptt, confirms, late>>

CheckCarrier ==
  /\ At("dcd")
  /\ \E busy \in DcdValues : IF busy THEN Tick("dcd") ELSE Goto("dwait")

\* After dwait the carrier is looked at again; n keeps what it has counted.
CheckAfterDwait ==
  /\ At("dwait")
  /\ \E busy \in DcdValues : Goto(IF busy THEN "dcd" ELSE "slot")

\* HI packets do not wait for a slot; LO packets wait for a lucky one.
Slot ==
  /\ At("slot")
  /\ IF Empty("HI")
       THEN \E busy \in DcdValues : Goto(IF busy THEN "dcd" ELSE "trylock")
       ELSE Goto("trylock")

TryLock ==
  /\ At("trylock")
  /\ IF audioLocked
       THEN Tick("trylock")
       ELSE /\ audioLocked' = TRUE
            /\ ok' = TRUE
            /\ n' = 0
            /\ tpc' = "removeHI"
            /\ UNCHANGED <<tqvars, numframe, ptt, confirms, late>>

-----------------------------------------------------------------------------
(* tx_thread: taking the packet the channel was claimed for.                 *)

RemoveHI ==
  /\ At("removeHI")
  /\ IF Empty("HI")
       THEN tpc' = "removeLO" /\ UNCHANGED <<tqvars, late>>
       ELSE tpc' = "got" /\ late' = {} /\ TQ!tq_remove("HI")
  /\ UNCHANGED <<n, ok, numframe, audioLocked, ptt, confirms>>

\* With both lists empty the thread would go back to its loop and keep the mutex.
RemoveLO ==
  /\ At("removeLO")
  /\ IF Empty("LO")
       THEN tpc' = "peekHI" /\ UNCHANGED tqvars
       ELSE tpc' = "got" /\ TQ!tq_remove("LO")
  /\ late' = {}
  /\ UNCHANGED <<n, ok, numframe, audioLocked, ptt, confirms>>

\* A faulty variant, for comparison: the packet is not freed.
DropPacketLeaked ==
  /\ At("got")
  /\ ~ok
  /\ Goto("peekHI")

\* A packet for which the channel was not clear in time is thrown away.
DropPacket ==
  /\ At("got")
  /\ ~ok
  /\ \E x \in held : TQ!ax25_delete(x)
  /\ tpc' = "peekHI"
  /\ UNCHANGED <<n, ok, numframe, audioLocked, ptt, confirms, late>>

EnterTxFrames ==
  /\ At("got")
  /\ ok
  /\ ok' = FALSE
  /\ tpc' = "key"
  /\ UNCHANGED <<tqvars, n, numframe, audioLocked, ptt, confirms, late>>

-----------------------------------------------------------------------------
(* tx_frames.                                                                *)

KeyUp ==
  /\ At("key")
  /\ ptt' = TRUE
  /\ tpc' = "confirm"
  /\ UNCHANGED <<tqvars, n, ok, numframe, audioLocked, confirms, late>>

dlq_seize_confirm == confirms < MaxConfirms /\ confirms' = confirms + 1

ConfirmSeize ==
  /\ At("confirm")
  /\ dlq_seize_confirm
  /\ tpc' = "send"
  /\ UNCHANGED <<tqvars, n, ok, numframe, audioLocked, ptt, late>>

\* A null frame answers a seize request; a frame that cannot be encoded is
\* skipped; only a frame that is sent counts.
send_one_frame(x) ==
  /\ IF x \in NullPackets THEN dlq_seize_confirm ELSE UNCHANGED confirms
  /\ numframe' = IF x \in NullPackets \cup BadPackets THEN numframe ELSE numframe + 1

SendFrame ==
  /\ At("send")
  /\ \E x \in held : send_one_frame(x) /\ TQ!ax25_delete(x)
  /\ tpc' = "moreHI"
  /\ UNCHANGED <<n, ok, audioLocked, ptt, late>>

\* Faulty variants, for comparison: the burst goes on with the LO list, ...
MoreHIOmitted == At("moreHI") /\ Goto(IF numframe < MaxBurst THEN "moreLO" ELSE "tail")

\* ... or it has no end while there are packets.
MoreHIUnbounded == At("moreHI") /\ Goto(IF Empty("HI") THEN "moreLO" ELSE "takeHI")

\* The loop ends when 256 frames have been sent; HI packets are looked for first.
MoreHI ==
  /\ At("moreHI")
  /\ Goto(CASE numframe >= MaxBurst -> "tail"
            [] numframe < MaxBurst /\ Empty("HI") -> "moreLO"
            [] OTHER -> "takeHI")

MoreLO == At("moreLO") /\ Goto(IF Empty("LO") THEN "tail" ELSE "takeLO")

TakeNext(p, l) ==
  /\ At(l)
  /\ TQ!tq_remove(p)
  /\ tpc' = "send"
  /\ late' = {}
  /\ UNCHANGED <<n, ok, numframe, audioLocked, ptt, confirms>>

\* The tail, the wait for the sound card, and the key released.
KeyDown ==
  /\ At("tail")
  /\ ptt' = FALSE
  /\ numframe' = 0
  /\ late' = {}
  /\ tpc' = "unlock"
  /\ UNCHANGED <<tqvars, n, ok, audioLocked, confirms>>

UnlockAudio ==
  /\ At("unlock")
  /\ audioLocked' = FALSE
  /\ tpc' = "peekHI"
  /\ UNCHANGED <<tqvars, n, ok, numframe, ptt, confirms, late>>

-----------------------------------------------------------------------------
ClearChannelStep == CheckCarrier \/ CheckAfterDwait \/ Slot \/ TryLock

TxFramesStep == \/ KeyUp \/ ConfirmSeize \/ SendFrame \/ MoreHI \/ MoreLO
                \/ TakeNext("HI", "takeHI") \/ TakeNext("LO", "takeLO") \/ KeyDown

TxStep == \/ CallWait \/ Waiting \/ PeekHI \/ PeekLO
          \/ ClearChannelStep
          \/ RemoveHI \/ RemoveLO \/ DropPacket \/ EnterTxFrames
          \/ TxFramesStep \/ UnlockAudio

Next == \/ \E t \in TQ!Producers : Produce(t) \/ Notify(t)
        \/ TakeConfirm
        \/ TxStep
        \/ SpuriousWake

\* Threads keep running; nobody has to submit packets.  Where there is other
\* traffic, it does not begin in every dwait anew.
Fairness == /\ WF_vars(TxStep)
            /\ SF_vars(CheckAfterDwait /\ tpc' = "slot")
            /\ WF_vars(TakeConfirm)
            /\ \A t \in TQ!Producers : WF_vars(Notify(t))

Spec == Init /\ [][Next]_vars /\ Fairness

-----------------------------------------------------------------------------
\* Outside a transmission audio_out_dev_mutex is free, so the next one can
\* start: tx_thread releases it only if tq_remove gave it a packet, which it
\* did not look at since before the wait for the channel.
ChannelNotLeaked ==
  tpc \in {"wait", "peekHI", "peekLO", "dcd", "dwait", "slot", "trylock"}
    => ~audioLocked

\* A LO packet goes before a HI packet only if that one was appended while
\* the transmit thread was choosing already: after the channel was claimed or
\* given up for the first packet, after the last frame went out for the next.
OvertakenOnlyByLate ==
  [][Len(queue'["LO"]) < Len(queue["LO"]) => Range(queue["HI"]) \subseteq late]_vars

\* Every HI packet is taken in the end, or the transmit thread sleeps on it
\* (see TransmitQueue for how that can be).
HiServed ==
  \A x \in Packets :
    x \in Range(queue["HI"]) ~> (x \notin Range(queue["HI"]) \/ wpc = "asleep")

\* What tx.c does to packets is what TransmitService promises: in order, one
\* at a time, keyed only with a packet in hand, none thrown away on the air.
Service == INSTANCE TransmitService
             WITH Priorities <- TQ!Prio, Items <- Packets,
                  pending <- queue, current <- held, keyed <- ptt
ImplementsService == Service!SSpec
=============================================================================
