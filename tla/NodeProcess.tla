----------------------------- MODULE NodeProcess -----------------------------
(***************************************************************************)
(* The life of the process: main sets up the components and starts their    *)
(* threads, the transmit thread makes sound, the receive thread takes it,   *)
(* and SIGINT ends it all.  cleanup is a signal handler: it runs on the     *)
(* main thread in the middle of whatever that thread is doing, which may be *)
(* within malloc or free or within a print to stderr.                       *)
(*                                                                          *)
(* What the threads do with packets is the subject of Transmitter and       *)
(* DataLinkQueue; here a packet is something to make sound of.  The carrier *)
(* detector, which at this commit never sees one, is external, and one      *)
(* SIGINT is modelled.                                                      *)
(***************************************************************************)
EXTENDS Audio

CONSTANTS SymbolFrames,  \* CYCLES, the frames of a symbol
          MaxSound,      \* bound on the frames that are put
          MaxQueued      \* bound on the packets waiting

ASSUME ProcessAssumption ==
          /\ SymbolFrames \in Nat \ {0}
          /\ MaxSound \in Nat
          /\ MaxQueued \in Nat \ {0}

VARIABLES main,           \* what the main thread does next
          inside,         \* the lock it held when SIGINT came
          ready,          \* what has been set up
          tx,             \* what the transmit thread does next
          rx,             \* the same of the receive thread, with the octets it
                          \* has of a symbol and the errors audio_get has met
          queued,         \* packets in the transmit queue
          put,            \* frames put so far
          node_shutdown,
          ended           \* how the process has ended, if it has

vars == <<audioVars, main, inside, ready, tx, rx, queued, put, node_shutdown, ended>>

Init ==
  /\ AudioInit
  /\ main = "open_input" /\ inside = "nothing" /\ ready = {}
  /\ tx = "none" /\ rx = [pc |-> "none", got |-> 0, retries |-> 0]
  /\ queued = 0 /\ put = 0
  /\ node_shutdown = FALSE /\ ended = "not"

-----------------------------------------------------------------------------
(* The main thread: start-up.                                                *)

MainGoes(from, to) == main = from /\ ~flush["main"].called /\ main' = to

mainRest == <<inside, queued, put, node_shutdown>>

\* audio_open; main exits if one of its calls fails.
audio_open ==
  /\ \/ MainGoes("open_input", "open_output") /\ OpenInput /\ UNCHANGED flush
     \/ MainGoes("open_output", "allocate") /\ OpenOutput /\ UNCHANGED flush
     \/ MainGoes("allocate", "tables") /\ AllocateBuffers /\ Flush("main")
  /\ UNCHANGED <<played, gaveUp, ready, tx, rx, ended, mainRest>>

NoAudioDevice ==
  /\ main \in {"open_input", "open_output", "allocate"}
  /\ ended' = "no audio device"
  /\ UNCHANGED <<audioVars, main, ready, tx, rx, mainRest>>

\* A step of main that makes something ready, and the thread it may start.
SetsUp(from, what, to) ==
  /\ MainGoes(from, to)
  /\ ready' = ready \cup {what}
  /\ UNCHANGED <<audioVars, ended, mainRest>>

StartsTx == tx' = "top" /\ UNCHANGED rx
StartsRx == rx' = [rx EXCEPT !.pc = "check"] /\ UNCHANGED tx
StartsNone == UNCHANGED <<tx, rx>>

\* The constellation and the filters, the queues, and tx_init and rx_init up to
\* the thread.
Preparations ==
  \/ SetsUp("tables", "tables", "queues") /\ StartsNone
  \/ SetsUp("queues", "queues", "tx_init") /\ StartsNone
  \/ SetsUp("tx_init", "tx_thread", "tx_constants") /\ StartsTx
  \/ SetsUp("rx_init", "rx_thread", "demod_init") /\ StartsRx

\* A faulty variant, for comparison: the pseudo terminal is not opened last.
KissBeforeModem ==
  \/ SetsUp("tx_constants", "kiss_thread", "kisspt_init") /\ StartsNone
  \/ SetsUp("kisspt_init", "tx_constants", "rx_init") /\ StartsNone
  \/ SetsUp("demod_init", "demod", "rx_process") /\ StartsNone

\* The rest of tx_init and of rx_init after their thread, and kisspt_init.
Completions ==
  \/ SetsUp("tx_constants", "tx_constants", "rx_init") /\ StartsNone
  \/ SetsUp("demod_init", "demod", "kisspt_init") /\ StartsNone
  \/ SetsUp("kisspt_init", "kiss_thread", "rx_process") /\ StartsNone

-----------------------------------------------------------------------------
(* The main thread: SIGINT.                                                  *)

InHandler == {"cleanup", "close", "free", "sleep"}

\* audio_close is about to be called, under way or done.
Closing == main \in InHandler

\* The handler does not come back to what it has interrupted.  The sound of the
\* card is not followed any further.
Interrupt ==
  /\ ~Closing
  /\ main' = "cleanup"
  /\ inside' \in {"nothing", "heap", "stderr"}
  /\ node_shutdown' = TRUE
  /\ flush' = [flush EXCEPT !["main"] = Returned]
  /\ played' = <<>> /\ gaveUp' = FALSE
  /\ UNCHANGED <<adev, ready, tx, rx, queued, put, ended>>

handlerRest == <<ready, tx, rx, ended, mainRest>>

\* audio_close; free and snd_pcm_close, which calls it, wait for the heap's lock.
audio_close ==
  \/ /\ adev.audio_in_handle /\ adev.audio_out_handle
     /\ MainGoes("cleanup", "close") /\ Flush("main")
     /\ UNCHANGED <<adev, played, gaveUp, handlerRest>>
  \/ /\ ~(adev.audio_in_handle /\ adev.audio_out_handle)
     /\ MainGoes("cleanup", "sleep")
     /\ UNCHANGED <<audioVars, handlerRest>>
  \/ /\ inside # "heap" /\ MainGoes("close", "free")
     /\ adev' = [adev EXCEPT !.audio_in_handle = FALSE, !.audio_out_handle = FALSE]
     /\ UNCHANGED <<flush, played, gaveUp, handlerRest>>
  \/ /\ MainGoes("free", "sleep")
     /\ adev' = NoDevice
     /\ UNCHANGED <<flush, played, gaveUp, handlerRest>>

ExitAfterCleanup ==
  /\ main = "sleep" /\ ended' = "exit 0"
  /\ UNCHANGED <<audioVars, main, ready, tx, rx, mainRest>>

MainFlush ==
  /\ audio_flush("main")
  /\ UNCHANGED <<main, ready, tx, rx, ended, mainRest>>

-----------------------------------------------------------------------------
(* The transmit thread.                                                      *)

TxGoes(from, to) == tx = from /\ ~flush["tx"].called /\ tx' = to

txRest == <<main, inside, ready, rx, node_shutdown, ended>>

\* The flag is looked at only here, before tq_wait_while_empty.
TxTop ==
  /\ TxGoes("top", IF node_shutdown THEN "returned" ELSE "asleep")
  /\ UNCHANGED <<audioVars, queued, put, txRest>>

TxBegins ==
  /\ queued > 0 /\ TxGoes("asleep", "put")
  /\ queued' = queued - 1
  /\ UNCHANGED <<audioVars, put, txRest>>

\* put_symbols.  What is put after SIGINT is not followed.
TxPuts ==
  /\ ~Closing /\ put < MaxSound /\ TxGoes("put", "put")
  /\ put' = put + 1
  /\ PutFrame(put + 1)
  /\ IF Full THEN Flush("tx") ELSE UNCHANGED flush
  /\ UNCHANGED <<played, gaveUp, queued, txRest>>

\* The end of tx_frames: audio_flush, and audio_wait, which calls it again.
TxEnds ==
  /\ \/ TxGoes("put", "wait") \/ TxGoes("wait", "drain")
  /\ Flush("tx")
  /\ UNCHANGED <<adev, played, gaveUp, queued, put, txRest>>

\* The channel is given back; the next packet, or the test of the flag.
TxReleases ==
  /\ TxGoes("drain", IF queued > 0 THEN "asleep" ELSE "top")
  /\ UNCHANGED <<audioVars, queued, put, txRest>>

TxFlush ==
  /\ audio_flush("tx")
  /\ UNCHANGED <<tx, queued, put, txRest>>

Transmitting == {"put", "wait", "drain"}

-----------------------------------------------------------------------------
(* The receive thread.                                                       *)

rxRest == <<main, inside, ready, tx, queued, put, node_shutdown>>

\* External: a carrier is there, once demod_init has run.
RxCheck ==
  /\ rx.pc = "check" /\ ~node_shutdown /\ "demod" \in ready
  /\ rx' = [pc |-> "audio_get", got |-> 0, retries |-> 0]
  /\ UNCHANGED <<audioVars, ended, rxRest>>

\* A faulty variant, for comparison: only the thread ends.
RxReturns ==
  /\ rx.pc = "check" /\ node_shutdown
  /\ inside # "stderr"
  /\ rx' = [rx EXCEPT !.pc = "none"]
  /\ UNCHANGED <<audioVars, ended, rxRest>>

\* It prints and ends the process.
RxExits ==
  /\ rx.pc = "check" /\ node_shutdown
  /\ inside # "stderr"
  /\ ended' = "exit 1"
  /\ UNCHANGED <<audioVars, rx, rxRest>>

\* audio_get has an octet for demod_get_samples.
RxOctet ==
  /\ rx.pc = "audio_get" /\ HasInput
  /\ TakeOctet
  /\ rx' = IF rx.got + 1 = SymbolFrames * FrameBytes THEN [rx EXCEPT !.pc = "check"]
           ELSE [rx EXCEPT !.got = @ + 1, !.retries = 0]
  /\ UNCHANGED <<flush, played, gaveUp, ended, rxRest>>

\* audio_get goes around: snd_pcm_readi returns frames, ...
RxFrames ==
  /\ rx.pc = "audio_get" /\ ~HasInput
  /\ Refill
  /\ UNCHANGED <<rx, flush, played, gaveUp, ended, rxRest>>

\* ... nothing, or an error, until there have been too many.
RxNoFrames ==
  /\ rx.pc = "audio_get" /\ ~HasInput
  /\ \/ NoInput /\ UNCHANGED rx
     \/ /\ rx.retries < InRetries
        /\ rx' = [rx EXCEPT !.retries = @ + 1] /\ UNCHANGED adev
     \/ /\ rx.retries = InRetries
        /\ rx' = [rx EXCEPT !.pc = "check"] /\ NoInput
  /\ UNCHANGED <<flush, played, gaveUp, ended, rxRest>>

-----------------------------------------------------------------------------
\* A packet from the KISS thread or, in rx_process, from the link.
NewPacket ==
  /\ "kiss_thread" \in ready /\ queued < MaxQueued
  /\ queued' = queued + 1
  /\ UNCHANGED <<audioVars, main, inside, ready, tx, rx, put, node_shutdown, ended>>

\* What becomes of a thread's use of the device or its buffers while they are
\* closed and freed is undefined: it may go on (its own actions) or crash.
Crash ==
  /\ Closing /\ (tx \in Transmitting \/ rx.pc = "audio_get")
  /\ ended' = "crash"
  /\ UNCHANGED <<audioVars, main, inside, ready, tx, rx, queued, put, node_shutdown>>

MainStep ==
  audio_open \/ Preparations \/ Completions \/ audio_close \/ ExitAfterCleanup \/ MainFlush

TxStep == TxTop \/ TxBegins \/ TxPuts \/ TxEnds \/ TxReleases \/ TxFlush

RxStep == RxCheck \/ RxExits \/ RxOctet \/ RxFrames \/ RxNoFrames

\* Nothing happens after the end.
Next ==
  /\ ended = "not"
  /\ \/ MainStep \/ NoAudioDevice \/ Interrupt
     \/ TxStep
     \/ RxStep
     \/ Crash
     \/ NewPacket

Spec == Init /\ [][Next]_vars

\* The threads run, and the card answers and has input.
FairSpec ==
  /\ Spec
  /\ WF_vars(ended = "not" /\ MainStep)
  /\ WF_vars(ended = "not" /\ TxStep)
  /\ WF_vars(ended = "not" /\ RxStep)
  /\ WF_vars(ended = "not" /\ RxFrames)

-----------------------------------------------------------------------------
TypeOK ==
  /\ adev \in Adev
  /\ Len(adev.outbuf) * FrameBytes <= adev.outbuf_size_in_bytes
  /\ adev.inbuf_len <= adev.inbuf_size_in_bytes
  /\ adev.inbuf_next <= adev.inbuf_len
  /\ flush \in [Threads -> [called : BOOLEAN, retries : 0 .. OutRetries]]
  /\ played \in Seq(Nat) /\ gaveUp \in BOOLEAN
  /\ rx \in [pc : {"none", "check", "audio_get"},
             got : 0 .. SymbolFrames * FrameBytes - 1, retries : 0 .. InRetries]
  /\ queued \in 0 .. MaxQueued /\ put \in 0 .. MaxSound
  /\ node_shutdown \in BOOLEAN /\ Closing => node_shutdown

\* Although tx_init starts the transmit thread before the rest of it is set up
\* and main goes on with other parts meanwhile, the thread uses nothing that is
\* not there yet, and the device is there until cleanup closes it.
ReadyBeforeUse ==
  tx \in Transmitting =>
    /\ {"tables", "queues", "tx_constants", "demod"} \subseteq ready
    /\ ~Closing => adev.audio_in_handle /\ adev.audio_out_handle /\ adev.buffers

\* Until cleanup, the card gets the sound in order and nothing twice, however
\* it takes it; and all of it, unless audio_flush gave up.
SoundInOrder ==
  LET sound == played \o adev.outbuf
  IN  ~Closing =>
        /\ \A i, j \in DOMAIN sound : i < j => sound[i] < sound[j]
        /\ ~gaveUp => sound = [n \in 1 .. put |-> n]

\* A transmission leaves nothing in outbuf for the next one to begin with.
NothingLeftBehind ==
  tx \in {"top", "asleep"} /\ ~Closing => adev.outbuf = <<>>

\* demod_get_samples stays in step with the frames of the card: the octets of
\* one frame are not taken for parts of two, also after audio_get gave up.
FramesAligned ==
  rx.pc = "audio_get" /\ ~Closing => rx.got % FrameBytes = adev.inbuf_next % FrameBytes

\* A transmission comes to its end whatever the card does, since every way
\* through the loop of audio_flush uses up a retry.
TransmissionEnds == tx \in Transmitting ~> tx \notin Transmitting \/ ended # "not"

\* SIGINT ends the process once the receive thread runs: if the handler waits
\* for a lock that main itself held, the receive thread still sees the flag.
Terminates == node_shutdown /\ "rx_thread" \in ready ~> ended # "not"
=============================================================================
