-------------------------------- MODULE Audio --------------------------------
(***************************************************************************)
(* The sound card and its buffers: adev of audio.c.  The transmit thread    *)
(* puts sound into outbuf and has audio_flush write it to the card whenever *)
(* outbuf is full and at the end of a transmission; the receive thread      *)
(* takes its input octet by octet.  Opening and closing, by the main        *)
(* thread, use audio_flush as well, so each thread has its own copy of that *)
(* function's variables.                                                    *)
(*                                                                          *)
(* Output is counted in frames, four calls of audio_put each.  A frame is   *)
(* the number it has in all the sound that was put.  ALSA is external: it   *)
(* has a period size of its own, and it may take any part of what it is     *)
(* given or report an error.                                                *)
(***************************************************************************)
EXTENDS Naturals, Sequences

CONSTANTS Periods,     \* period sizes, in frames, the driver may settle on
          FrameBytes,  \* bytes_per_frame
          MinBytes, MaxBytes, DefaultBytes,  \* 256, 32768 and 2048 in the code
          OutRetries,  \* writes tried by audio_flush, 10 in the code
          InRetries    \* read errors audio_get puts up with, 10 in the code

ASSUME AudioAssumption ==
          /\ {FrameBytes, MinBytes, MaxBytes, OutRetries} \cup Periods \subseteq Nat \ {0}
          /\ DefaultBytes \in {k * FrameBytes : k \in 1 .. DefaultBytes}
          /\ InRetries \in Nat

Threads == {"main", "tx"}

VARIABLES adev,
          flush,    \* audio_flush in each thread: has it been called, and retries
          played,   \* the frames the card has taken
          gaveUp    \* history: audio_flush has run out of retries

audioVars == <<adev, flush, played, gaveUp>>

Adev == [audio_in_handle : BOOLEAN, audio_out_handle : BOOLEAN,  \* not NULL
         buffers : BOOLEAN,                                      \* allocated
         outbuf_size_in_bytes : Nat, inbuf_size_in_bytes : Nat,
         outbuf : Seq(Nat),         \* what psound points to, outbuf_len octets
         inbuf_len : Nat, inbuf_next : Nat]

NoDevice == [audio_in_handle |-> FALSE, audio_out_handle |-> FALSE, buffers |-> FALSE,
             outbuf_size_in_bytes |-> 0, inbuf_size_in_bytes |-> 0,
             outbuf |-> <<>>, inbuf_len |-> 0, inbuf_next |-> 0]

Returned == [called |-> FALSE, retries |-> 0]

AudioInit ==
  /\ adev = NoDevice
  /\ flush = [t \in Threads |-> Returned]
  /\ played = <<>> /\ gaveUp = FALSE

-----------------------------------------------------------------------------
(* Opening.                                                                  *)

\* The size of a buffer: a period, unless that is out of bounds.
set_alsa_params(fpp) ==
  LET bytes == fpp * FrameBytes
  IN  IF bytes < MinBytes \/ bytes > MaxBytes THEN DefaultBytes ELSE bytes

OpenInput ==
  \E fpp \in Periods :
    adev' = [adev EXCEPT !.audio_in_handle = TRUE,
                         !.inbuf_size_in_bytes = set_alsa_params(fpp)]
OpenOutput ==
  \E fpp \in Periods :
    adev' = [adev EXCEPT !.audio_out_handle = TRUE,
                         !.outbuf_size_in_bytes = set_alsa_params(fpp)]
AllocateBuffers == adev' = [adev EXCEPT !.buffers = TRUE]

-----------------------------------------------------------------------------
(* Output.                                                                   *)

\* A faulty variant, for comparison: the test comes before the octet is stored.
FullBefore == Len(adev.outbuf) * FrameBytes = adev.outbuf_size_in_bytes

\* Four calls of audio_put; whether the buffer is full then.
PutFrame(n) == adev' = [adev EXCEPT !.outbuf = Append(@, n)]
Full == (Len(adev.outbuf) + 1) * FrameBytes = adev.outbuf_size_in_bytes

\* A thread calls audio_flush, which prepares the card if it is not running.
Flush(t) == flush' = [flush EXCEPT ![t] = [called |-> TRUE, retries |-> OutRetries]]

\* A faulty variant, for comparison: psound stays where it was.
WriteSomeAgain(t) ==
  \E k \in 0 .. Len(adev.outbuf) - 1 :
    /\ flush[t].retries > 0
    /\ played' = played \o SubSeq(adev.outbuf, 1, k)
    /\ adev' = [adev EXCEPT !.outbuf = SubSeq(@, 1, Len(@) - k)]
    /\ flush' = [flush EXCEPT ![t].retries = @ - 1]
    /\ UNCHANGED gaveUp

\* The card takes less than it is given: "Go around again with the rest of it",
\* which uses up a retry.
WriteSome(t) ==
  \E k \in 0 .. Len(adev.outbuf) - 1 :
    /\ flush[t].retries > 0
    /\ played' = played \o SubSeq(adev.outbuf, 1, k)
    /\ adev' = [adev EXCEPT !.outbuf = SubSeq(@, k + 1, Len(@))]
    /\ flush' = [flush EXCEPT ![t].retries = @ - 1]
    /\ UNCHANGED gaveUp

\* Any error of the card, recovered from as well as may be.
WriteError(t) ==
  /\ flush[t].retries > 0
  /\ flush' = [flush EXCEPT ![t].retries = @ - 1]
  /\ UNCHANGED <<adev, played, gaveUp>>

\* Success!
WriteAll(t) ==
  /\ flush[t].retries > 0
  /\ played' = played \o adev.outbuf
  /\ adev' = [adev EXCEPT !.outbuf = <<>>]
  /\ flush' = [flush EXCEPT ![t] = Returned]
  /\ UNCHANGED gaveUp

\* Faulty variants, for comparison: it never gives up, ...
StartOver(t) ==
  /\ flush[t].retries = 0
  /\ Flush(t)
  /\ UNCHANGED <<adev, played, gaveUp>>

\* ... or what was not written stays in the buffer.
GiveUpKeeping(t) ==
  /\ flush[t].retries = 0
  /\ flush' = [flush EXCEPT ![t] = Returned]
  /\ gaveUp' = TRUE
  /\ UNCHANGED <<adev, played>>

\* "Audio write error retry count exceeded.": the rest is dropped.
GiveUp(t) ==
  /\ flush[t].retries = 0
  /\ flush' = [flush EXCEPT ![t] = Returned]
  /\ adev' = [adev EXCEPT !.outbuf = <<>>]
  /\ gaveUp' = TRUE
  /\ UNCHANGED played

audio_flush(t) ==
  /\ flush[t].called
  /\ WriteSome(t) \/ WriteError(t) \/ WriteAll(t) \/ GiveUp(t)

-----------------------------------------------------------------------------
(* Input.                                                                    *)

HasInput == adev.inbuf_next < adev.inbuf_len

TakeOctet == adev' = [adev EXCEPT !.inbuf_next = @ + 1]

\* A faulty variant, for comparison: frames are taken for octets.
RefillFrames ==
  \E err \in 1 .. adev.inbuf_size_in_bytes \div FrameBytes :
    adev' = [adev EXCEPT !.inbuf_len = err, !.inbuf_next = 0]

\* The card hands over some frames.
Refill ==
  \E err \in 1 .. adev.inbuf_size_in_bytes \div FrameBytes :
    adev' = [adev EXCEPT !.inbuf_len = err * FrameBytes, !.inbuf_next = 0]

\* Nothing yet, or given up.
NoInput == adev' = [adev EXCEPT !.inbuf_len = 0, !.inbuf_next = 0]
=============================================================================
