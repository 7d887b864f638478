-------------------------- MODULE NodeProcess_proof --------------------------
(***************************************************************************)
(* What NodeProcess says of the order of start-up and of the sound, proved  *)
(* for every size of the card's periods and buffers, of a symbol and of the *)
(* retries.                                                                 *)
(*                                                                          *)
(* ReadyInv says what is set up at each step of main; BufferInv in which    *)
(* steps of the transmit thread outbuf may hold sound; OrderInv is          *)
(* SoundInOrder together with the numbers that were given out.  TypeInv,    *)
(* OutputInv and InputInv together are TypeOK and FramesAligned: the        *)
(* buffers hold whole frames, whatever sizes set_alsa_params has chosen.    *)
(***************************************************************************)
EXTENDS NodeProcess, TLAPS, SequenceTheorems

AdevFields == DOMAIN NoDevice

SoundType ==
  /\ DOMAIN adev = AdevFields /\ adev.outbuf \in Seq(Nat)
  /\ DOMAIN flush = Threads /\ \A t \in Threads : DOMAIN flush[t] = {"called", "retries"}
  /\ played \in Seq(Nat) /\ put \in Nat

\* Main before each of its steps, and the steps after it.
FromRxProcess == {"rx_process"}
FromKissptInit == {"kisspt_init"} \cup FromRxProcess
FromRxInit == {"rx_init", "demod_init"} \cup FromKissptInit
FromTxInit == {"tx_init", "tx_constants"} \cup FromRxInit
FromQueues == {"queues"} \cup FromTxInit
FromTables == {"tables"} \cup FromQueues

ReadyInv ==
  /\ main \in {"open_output", "allocate"} \cup FromTables => adev.audio_in_handle
  /\ main \in {"allocate"} \cup FromTables => adev.audio_out_handle
  /\ main \in FromTables => adev.buffers
  /\ main \in FromQueues => "tables" \in ready
  /\ main \in FromTxInit => "queues" \in ready
  /\ main \in FromRxInit => "tx_constants" \in ready
  /\ main \in FromKissptInit => "demod" \in ready
  /\ queued \in Nat
  /\ queued > 0 \/ tx \in Transmitting => "kiss_thread" \in ready
  /\ "kiss_thread" \in ready =>
       /\ main \in FromRxProcess \cup InHandler
       /\ {"tables", "queues", "tx_constants", "demod"} \subseteq ready

BufferInv ==
  ~Closing =>
    /\ tx \notin Transmitting => adev.outbuf = <<>>
    /\ tx \in {"wait", "drain"} /\ ~flush["tx"].called => adev.outbuf = <<>>

Sound == played \o adev.outbuf

Ordered(s, n) ==
  /\ \A i \in 1 .. Len(s) : s[i] <= n
  /\ \A i, j \in 1 .. Len(s) : i < j => s[i] < s[j]

OrderInv ==
  ~Closing => Ordered(Sound, put) /\ (~gaveUp => Sound = [n \in 1 .. put |-> n])

Flushes == [Threads -> [called : BOOLEAN, retries : 0 .. OutRetries]]

TypeInv ==
  /\ adev \in Adev /\ flush \in Flushes
  /\ gaveUp \in BOOLEAN
  /\ rx \in [pc : {"none", "check", "audio_get"},
             got : 0 .. SymbolFrames * FrameBytes - 1, retries : 0 .. InRetries]
  /\ queued \in 0 .. MaxQueued /\ put \in 0 .. MaxSound
  /\ node_shutdown \in BOOLEAN /\ (Closing => node_shutdown)

\* outbuf has room for a whole number of frames, and for one more when
\* put_symbols goes on.
RoomFor(q) ==
  /\ adev.outbuf_size_in_bytes = q * FrameBytes
  /\ Len(adev.outbuf) <= q
  /\ main \in {"allocate"} \cup FromTables => q > 0
  /\ tx = "put" /\ ~flush["tx"].called /\ ~Closing => Len(adev.outbuf) < q

OutputInv == \E q \in Nat : RoomFor(q)

\* The receive thread is not there yet.
BeforeRx == {"open_input", "open_output", "allocate", "tables", "queues", "tx_init",
             "tx_constants", "rx_init"}

\* inbuf has whole frames in it, and demod_get_samples begins with one.
WholeFrames(p, l) ==
  /\ adev.inbuf_size_in_bytes = p * FrameBytes
  /\ adev.inbuf_len = l * FrameBytes
  /\ l <= p /\ adev.inbuf_next <= adev.inbuf_len
  /\ rx.pc = "none" => l = 0
  /\ main \in BeforeRx => rx.pc = "none"

InStep ==
  ~Closing =>
    /\ rx.pc = "audio_get" => rx.got % FrameBytes = adev.inbuf_next % FrameBytes
    /\ rx.pc # "audio_get" => adev.inbuf_next % FrameBytes = 0

InputInv == InStep /\ \E p, l \in Nat : WholeFrames(p, l)

IInv == /\ SoundType /\ ReadyInv /\ BufferInv /\ OrderInv
        /\ TypeInv /\ OutputInv /\ InputInv

-----------------------------------------------------------------------------
(* Sequences.                                                                *)

LEMMA Split ==
  ASSUME NEW p \in Seq(Nat), NEW b \in Seq(Nat), NEW k \in 0 .. Len(b)
  PROVE  /\ SubSeq(b, k + 1, Len(b)) \in Seq(Nat)
         /\ p \o SubSeq(b, 1, k) \in Seq(Nat)
         /\ (p \o SubSeq(b, 1, k)) \o SubSeq(b, k + 1, Len(b)) = p \o b
<1> DEFINE u == SubSeq(b, 1, k)
           v == SubSeq(b, k + 1, Len(b))
<1>1. k \in Nat /\ Len(b) \in Nat /\ k <= Len(b)
  BY LenProperties
<1>2. /\ u \in Seq(Nat) /\ Len(u) = k
      /\ \A i \in 1 .. k : u[i] = b[i]
  BY <1>1
<1>3. /\ v \in Seq(Nat) /\ Len(v) = Len(b) - k
      /\ \A i \in 1 .. Len(b) - k : v[i] = b[k + i]
  BY <1>1
<1> HIDE DEF u, v
<1>4. u \o v = b
  <2>0. /\ u \o v \in Seq(Nat)
        /\ Len(u \o v) = Len(u) + Len(v)
        /\ \A i \in 1 .. Len(u) + Len(v) :
             (u \o v)[i] = IF i <= Len(u) THEN u[i] ELSE v[i - Len(u)]
    BY <1>2, <1>3, ConcatProperties, Zenon
  <2>1. u \o v \in Seq(Nat) /\ Len(u \o v) = Len(b)
    <3>1. k + (Len(b) - k) = Len(b)
      BY <1>1
    <3> QED BY <1>2, <1>3, <2>0, <3>1
  <2>2. \A i \in 1 .. Len(b) : (u \o v)[i] = b[i]
    <3> TAKE i \in 1 .. Len(b)
    <3>0. i \in 1 .. Len(u) + Len(v)
      BY <1>1, <1>2, <1>3
    <3>1. CASE i <= k
      BY <1>1, <1>2, <2>0, <3>0, <3>1
    <3>2. CASE ~(i <= k)
      <4>1. i - k \in 1 .. Len(b) - k /\ k + (i - k) = i
        BY <1>1, <3>2
      <4>2. (u \o v)[i] = v[i - k]
        BY <1>2, <2>0, <3>0, <3>2
      <4> QED BY <1>3, <4>1, <4>2
    <3> QED BY <3>1, <3>2
  <2> QED BY <2>1, <2>2, SeqEqual
<1>5. (p \o u) \o v = p \o (u \o v)
  BY <1>2, <1>3, ConcatAssociative, SMTT(30)
<1>6. p \o u \in Seq(Nat)
  BY <1>2, ConcatProperties
<1> QED BY <1>3, <1>4, <1>5, <1>6 DEF u, v

LEMMA Prefix ==
  ASSUME NEW p \in Seq(Nat), NEW b \in Seq(Nat), NEW n, Ordered(p \o b, n)
  PROVE  Ordered(p \o <<>>, n)
<1>1. /\ Len(p) \in Nat /\ Len(b) \in Nat /\ Len(p \o b) = Len(p) + Len(b)
      /\ \A i \in 1 .. Len(p) : i \in 1 .. Len(p \o b) /\ (p \o b)[i] = p[i]
  OBVIOUS
<1>2. p \o <<>> = p
  BY ConcatEmptySeq
<1> QED BY <1>1, <1>2 DEF Ordered

LEMMA Longer ==
  ASSUME NEW p \in Seq(Nat), NEW b \in Seq(Nat), NEW n \in Nat
  PROVE  /\ Append(b, n + 1) \in Seq(Nat)
         /\ Ordered(p \o b, n) => Ordered(p \o Append(b, n + 1), n + 1)
         /\ p \o b = [i \in 1 .. n |-> i] =>
              p \o Append(b, n + 1) = [i \in 1 .. n + 1 |-> i]
<1> DEFINE s == p \o b
           t == p \o Append(b, n + 1)
<1>1. /\ s \in Seq(Nat) /\ t \in Seq(Nat) /\ Append(b, n + 1) \in Seq(Nat)
      /\ Len(s) \in Nat
      /\ Len(t) = Len(s) + 1
      /\ \A i \in 1 .. Len(s) : t[i] = s[i]
      /\ t[Len(s) + 1] = n + 1
  OBVIOUS
<1> HIDE DEF s, t
<1>2. Ordered(s, n) => Ordered(t, n + 1)
  <2>1. \A i \in 1 .. Len(s) : s[i] \in Nat
    BY <1>1
  <2>2. \A i \in 1 .. Len(t) : i \in 1 .. Len(s) \/ i = Len(s) + 1
    BY <1>1
  <2> SUFFICES ASSUME Ordered(s, n) PROVE Ordered(t, n + 1)
    OBVIOUS
  <2>3. \A i \in 1 .. Len(s) : t[i] \in Nat /\ t[i] <= n /\ t[i] < t[Len(s) + 1]
    <3> TAKE i \in 1 .. Len(s)
    <3>1. s[i] \in Nat /\ s[i] <= n /\ t[i] = s[i]
      BY <1>1, <2>1 DEF Ordered
    <3> QED BY <1>1, <3>1
  <2>4. ASSUME NEW i \in 1 .. Len(t) PROVE t[i] <= n + 1
    <3>1. CASE i \in 1 .. Len(s)
      BY <2>3, <3>1
    <3>2. CASE i = Len(s) + 1
      BY <1>1, <3>2
    <3> QED BY <2>2, <3>1, <3>2
  <2>5. ASSUME NEW i \in 1 .. Len(t), NEW j \in 1 .. Len(t), i < j PROVE t[i] < t[j]
    <3>1. i \in 1 .. Len(s) /\ Len(s) \in Nat
      BY <1>1, <2>5
    <3>2. CASE j \in 1 .. Len(s)
      BY <1>1, <2>5, <3>1, <3>2 DEF Ordered
    <3>3. CASE j = Len(s) + 1
      BY <2>3, <3>1, <3>3
    <3> QED BY <2>2, <3>2, <3>3
  <2> QED BY <2>4, <2>5 DEF Ordered
<1>3. ASSUME s = [i \in 1 .. n |-> i] PROVE t = [i \in 1 .. n + 1 |-> i]
  <2>1. Len(s) = n
    BY <1>1, <1>3
  <2>2. DOMAIN t = 1 .. n + 1 /\ t = [i \in 1 .. n + 1 |-> t[i]]
    BY <1>1, <2>1
  <2>3. \A i \in 1 .. n + 1 : t[i] = i
    BY <1>1, <1>3, <2>1
  <2> QED BY <2>2, <2>3
<1> QED BY <1>1, <1>2, <1>3 DEF s, t

-----------------------------------------------------------------------------
(* Start-up.                                                                 *)

LEMMA FieldNames ==
  AdevFields = {"audio_in_handle", "audio_out_handle", "buffers", "outbuf", "inbuf_len",
                "inbuf_next", "inbuf_size_in_bytes", "outbuf_size_in_bytes"}
BY DEF AdevFields, NoDevice

LEMMA ReadyStep ==
  ASSUME SoundType, ReadyInv, Next
  PROVE  ReadyInv'
<1> USE DEF FromRxProcess, FromKissptInit, FromRxInit, FromTxInit, FromQueues, FromTables,
            InHandler, MainGoes, mainRest, handlerRest, txRest, rxRest, audioVars, Transmitting,
            StartsTx, StartsRx, StartsNone
<1>0. DOMAIN adev = AdevFields
  BY DEF SoundType
<1> DEFINE Same(r) == r.audio_in_handle = adev.audio_in_handle
                      /\ r.audio_out_handle = adev.audio_out_handle
                      /\ r.buffers = adev.buffers
<1>1. CASE audio_open
  <2>1. CASE MainGoes("open_input", "open_output") /\ OpenInput /\ UNCHANGED flush
    BY <1>0, FieldNames, <1>1, <2>1 DEF audio_open, OpenInput, ReadyInv
  <2>2. CASE MainGoes("open_output", "allocate") /\ OpenOutput /\ UNCHANGED flush
    BY <1>0, FieldNames, <1>1, <2>2 DEF audio_open, OpenOutput, ReadyInv
  <2>3. CASE MainGoes("allocate", "tables") /\ AllocateBuffers /\ Flush("main")
    BY <1>0, FieldNames, <1>1, <2>3 DEF audio_open, AllocateBuffers, ReadyInv
  <2> QED BY <1>1, <2>1, <2>2, <2>3 DEF audio_open
<1>2. CASE Preparations
  BY <1>2 DEF Preparations, SetsUp, ReadyInv
<1>3. CASE Completions
  BY <1>3 DEF Completions, SetsUp, ReadyInv
<1>4. CASE audio_close
  BY <1>4 DEF audio_close, ReadyInv
<1>5. CASE ExitAfterCleanup \/ NoAudioDevice \/ Crash
  BY <1>5 DEF ExitAfterCleanup, NoAudioDevice, Crash, ReadyInv
<1>6. ASSUME NEW t, audio_flush(t) PROVE Same(adev')
  BY <1>0, FieldNames, <1>6 DEF audio_flush, WriteSome, WriteError, WriteAll, GiveUp
<1>7. CASE MainFlush
  <2>1. Same(adev')
    BY <1>6, <1>7 DEF MainFlush
  <2> QED BY <1>7, <2>1 DEF MainFlush, ReadyInv
<1>8. CASE Interrupt
  BY <1>8 DEF Interrupt, ReadyInv
<1>9. CASE TxStep
  <2>1. CASE TxTop \/ TxEnds \/ TxReleases
    BY <1>9, <2>1 DEF TxTop, TxEnds, TxReleases, TxGoes, ReadyInv
  <2>2. CASE TxBegins
    BY <2>2 DEF TxBegins, TxGoes, ReadyInv
  <2>3. CASE TxPuts
    <3>1. Same(adev')
      BY <1>0, FieldNames, <2>3 DEF TxPuts, PutFrame
    <3> QED BY <2>3, <3>1 DEF TxPuts, TxGoes, ReadyInv
  <2>4. CASE TxFlush
    <3>1. Same(adev')
      BY <1>6, <2>4 DEF TxFlush
    <3> QED BY <2>4, <3>1 DEF TxFlush, ReadyInv
  <2> QED BY <1>9, <2>1, <2>2, <2>3, <2>4 DEF TxStep
<1>10. CASE RxStep
  <2>1. Same(adev')
    BY <1>0, FieldNames, <1>10 DEF RxStep, RxCheck, RxExits, RxOctet, RxFrames, RxNoFrames,
          TakeOctet, Refill, NoInput
  <2> QED BY <1>10, <2>1 DEF RxStep, RxCheck, RxExits, RxOctet, RxFrames, RxNoFrames, ReadyInv
<1>11. CASE NewPacket
  BY <1>11 DEF NewPacket, ReadyInv
<1> QED BY <1>1, <1>2, <1>3, <1>4, <1>5, <1>7, <1>8, <1>9, <1>10, <1>11 DEF Next, MainStep

-----------------------------------------------------------------------------
(* Sound.                                                                    *)

\* What audio_flush does to it in either thread.
LEMMA FlushStep ==
  ASSUME SoundType, NEW t \in Threads, audio_flush(t)
  PROVE  /\ DOMAIN adev' = AdevFields /\ adev'.outbuf \in Seq(Nat) /\ played' \in Seq(Nat)
         /\ DOMAIN flush' = Threads
         /\ \A u \in Threads : DOMAIN flush'[u] = {"called", "retries"}
         /\ \A u \in Threads \ {t} : flush'[u] = flush[u]
         /\ flush'[t].called \/ adev'.outbuf = <<>>
         /\ adev.outbuf = <<>> => adev'.outbuf = <<>>
         /\ \/ Sound' = Sound /\ gaveUp' = gaveUp
            \/ Sound' = played \o <<>> /\ gaveUp'
<1>1. CASE WriteSome(t)
  <2>1. PICK k \in 0 .. Len(adev.outbuf) - 1 :
          /\ played' = played \o SubSeq(adev.outbuf, 1, k)
          /\ adev' = [adev EXCEPT !.outbuf = SubSeq(@, k + 1, Len(@))]
          /\ flush' = [flush EXCEPT ![t].retries = @ - 1]
          /\ gaveUp' = gaveUp
    BY <1>1 DEF WriteSome
  <2>2. /\ DOMAIN adev' = AdevFields
        /\ adev'.outbuf = SubSeq(adev.outbuf, k + 1, Len(adev.outbuf))
    BY <2>1, FieldNames DEF SoundType
  <2>3. k \in 0 .. Len(adev.outbuf) /\ adev.outbuf # <<>>
    BY <2>1 DEF SoundType
  <2>4. adev'.outbuf \in Seq(Nat) /\ played' \in Seq(Nat) /\ Sound' = Sound
    <3>1. played \in Seq(Nat) /\ adev.outbuf \in Seq(Nat)
      BY DEF SoundType
    <3>2. /\ SubSeq(adev.outbuf, k + 1, Len(adev.outbuf)) \in Seq(Nat)
          /\ played \o SubSeq(adev.outbuf, 1, k) \in Seq(Nat)
          /\ (played \o SubSeq(adev.outbuf, 1, k)) \o SubSeq(adev.outbuf, k + 1, Len(adev.outbuf))
               = played \o adev.outbuf
      BY <2>3, <3>1, Split, Zenon
    <3> QED BY <2>1, <2>2, <3>2, Zenon DEF Sound
  <2>5. /\ DOMAIN flush' = Threads
        /\ \A u \in Threads : DOMAIN flush'[u] = {"called", "retries"}
        /\ \A u \in Threads \ {t} : flush'[u] = flush[u]
        /\ flush'[t].called
    BY <2>1 DEF SoundType, audio_flush
  <2> QED BY <2>1, <2>2, <2>3, <2>4, <2>5
<1>2. CASE WriteError(t)
  BY <1>2 DEF WriteError, SoundType, audio_flush, Sound
<1>3. CASE WriteAll(t)
  <2>1. DOMAIN adev' = AdevFields /\ adev'.outbuf = <<>>
    BY <1>3, FieldNames DEF WriteAll, SoundType
  <2>2. /\ DOMAIN flush' = Threads
        /\ \A u \in Threads : DOMAIN flush'[u] = {"called", "retries"}
        /\ \A u \in Threads \ {t} : flush'[u] = flush[u]
    BY <1>3 DEF WriteAll, SoundType, Returned
  <2>3. played' \in Seq(Nat) /\ Sound' = Sound /\ gaveUp' = gaveUp
    BY <1>3, <2>1, ConcatProperties, ConcatEmptySeq DEF WriteAll, SoundType, Sound
  <2> QED BY <2>1, <2>2, <2>3
<1>4. CASE GiveUp(t)
  <2>1. DOMAIN adev' = AdevFields /\ adev'.outbuf = <<>>
    BY <1>4, FieldNames DEF GiveUp, SoundType
  <2>2. /\ DOMAIN flush' = Threads
        /\ \A u \in Threads : DOMAIN flush'[u] = {"called", "retries"}
        /\ \A u \in Threads \ {t} : flush'[u] = flush[u]
    BY <1>4 DEF GiveUp, SoundType, Returned
  <2> QED BY <1>4, <2>1, <2>2 DEF GiveUp, SoundType, Sound
<1> QED BY <1>1, <1>2, <1>3, <1>4 DEF audio_flush

\* Either outbuf and the rest are as before, or it is audio_flush or put_symbols,
\* or the sound is not followed any further.
LEMMA SoundStep ==
  ASSUME SoundType, ReadyInv, BufferInv, OrderInv, Next
  PROVE  SoundType' /\ BufferInv' /\ OrderInv'
<1> USE DEF MainGoes, mainRest, handlerRest, txRest, rxRest, audioVars, Transmitting
<1> DEFINE Kept == /\ DOMAIN adev' = AdevFields /\ adev'.outbuf = adev.outbuf
                   /\ UNCHANGED <<played, gaveUp, put>>
                   /\ DOMAIN flush' = Threads
                   /\ \A t \in Threads : DOMAIN flush'[t] = {"called", "retries"}
                   /\ \/ tx' = tx /\ flush'["tx"] = flush["tx"]
                      \/ tx \notin Transmitting /\ tx' = "top"
                   /\ Closing => Closing'
<1>1. ASSUME Kept PROVE SoundType' /\ BufferInv' /\ OrderInv'
  <2>1. SoundType'
    BY <1>1 DEF SoundType
  <2>2. BufferInv'
    BY <1>1 DEF BufferInv
  <2>3. Sound' = Sound
    BY <1>1 DEF Sound
  <2>4. OrderInv'
    BY <1>1, <2>3 DEF OrderInv
  <2> QED BY <2>1, <2>2, <2>4
<1>2. CASE audio_open
  <2>1. Kept
    BY <1>2, FieldNames DEF audio_open, OpenInput, OpenOutput, AllocateBuffers, Flush, Closing,
          InHandler, SoundType, Threads
  <2> QED BY <1>1, <2>1
<1>3. CASE Preparations \/ Completions
  <2>1. /\ \/ tx' = tx
           \/ tx \notin Transmitting /\ tx' = "top"
        /\ UNCHANGED <<adev, flush, played, gaveUp, put>> /\ ~Closing /\ ~Closing'
    BY <1>3 DEF Preparations, Completions, SetsUp, Closing, InHandler, StartsTx, StartsRx,
          StartsNone, ReadyInv, FromRxProcess
  <2>2. Kept
    BY <2>1 DEF SoundType
  <2> QED BY <1>1, <2>2
<1>4. CASE audio_close
  <2>1. Closing'
    BY <1>4 DEF audio_close, Closing, InHandler
  <2>2. SoundType'
    <3>1. DOMAIN adev' = AdevFields /\ adev'.outbuf \in Seq(Nat)
      <4>1. \/ adev' = adev \/ adev' = NoDevice
            \/ adev' = [adev EXCEPT !.audio_in_handle = FALSE, !.audio_out_handle = FALSE]
        BY <1>4 DEF audio_close
      <4>2. DOMAIN NoDevice = AdevFields /\ NoDevice.outbuf = <<>>
        BY DEF NoDevice, AdevFields
      <4>3. CASE adev' = NoDevice
        BY <4>2, <4>3, EmptySeq, Zenon
      <4>4. CASE adev' = adev
        BY <4>4 DEF SoundType
      <4>5. CASE adev' = [adev EXCEPT !.audio_in_handle = FALSE, !.audio_out_handle = FALSE]
        BY <4>5, FieldNames DEF SoundType
      <4> QED BY <4>1, <4>3, <4>4, <4>5
    <3>2. DOMAIN flush' = Threads /\ \A t \in Threads : DOMAIN flush'[t] = {"called", "retries"}
      BY <1>4 DEF audio_close, SoundType, Flush
    <3>3. UNCHANGED <<played, put>>
      BY <1>4 DEF audio_close
    <3> QED BY <3>1, <3>2, <3>3 DEF SoundType
  <2> QED BY <2>1, <2>2 DEF BufferInv, OrderInv
<1>5. CASE ExitAfterCleanup \/ NoAudioDevice \/ Crash
  <2>1. Kept
    BY <1>5 DEF ExitAfterCleanup, NoAudioDevice, Crash, Closing, SoundType
  <2> QED BY <1>1, <2>1
<1>6. CASE Interrupt
  <2>1. Closing'
    BY <1>6 DEF Interrupt, Closing, InHandler
  <2>2. SoundType'
    BY <1>6 DEF Interrupt, SoundType, Returned
  <2> QED BY <2>1, <2>2 DEF BufferInv, OrderInv
<1>7. ASSUME NEW t \in Threads, audio_flush(t), t = "tx" \/ t = "main",
             UNCHANGED <<tx, put>>, Closing => Closing'
      PROVE  SoundType' /\ BufferInv' /\ OrderInv'
  <2>1. SoundType'
    BY <1>7, FlushStep DEF SoundType
  <2>2. BufferInv'
    BY <1>7, FlushStep DEF BufferInv, Threads
  <2>3. OrderInv'
    <3>1. CASE Sound' = Sound /\ gaveUp' = gaveUp
      BY <1>7, <3>1 DEF OrderInv
    <3>2. CASE Sound' = played \o <<>> /\ gaveUp'
      <4>1. played \in Seq(Nat) /\ adev.outbuf \in Seq(Nat)
        BY DEF SoundType
      <4>2. ASSUME Ordered(played \o adev.outbuf, put) PROVE Ordered(played \o <<>>, put)
        BY <4>1, <4>2, Prefix
      <4> QED BY <1>7, <3>2, <4>2 DEF OrderInv, Sound
    <3> QED BY <1>7, <3>1, <3>2, FlushStep
  <2> QED BY <2>1, <2>2, <2>3
<1>8. CASE MainFlush
  BY <1>7, <1>8 DEF MainFlush, Threads, Closing
<1>9. CASE TxStep
  <2>1. CASE TxTop \/ TxReleases
    <3>1. SoundType'
      BY <2>1 DEF TxTop, TxReleases, SoundType
    <3>2. BufferInv'
      BY <2>1 DEF TxTop, TxReleases, TxGoes, BufferInv, Closing
    <3>3. OrderInv'
      BY <2>1 DEF TxTop, TxReleases, OrderInv, Sound, Closing
    <3> QED BY <3>1, <3>2, <3>3
  <2>2. CASE TxBegins \/ TxEnds
    <3>1. /\ SoundType' /\ tx' \in Transmitting
          /\ flush'["tx"].called \/ tx' = "put"
      BY <2>2 DEF TxBegins, TxEnds, TxGoes, SoundType, Flush, Threads
    <3>2. BufferInv'
      BY <3>1 DEF BufferInv
    <3>3. OrderInv'
      BY <2>2 DEF TxBegins, TxEnds, OrderInv, Sound, Closing
    <3> QED BY <3>1, <3>2, <3>3
  <2>3. CASE TxPuts
    <3>1. played \in Seq(Nat) /\ adev.outbuf \in Seq(Nat) /\ put \in Nat
      BY DEF SoundType
    <3>2. /\ DOMAIN adev' = AdevFields /\ adev'.outbuf = Append(adev.outbuf, put + 1)
          /\ put' = put + 1 /\ UNCHANGED <<played, gaveUp>> /\ ~Closing /\ tx' = "put"
      BY <2>3, FieldNames DEF TxPuts, PutFrame, TxGoes, SoundType
    <3>3. SoundType'
      <4>1. Append(adev.outbuf, put + 1) \in Seq(Nat) /\ put + 1 \in Nat
        BY <3>1, Longer
      <4>2. DOMAIN flush' = Threads /\ \A t \in Threads : DOMAIN flush'[t] = {"called", "retries"}
        BY <2>3 DEF TxPuts, SoundType, Flush
      <4> QED BY <3>1, <3>2, <4>1, <4>2 DEF SoundType
    <3>4. BufferInv'
      BY <3>2 DEF BufferInv
    <3>5. OrderInv'
      <4>1. Sound' = played \o Append(adev.outbuf, put + 1)
        BY <3>2 DEF Sound
      <4> QED BY <3>1, <3>2, <4>1, Longer DEF OrderInv, Sound
    <3> QED BY <3>3, <3>4, <3>5
  <2>4. CASE TxFlush
    BY <1>7, <2>4 DEF TxFlush, Threads, Closing
  <2> QED BY <1>9, <2>1, <2>2, <2>3, <2>4 DEF TxStep
<1>10. CASE RxStep
  <2>1. Kept
    BY <1>10, FieldNames DEF RxStep, RxCheck, RxExits, RxOctet, RxFrames, RxNoFrames, TakeOctet,
          Refill, NoInput, SoundType, Closing
  <2> QED BY <1>1, <2>1
<1>11. CASE NewPacket
  <2>1. Kept
    BY <1>11 DEF NewPacket, SoundType, Closing
  <2> QED BY <1>1, <2>1
<1> QED BY <1>2, <1>3, <1>4, <1>5, <1>6, <1>8, <1>9, <1>10, <1>11 DEF Next, MainStep

-----------------------------------------------------------------------------
(* Whole frames.                                                             *)

LEMMA Division ==
  ASSUME NEW a \in Nat, NEW m \in Nat \ {0}
  PROVE  /\ a \div m \in Nat /\ a % m \in 0 .. m - 1
         /\ a = m * (a \div m) + (a % m)
BY SMT

LEMMA Divided ==
  ASSUME NEW q \in Nat, NEW m \in Nat \ {0}, NEW r \in 0 .. m - 1
  PROVE  (m * q + r) % m = r /\ (m * q + r) \div m = q
BY SMT

LEMMA ModNext ==
  ASSUME NEW a \in Nat, NEW m \in Nat \ {0}
  PROVE  (a + 1) % m = IF a % m = m - 1 THEN 0 ELSE (a % m) + 1
<1> DEFINE q == a \div m
           r == a % m
<1>1. q \in Nat /\ r \in 0 .. m - 1 /\ a = m * q + r
  BY Division
<1> HIDE DEF q, r
<1>2. CASE r = m - 1
  <2>1. a + 1 = m * (q + 1) + 0
    BY <1>1, <1>2, SMT
  <2>2. (m * (q + 1) + 0) % m = 0
    <3>1. q + 1 \in Nat /\ 0 \in 0 .. m - 1
      BY <1>1, SMT
    <3> QED BY <3>1, Divided, Zenon
  <2>3. a % m = m - 1
    BY <1>2 DEF r
  <2> QED BY <2>1, <2>2, <2>3, SMT
<1>3. CASE r # m - 1
  <2>1. a + 1 = m * q + (r + 1) /\ r + 1 \in 0 .. m - 1
    BY <1>1, <1>3, SMT
  <2>2. (m * q + (r + 1)) % m = r + 1
    BY <2>1, <1>1, Divided, Zenon
  <2>3. a % m = r
    BY DEF r
  <2> QED BY <2>1, <2>2, <2>3, <1>3, SMT
<1> QED BY <1>2, <1>3

\* A number of frames in octets.
LEMMA Frames ==
  ASSUME NEW k \in Nat
  PROVE  /\ FrameBytes \in Nat \ {0} /\ k * FrameBytes \in Nat
         /\ (k * FrameBytes) % FrameBytes = 0 /\ (k * FrameBytes) \div FrameBytes = k
         /\ \A j \in Nat : j <= k => j * FrameBytes <= k * FrameBytes
         /\ \A j \in Nat : j * FrameBytes = k * FrameBytes => j = k
<1>1. FrameBytes \in Nat \ {0}
  BY AudioAssumption
<1>2. k * FrameBytes = FrameBytes * k + 0 /\ 0 \in 0 .. FrameBytes - 1
  BY <1>1, SMT
<1>3. (k * FrameBytes) % FrameBytes = 0 /\ (k * FrameBytes) \div FrameBytes = k
  <2>1. /\ (FrameBytes * k + 0) % FrameBytes = 0
        /\ (FrameBytes * k + 0) \div FrameBytes = k
    BY <1>1, <1>2, Divided, Zenon
  <2> QED BY <1>2, <2>1, Zenon
<1>4. ASSUME NEW j \in Nat PROVE /\ j <= k => j * FrameBytes <= k * FrameBytes
                                 /\ j * FrameBytes = k * FrameBytes => j = k
  BY <1>1, SMT
<1> QED BY <1>1, <1>3, <1>4, SMT

\* Whatever period the driver has settled on, a buffer holds one frame at least.
LEMMA BufferSize ==
  ASSUME NEW fpp \in Periods
  PROVE  \E q \in Nat \ {0} : set_alsa_params(fpp) = q * FrameBytes
<1>1. fpp \in Nat \ {0} /\ FrameBytes \in Nat \ {0}
  BY AudioAssumption
<1>2. PICK k \in 1 .. DefaultBytes : DefaultBytes = k * FrameBytes
  BY AudioAssumption
<1>3. k \in Nat \ {0}
  BY <1>2, AudioAssumption, SMT
<1> QED BY <1>1, <1>2, <1>3 DEF set_alsa_params

-----------------------------------------------------------------------------
(* Types.                                                                    *)

LEMMA FlushFields ==
  ASSUME NEW f \in Flushes, NEW t \in Threads, NEW b \in BOOLEAN, NEW r \in 0 .. OutRetries
  PROVE  /\ [f EXCEPT ![t].retries = r] \in Flushes
         /\ [f EXCEPT ![t] = [called |-> b, retries |-> r]] \in Flushes
<1>1. [called |-> b, retries |-> r] \in [called : BOOLEAN, retries : 0 .. OutRetries]
  OBVIOUS
<1>2. [f[t] EXCEPT !.retries = r] \in [called : BOOLEAN, retries : 0 .. OutRetries]
  BY DEF Flushes
<1> QED BY <1>1, <1>2, Zenon DEF Flushes

LEMMA FlushTyped ==
  ASSUME TypeInv, SoundType, NEW t \in Threads, audio_flush(t)
  PROVE  /\ adev' \in Adev /\ gaveUp' \in BOOLEAN
         /\ flush' \in Flushes
<1>1. OutRetries \in Nat
  BY AudioAssumption
<1>2. adev'.outbuf \in Seq(Nat)
  BY FlushStep
<1>3. /\ adev' = [adev EXCEPT !.outbuf = adev'.outbuf]
      /\ gaveUp' \in BOOLEAN
      /\ \/ flush' = [flush EXCEPT ![t].retries = @ - 1] /\ flush[t].retries > 0
         \/ flush' = [flush EXCEPT ![t] = Returned]
  BY DEF audio_flush, WriteSome, WriteError, WriteAll, GiveUp, TypeInv, Adev
<1>4. adev' \in Adev
  BY <1>2, <1>3, Zenon DEF TypeInv, Adev
<1>5. flush' \in Flushes
  <2>1. flush \in Flushes
    BY DEF TypeInv
  <2>2. CASE flush' = [flush EXCEPT ![t].retries = @ - 1] /\ flush[t].retries > 0
    <3>1. flush[t].retries - 1 \in 0 .. OutRetries
      BY <1>1, <2>1, <2>2 DEF Flushes
    <3> QED BY <2>1, <2>2, <3>1, FlushFields, Zenon
  <2>3. CASE flush' = [flush EXCEPT ![t] = Returned]
    <3>1. 0 \in 0 .. OutRetries
      BY <1>1
    <3> QED BY <2>1, <2>3, <3>1, FlushFields, Zenon DEF Returned
  <2> QED BY <1>3, <2>2, <2>3
<1> QED BY <1>3, <1>4, <1>5

LEMMA TypeStep ==
  ASSUME TypeInv, SoundType, Next
  PROVE  TypeInv'
<1> USE DEF MainGoes, mainRest, handlerRest, txRest, rxRest, audioVars
<1>0. /\ OutRetries \in Nat \ {0} /\ InRetries \in Nat /\ SymbolFrames * FrameBytes \in Nat \ {0}
      /\ MaxSound \in Nat /\ MaxQueued \in Nat
  <2>1. SymbolFrames \in Nat \ {0} /\ FrameBytes \in Nat \ {0}
    BY AudioAssumption, ProcessAssumption
  <2>2. SymbolFrames * FrameBytes \in Nat \ {0}
    BY <2>1, SMT
  <2> QED BY <2>2, AudioAssumption, ProcessAssumption
<1>f. /\ flush \in Flushes /\ OutRetries \in 0 .. OutRetries /\ 0 \in 0 .. OutRetries
      /\ "tx" \in Threads /\ "main" \in Threads
  BY <1>0 DEF TypeInv, Threads
<1>g. ASSUME NEW t \in Threads, Flush(t) \/ flush' = flush PROVE flush' \in Flushes
  <2>1. CASE Flush(t)
    <3>1. TRUE \in BOOLEAN
      OBVIOUS
    <3> QED BY <1>f, <2>1, <3>1, FlushFields, Zenon DEF Flush
  <2> QED BY <1>f, <1>g, <2>1
<1>1. CASE audio_open
  <2>1. ASSUME NEW fpp \in Periods PROVE set_alsa_params(fpp) \in Nat
    BY BufferSize, AudioAssumption, SMT
  <2>2. adev' \in Adev
    BY <1>1, <2>1 DEF audio_open, OpenInput, OpenOutput, AllocateBuffers, TypeInv, Adev
  <2>3. flush' \in Flushes
    BY <1>f, <1>g, <1>1 DEF audio_open
  <2>4. Closing' = Closing
    BY <1>1 DEF audio_open, Closing, InHandler
  <2> QED BY <1>1, <2>2, <2>3, <2>4 DEF audio_open, TypeInv
<1>2. CASE Preparations \/ Completions
  BY <1>2, <1>0 DEF Preparations, Completions, SetsUp, StartsTx, StartsRx, StartsNone, TypeInv,
                    Closing, InHandler
<1>3. CASE audio_close
  <2>1. adev' \in Adev
    <3>1. NoDevice \in Adev
      BY DEF NoDevice, Adev
    <3> QED BY <1>3, <3>1 DEF audio_close, TypeInv, Adev
  <2>2. flush' \in Flushes
    BY <1>f, <1>g, <1>3 DEF audio_close
  <2>3. Closing
    BY <1>3 DEF audio_close, Closing, InHandler
  <2> QED BY <1>3, <2>1, <2>2, <2>3 DEF audio_close, TypeInv
<1>4. CASE ExitAfterCleanup \/ NoAudioDevice \/ Crash
  BY <1>4 DEF ExitAfterCleanup, NoAudioDevice, Crash, TypeInv, Closing
<1>5. CASE MainFlush
  BY <1>5, FlushTyped DEF MainFlush, TypeInv, Threads, Closing
<1>6. CASE Interrupt
  <2>1. flush' \in Flushes
    BY <1>f, <1>6, FlushFields, Zenon DEF Interrupt, Returned
  <2> QED BY <1>6, <2>1 DEF Interrupt, TypeInv
<1>7. CASE TxStep
  <2>1. CASE TxTop \/ TxBegins \/ TxEnds \/ TxReleases
    <3>1. flush' \in Flushes
      BY <1>f, <1>g, <2>1 DEF TxTop, TxBegins, TxEnds, TxReleases
    <3> QED BY <1>0, <2>1, <3>1 DEF TxTop, TxBegins, TxEnds, TxReleases, TypeInv, Closing
  <2>2. CASE TxPuts
    <3>1. adev' \in Adev
      <4>1. Append(adev.outbuf, put + 1) \in Seq(Nat)
        BY DEF SoundType
      <4> QED BY <2>2, <4>1, Zenon DEF TxPuts, PutFrame, TypeInv, Adev
    <3>2. flush' \in Flushes
      BY <1>f, <1>g, <2>2 DEF TxPuts
    <3> QED BY <1>0, <2>2, <3>1, <3>2 DEF TxPuts, TypeInv, Closing
  <2>3. CASE TxFlush
    BY <2>3, FlushTyped DEF TxFlush, TypeInv, Threads, Closing
  <2> QED BY <1>7, <2>1, <2>2, <2>3 DEF TxStep
<1>8. CASE RxStep
  <2>1. adev' \in Adev
    <3>1. ASSUME NEW err \in 1 .. adev.inbuf_size_in_bytes \div FrameBytes
          PROVE  err * FrameBytes \in Nat
      <4>1. adev.inbuf_size_in_bytes \in Nat /\ FrameBytes \in Nat \ {0}
        BY AudioAssumption DEF TypeInv, Adev
      <4>2. adev.inbuf_size_in_bytes \div FrameBytes \in Nat
        BY <4>1, Division
      <4> QED BY <4>1, <4>2, SMT
    <3>2. adev \in Adev
      BY DEF TypeInv
    <3>3. CASE RxOctet
      BY <3>2, <3>3 DEF RxOctet, TakeOctet, Adev
    <3>4. CASE RxFrames
      <4>1. PICK err \in 1 .. adev.inbuf_size_in_bytes \div FrameBytes :
              adev' = [adev EXCEPT !.inbuf_len = err * FrameBytes, !.inbuf_next = 0]
        BY <3>4 DEF RxFrames, Refill
      <4>2. err * FrameBytes \in Nat /\ 0 \in Nat
        BY <3>1
      <4> QED BY <3>2, <4>1, <4>2, Zenon DEF Adev
    <3>5. CASE RxNoFrames
      <4>1. adev' = adev \/ adev' = [adev EXCEPT !.inbuf_len = 0, !.inbuf_next = 0]
        BY <3>5 DEF RxNoFrames, NoInput
      <4>2. 0 \in Nat
        OBVIOUS
      <4> QED BY <3>2, <4>1, <4>2, Zenon DEF Adev
    <3>6. CASE RxCheck \/ RxExits
      BY <3>2, <3>6 DEF RxCheck, RxExits
    <3> QED BY <1>8, <3>3, <3>4, <3>5, <3>6 DEF RxStep
  <2>2. rx' \in [pc : {"none", "check", "audio_get"},
                 got : 0 .. SymbolFrames * FrameBytes - 1, retries : 0 .. InRetries]
    <3> DEFINE N == SymbolFrames * FrameBytes
               RxType == [pc : {"none", "check", "audio_get"}, got : 0 .. N - 1,
                          retries : 0 .. InRetries]
    <3>1. N \in Nat \ {0} /\ InRetries \in Nat /\ rx \in RxType
      BY <1>0 DEF TypeInv
    <3>2. RxOctet => rx' = IF rx.got + 1 = N THEN [rx EXCEPT !.pc = "check"]
                           ELSE [rx EXCEPT !.got = @ + 1, !.retries = 0]
      BY DEF RxOctet
    <3> HIDE DEF N
    <3> SUFFICES rx' \in RxType
      BY DEF N
    <3>0. 0 \in 0 .. N - 1 /\ 0 \in 0 .. InRetries /\ (rx.got + 1 # N => rx.got + 1 \in 0 .. N - 1)
      BY <3>1
    <3>3. CASE RxOctet
      BY <3>0, <3>1, <3>2, <3>3, Zenon
    <3>4. CASE RxNoFrames
      BY <3>1, <3>4 DEF RxNoFrames
    <3>5. CASE RxCheck \/ RxExits \/ RxFrames
      <4>1. rx' = rx \/ rx' = [pc |-> "audio_get", got |-> 0, retries |-> 0]
        BY <3>5 DEF RxCheck, RxExits, RxFrames
      <4> QED BY <3>0, <3>1, <4>1
    <3> QED BY <1>8, <3>3, <3>4, <3>5 DEF RxStep
  <2> QED BY <1>8, <2>1, <2>2 DEF RxStep, RxCheck, RxExits, RxOctet, RxFrames, RxNoFrames, TypeInv,
            Closing
<1>9. CASE NewPacket
  BY <1>0, <1>9 DEF NewPacket, TypeInv, Closing
<1> QED BY <1>1, <1>2, <1>3, <1>4, <1>5, <1>6, <1>7, <1>8, <1>9 DEF Next, MainStep

-----------------------------------------------------------------------------
(* The buffers.                                                              *)

\* audio_flush leaves no more in outbuf than there was.
LEMMA FlushShortens ==
  ASSUME SoundType, TypeInv, NEW t \in Threads, audio_flush(t)
  PROVE  /\ Len(adev'.outbuf) <= Len(adev.outbuf) /\ Len(adev'.outbuf) \in Nat
         /\ adev' = [adev EXCEPT !.outbuf = adev'.outbuf]
<1>1. adev.outbuf \in Seq(Nat) /\ adev \in Adev
  BY DEF SoundType, TypeInv
<1>2. CASE WriteSome(t)
  <2>1. PICK k \in 0 .. Len(adev.outbuf) - 1 :
          adev' = [adev EXCEPT !.outbuf = SubSeq(@, k + 1, Len(@))]
    BY <1>2 DEF WriteSome
  <2>2. adev'.outbuf = SubSeq(adev.outbuf, k + 1, Len(adev.outbuf))
    BY <1>1, <2>1 DEF Adev
  <2>3. Len(SubSeq(adev.outbuf, k + 1, Len(adev.outbuf))) = Len(adev.outbuf) - k
    BY <1>1
  <2>4. adev' = [adev EXCEPT !.outbuf = adev'.outbuf]
    BY <2>1, <2>2, Zenon
  <2>5. k \in Nat /\ Len(adev.outbuf) \in Nat /\ k < Len(adev.outbuf)
    BY <1>1
  <2>6. Len(adev'.outbuf) = Len(adev.outbuf) - k
    BY <2>2, <2>3, Zenon
  <2>7. Len(adev'.outbuf) <= Len(adev.outbuf) /\ Len(adev'.outbuf) \in Nat
    BY <2>5, <2>6
  <2> QED BY <2>4, <2>7
<1>3. CASE WriteError(t)
  BY <1>1, <1>3 DEF WriteError, Adev
<1>4. CASE WriteAll(t) \/ GiveUp(t)
  <2>1. adev' = [adev EXCEPT !.outbuf = <<>>]
    BY <1>4 DEF WriteAll, GiveUp
  <2>2. adev'.outbuf = <<>>
    BY <1>1, <2>1 DEF Adev
  <2>3. Len(adev.outbuf) \in Nat /\ Len(<<>>) = 0
    BY <1>1
  <2>4. Len(adev'.outbuf) = 0
    BY <2>2, <2>3, Zenon
  <2>5. adev' = [adev EXCEPT !.outbuf = adev'.outbuf]
    BY <2>1, <2>2, Zenon
  <2> QED BY <2>3, <2>4, <2>5
<1> QED BY <1>2, <1>3, <1>4 DEF audio_flush

LEMMA OutputStep ==
  ASSUME SoundType, TypeInv, ReadyInv, BufferInv, OutputInv, Next
  PROVE  OutputInv'
<1> USE DEF MainGoes, mainRest, handlerRest, txRest, rxRest, audioVars, Transmitting, InHandler,
            FromRxProcess, FromKissptInit, FromRxInit, FromTxInit, FromQueues, FromTables
<1>0. PICK q \in Nat : RoomFor(q)
  BY DEF OutputInv
<1> DEFINE Same == /\ adev'.outbuf_size_in_bytes = adev.outbuf_size_in_bytes
                   /\ Len(adev'.outbuf) <= Len(adev.outbuf) /\ Len(adev'.outbuf) \in Nat
                   /\ main' \in {"allocate"} \cup FromTables =>
                        main \in {"allocate"} \cup FromTables
                   /\ tx' = "put" /\ ~flush'["tx"].called /\ ~Closing' =>
                        \/ tx = "put" /\ ~flush["tx"].called /\ ~Closing
                        \/ Len(adev'.outbuf) = 0 /\ q > 0
<1>f. FrameBytes \in Nat \ {0}
  BY AudioAssumption
<1>t. adev \in Adev /\ adev.outbuf \in Seq(Nat) /\ Len(adev.outbuf) \in Nat
  BY DEF TypeInv, SoundType
<1>p. (queued > 0 \/ tx \in Transmitting) /\ ~Closing => q > 0
  BY <1>0 DEF ReadyInv, RoomFor, Closing
<1>s. ASSUME Same PROVE OutputInv'
  <2>1. RoomFor(q)'
    BY <1>0, <1>t, <1>s DEF RoomFor
  <2> QED BY <2>1 DEF OutputInv
<1>a. ASSUME adev' = adev, main' \in {"allocate"} \cup FromTables =>
                             main \in {"allocate"} \cup FromTables,
             tx' = "put" /\ ~flush'["tx"].called /\ ~Closing' =>
                        \/ tx = "put" /\ ~flush["tx"].called /\ ~Closing
                        \/ Len(adev.outbuf) = 0 /\ q > 0
      PROVE  OutputInv'
  <2>1. Same
    BY <1>a, <1>t
  <2> QED BY <2>1, <1>s
<1>1. CASE audio_open
  <2>1. /\ tx \notin Transmitting /\ tx' = tx /\ ~Closing /\ ~Closing'
        /\ main # "allocate" => flush' = flush
    BY <1>1 DEF audio_open, ReadyInv, Closing
  <2>2. CASE OpenOutput /\ main = "open_output" /\ main' = "allocate"
    <3>1. PICK fpp \in Periods :
            adev' = [adev EXCEPT !.audio_out_handle = TRUE,
                                 !.outbuf_size_in_bytes = set_alsa_params(fpp)]
      BY <2>2 DEF OpenOutput
    <3>2. PICK r \in Nat \ {0} : set_alsa_params(fpp) = r * FrameBytes
      BY BufferSize
    <3>3. adev'.outbuf_size_in_bytes = r * FrameBytes /\ adev'.outbuf = <<>>
      BY <1>t, <2>1, <3>1, <3>2 DEF Adev, BufferInv
    <3>4. RoomFor(r)'
      BY <2>1, <3>2, <3>3 DEF RoomFor
    <3> QED BY <3>4 DEF OutputInv
  <2>3. CASE main \in {"open_input", "allocate"}
    <3>1. /\ adev'.outbuf_size_in_bytes = adev.outbuf_size_in_bytes
          /\ adev'.outbuf = adev.outbuf
      BY <1>1, <1>t, <2>3 DEF audio_open, OpenInput, AllocateBuffers, Adev
    <3>2. Same
      BY <1>1, <1>t, <2>1, <2>3, <3>1 DEF audio_open
    <3> QED BY <1>s, <3>2
  <2> QED BY <1>1, <2>2, <2>3 DEF audio_open
<1>2. CASE Preparations \/ Completions
  <2>1. /\ adev' = adev /\ tx' \in {tx, "top"} /\ flush' = flush /\ ~Closing /\ ~Closing'
        /\ main' \in FromTables /\ main \in FromTables
    BY <1>2 DEF Preparations, Completions, SetsUp, StartsTx, StartsRx, StartsNone, Closing
  <2> QED BY <1>a, <2>1
<1>3. CASE audio_close
  <2>1. Closing' /\ main' \notin {"allocate"} \cup FromTables
    BY <1>3 DEF audio_close, Closing
  <2>2. CASE adev' = NoDevice
    <3>1. RoomFor(0)'
      <4>1. adev'.outbuf_size_in_bytes = 0 /\ Len(adev'.outbuf) = 0 /\ 0 * FrameBytes = 0
        BY <1>f, <2>2 DEF NoDevice
      <4> QED BY <2>1, <4>1 DEF RoomFor
    <3> QED BY <3>1 DEF OutputInv
  <2>3. CASE adev' \in {adev, [adev EXCEPT !.audio_in_handle = FALSE, !.audio_out_handle = FALSE]}
    <3>1. /\ adev'.outbuf_size_in_bytes = adev.outbuf_size_in_bytes
          /\ adev'.outbuf = adev.outbuf
      BY <1>t, <2>3 DEF Adev
    <3> QED BY <1>s, <1>t, <2>1, <3>1
  <2> QED BY <1>3, <2>2, <2>3 DEF audio_close
<1>4. CASE ExitAfterCleanup \/ NoAudioDevice \/ Crash \/ NewPacket
  <2>1. adev' = adev /\ main' = main /\ tx' = tx /\ flush' = flush /\ Closing' = Closing
    BY <1>4 DEF ExitAfterCleanup, NoAudioDevice, Crash, NewPacket, Closing
  <2> QED BY <1>a, <2>1
<1>5. CASE Interrupt
  BY <1>5, <1>a DEF Interrupt, Closing
<1>6. ASSUME NEW t \in Threads, audio_flush(t), main' = main, tx' = tx PROVE OutputInv'
  <2>1. /\ Len(adev'.outbuf) <= Len(adev.outbuf) /\ Len(adev'.outbuf) \in Nat
        /\ adev' = [adev EXCEPT !.outbuf = adev'.outbuf]
    BY <1>6, FlushShortens
  <2>2. adev'.outbuf_size_in_bytes = adev.outbuf_size_in_bytes
    BY <1>t, <2>1 DEF Adev
  <2>3. flush'["tx"].called \/ flush'["tx"] = flush["tx"] \/ adev'.outbuf = <<>>
    BY <1>6, FlushStep DEF Threads
  <2>4. Len(<<>>) = 0
    OBVIOUS
  <2>5. Same
    BY <1>6, <1>p, <2>1, <2>2, <2>3, <2>4 DEF Closing
  <2> QED BY <1>s, <2>5
<1>7. CASE MainFlush \/ TxFlush
  BY <1>6, <1>7 DEF MainFlush, TxFlush, Threads
<1>8. CASE TxTop \/ TxEnds \/ TxReleases
  <2>1. adev' = adev /\ main' = main /\ tx' # "put"
    BY <1>8 DEF TxTop, TxEnds, TxReleases, TxGoes
  <2> QED BY <1>a, <2>1
<1>9. CASE TxBegins
  <2>1. adev' = adev /\ main' = main /\ tx = "asleep" /\ queued > 0 /\ Closing' = Closing
    BY <1>9 DEF TxBegins, TxGoes, Closing
  <2>2. ~Closing => Len(adev.outbuf) = 0 /\ q > 0
    BY <1>p, <2>1 DEF BufferInv
  <2> QED BY <1>a, <2>1, <2>2
<1>10. CASE TxPuts
  <2>1. /\ adev' = [adev EXCEPT !.outbuf = Append(@, put + 1)]
        /\ main' = main /\ Len(adev.outbuf) < q
        /\ Full => flush' = [flush EXCEPT !["tx"] = [called |-> TRUE, retries |-> OutRetries]]
    BY <1>0, <1>10 DEF TxPuts, TxGoes, PutFrame, Flush, RoomFor
  <2>2. /\ adev'.outbuf_size_in_bytes = adev.outbuf_size_in_bytes
        /\ adev'.outbuf = Append(adev.outbuf, put + 1)
    BY <1>t, <2>1 DEF Adev
  <2>3. Len(adev'.outbuf) = Len(adev.outbuf) + 1
    BY <1>t, <2>2
  <2>4. Full => flush'["tx"].called
    BY <2>1 DEF SoundType, Threads
  <2>5. Len(adev.outbuf) + 1 = q => Full
    BY <1>0, <2>1, Zenon DEF Full, RoomFor
  <2>6. RoomFor(q)'
    BY <1>0, <1>t, <2>1, <2>2, <2>3, <2>4, <2>5 DEF RoomFor
  <2> QED BY <2>6 DEF OutputInv
<1>11. CASE RxStep
  <2>1. /\ adev'.outbuf_size_in_bytes = adev.outbuf_size_in_bytes
        /\ adev'.outbuf = adev.outbuf
    BY <1>11, <1>t DEF RxStep, RxCheck, RxExits, RxOctet, RxFrames, RxNoFrames, TakeOctet, Refill,
                       NoInput, Adev
  <2>2. main' = main /\ tx' = tx /\ flush' = flush /\ Closing' = Closing
    BY <1>11 DEF RxStep, RxCheck, RxExits, RxOctet, RxFrames, RxNoFrames, Closing
  <2>3. Same
    BY <1>t, <2>1, <2>2
  <2> QED BY <1>s, <2>3
<1> QED BY <1>1, <1>2, <1>3, <1>4, <1>5, <1>7, <1>8, <1>9, <1>10, <1>11 DEF Next, MainStep, TxStep

LEMMA InputStep ==
  ASSUME SoundType, TypeInv, InputInv, Next
  PROVE  InputInv'
<1> USE DEF MainGoes, mainRest, handlerRest, txRest, rxRest, audioVars, InHandler
<1>0. PICK p \in Nat, l \in Nat : WholeFrames(p, l)
  BY DEF InputInv
<1>f. FrameBytes \in Nat \ {0} /\ 0 * FrameBytes = 0 /\ 0 % FrameBytes = 0
  <2>1. FrameBytes \in Nat \ {0}
    BY AudioAssumption
  <2>2. 0 * FrameBytes = 0
    BY <2>1
  <2>3. (0 * FrameBytes) % FrameBytes = 0
    BY Frames
  <2> QED BY <2>1, <2>2, <2>3
<1>t. adev \in Adev /\ adev.inbuf_next \in Nat
  BY DEF TypeInv, Adev
<1>m. l * FrameBytes % FrameBytes = 0
  BY Frames
<1> DEFINE Same(r) == /\ r.inbuf_size_in_bytes = adev.inbuf_size_in_bytes
                      /\ r.inbuf_len = adev.inbuf_len /\ r.inbuf_next = adev.inbuf_next
<1>s. ASSUME Same(adev'), rx' = rx \/ (rx.pc = "none" /\ rx'.pc = "check"),
             main' \in BeforeRx => main \in BeforeRx /\ rx' = rx, Closing => Closing'
      PROVE  InputInv'
  <2>1. WholeFrames(p, l)'
    BY <1>0, <1>s DEF WholeFrames
  <2>2. InStep'
    BY <1>s DEF InputInv, InStep
  <2> QED BY <2>1, <2>2 DEF InputInv
<1>1. CASE audio_open
  <2>1. rx' = rx /\ ~Closing /\ ~Closing' /\ main \in BeforeRx /\ main' \in BeforeRx
    BY <1>1 DEF audio_open, Closing, BeforeRx
  <2>2. CASE OpenInput /\ main = "open_input"
    <3>1. PICK fpp \in Periods :
            adev' = [adev EXCEPT !.audio_in_handle = TRUE,
                                 !.inbuf_size_in_bytes = set_alsa_params(fpp)]
      BY <2>2 DEF OpenInput
    <3>2. PICK r \in Nat \ {0} : set_alsa_params(fpp) = r * FrameBytes
      BY BufferSize
    <3>3. /\ adev'.inbuf_size_in_bytes = r * FrameBytes
          /\ adev'.inbuf_len = adev.inbuf_len /\ adev'.inbuf_next = adev.inbuf_next
      BY <1>t, <3>1, <3>2 DEF Adev
    <3>4. l = 0
      BY <1>0, <2>1, <2>2 DEF WholeFrames
    <3>5. WholeFrames(r, 0)'
      BY <1>0, <2>1, <3>3, <3>4 DEF WholeFrames
    <3>6. InStep'
      BY <2>1, <3>3 DEF InputInv, InStep
    <3> QED BY <3>5, <3>6 DEF InputInv
  <2>3. CASE main \in {"open_output", "allocate"}
    <3>1. Same(adev')
      BY <1>1, <1>t, <2>3 DEF audio_open, OpenOutput, AllocateBuffers, Adev
    <3> QED BY <1>s, <2>1, <3>1
  <2> QED BY <1>1, <2>2, <2>3 DEF audio_open
<1>2. CASE Preparations \/ Completions
  <2>1. /\ adev' = adev /\ ~Closing
        /\ \/ rx' = rx /\ (main' \in BeforeRx => main \in BeforeRx)
           \/ main = "rx_init" /\ main' = "demod_init" /\ rx' = [rx EXCEPT !.pc = "check"]
    BY <1>2 DEF Preparations, Completions, SetsUp, StartsTx, StartsRx, StartsNone, Closing, BeforeRx
  <2>2. main = "rx_init" => rx.pc = "none" /\ [rx EXCEPT !.pc = "check"].pc = "check"
    BY <1>0 DEF WholeFrames, BeforeRx, TypeInv
  <2>3. "demod_init" \notin BeforeRx
    BY DEF BeforeRx
  <2> QED BY <1>s, <2>1, <2>2, <2>3
<1>3. CASE audio_close
  <2>1. Closing' /\ rx' = rx /\ main' \notin BeforeRx
    BY <1>3 DEF audio_close, Closing, BeforeRx
  <2>2. CASE adev' = NoDevice
    <3>1. WholeFrames(0, 0)'
      BY <1>f, <2>1, <2>2 DEF WholeFrames, NoDevice
    <3> QED BY <2>1, <3>1 DEF InputInv, InStep
  <2>3. CASE adev' \in {adev, [adev EXCEPT !.audio_in_handle = FALSE, !.audio_out_handle = FALSE]}
    <3>1. Same(adev')
      BY <1>t, <2>3 DEF Adev
    <3> QED BY <1>s, <2>1, <3>1
  <2> QED BY <1>3, <2>2, <2>3 DEF audio_close
<1>4. CASE ExitAfterCleanup \/ NoAudioDevice \/ Crash \/ NewPacket
  <2>1. adev' = adev /\ main' = main /\ rx' = rx /\ Closing' = Closing
    BY <1>4 DEF ExitAfterCleanup, NoAudioDevice, Crash, NewPacket, Closing
  <2> QED BY <1>s, <2>1
<1>5. CASE Interrupt
  <2>1. adev' = adev /\ main' \notin BeforeRx /\ rx' = rx /\ Closing'
    BY <1>5 DEF Interrupt, Closing, BeforeRx
  <2> QED BY <1>s, <2>1
<1>6. CASE MainFlush \/ TxStep
  <2>1. main' = main /\ rx' = rx /\ Closing' = Closing
    BY <1>6 DEF MainFlush, TxStep, TxTop, TxBegins, TxPuts, TxEnds, TxReleases, TxFlush, Closing
  <2>2. Same(adev')
    <3>1. adev' = adev \/ adev' = [adev EXCEPT !.outbuf = Append(@, put + 1)]
            \/ adev' = [adev EXCEPT !.outbuf = adev'.outbuf]
      BY <1>6, FlushShortens DEF MainFlush, TxStep, TxTop, TxBegins, TxPuts, TxEnds, TxReleases,
           TxFlush, PutFrame, Threads
    <3> QED BY <1>t, <3>1 DEF Adev
  <2> QED BY <1>s, <2>1, <2>2
<1>7. CASE RxCheck \/ RxExits
  <2>1. adev' = adev /\ main' = main /\ Closing' = Closing
    BY <1>7 DEF RxCheck, RxExits, Closing
  <2>2. CASE RxExits
    BY <1>s, <2>1, <2>2 DEF RxExits
  <2>3. CASE RxCheck
    <3>1. rx.pc = "check" /\ rx' = [pc |-> "audio_get", got |-> 0, retries |-> 0]
      BY <2>3 DEF RxCheck
    <3>2. WholeFrames(p, l)'
      BY <1>0, <2>1, <3>1 DEF WholeFrames
    <3>3. InStep'
      BY <1>f, <2>1, <3>1 DEF InputInv, InStep
    <3> QED BY <3>2, <3>3 DEF InputInv
  <2> QED BY <1>7, <2>2, <2>3
<1>8. CASE RxOctet
  <2>1. /\ rx.pc = "audio_get" /\ main' = main /\ Closing' = Closing
        /\ adev.inbuf_next < adev.inbuf_len
        /\ adev' = [adev EXCEPT !.inbuf_next = @ + 1]
        /\ rx' = IF rx.got + 1 = SymbolFrames * FrameBytes THEN [rx EXCEPT !.pc = "check"]
                 ELSE [rx EXCEPT !.got = @ + 1, !.retries = 0]
    BY <1>8 DEF RxOctet, HasInput, TakeOctet, Closing
  <2>2. /\ adev'.inbuf_next = adev.inbuf_next + 1
        /\ adev'.inbuf_len = adev.inbuf_len
        /\ adev'.inbuf_size_in_bytes = adev.inbuf_size_in_bytes
    BY <1>t, <2>1 DEF Adev
  <2>3. /\ rx'.pc # "none"
        /\ rx'.pc = "audio_get" => rx'.got = rx.got + 1
        /\ rx'.pc # "audio_get" => rx.got + 1 = SymbolFrames * FrameBytes
    BY <2>1 DEF TypeInv
  <2>4. WholeFrames(p, l)'
    BY <1>0, <1>t, <2>1, <2>2, <2>3 DEF WholeFrames, TypeInv, Adev
  <2>5. InStep'
    <3>1. SUFFICES ASSUME ~Closing PROVE InStep'
      BY <2>1 DEF InStep
    <3>2. rx.got \in Nat /\ rx.got % FrameBytes = adev.inbuf_next % FrameBytes
      BY <3>1, <2>1 DEF InputInv, InStep, TypeInv
    <3>3. (rx.got + 1) % FrameBytes = (adev.inbuf_next + 1) % FrameBytes
      <4>1. /\ (rx.got + 1) % FrameBytes
                 = IF rx.got % FrameBytes = FrameBytes - 1 THEN 0 ELSE (rx.got % FrameBytes) + 1
            /\ (adev.inbuf_next + 1) % FrameBytes
                 = IF adev.inbuf_next % FrameBytes = FrameBytes - 1 THEN 0
                   ELSE (adev.inbuf_next % FrameBytes) + 1
        BY <1>f, <1>t, <3>2, ModNext, Zenon
      <4> QED BY <3>2, <4>1, Zenon
    <3>4. (SymbolFrames * FrameBytes) % FrameBytes = 0
      BY Frames, ProcessAssumption
    <3> QED BY <2>2, <2>3, <3>3, <3>4 DEF InStep
  <2> QED BY <2>4, <2>5 DEF InputInv
<1>9. CASE RxFrames \/ RxNoFrames
  <2>1. /\ rx.pc = "audio_get" /\ main' = main /\ Closing' = Closing
        /\ ~(adev.inbuf_next < adev.inbuf_len)
    BY <1>9 DEF RxFrames, RxNoFrames, HasInput, Closing
  <2>2. adev.inbuf_next = l * FrameBytes
    <3>1. l * FrameBytes \in Nat
      BY Frames
    <3> QED BY <1>0, <1>t, <2>1, <3>1 DEF WholeFrames
  <2>3. ~Closing => rx.got % FrameBytes = 0
    BY <1>m, <2>1, <2>2 DEF InputInv, InStep
  <2>4. CASE RxNoFrames /\ adev' = adev /\ rx'.pc = rx.pc /\ rx'.got = rx.got
    <3>1. rx'.got = rx.got /\ rx'.pc = rx.pc
      BY <2>4
    <3>2. WholeFrames(p, l)'
      BY <1>0, <2>1, <2>4, <3>1 DEF WholeFrames
    <3>3. InStep'
      BY <2>1, <2>4, <3>1 DEF InputInv, InStep
    <3> QED BY <3>2, <3>3 DEF InputInv
  <2>5. ASSUME NEW k \in Nat, k <= p, adev' = [adev EXCEPT !.inbuf_len = k * FrameBytes, !.inbuf_next = 0],
               rx'.pc # "none", rx'.pc = "audio_get" => rx'.got = rx.got
        PROVE  InputInv'
    <3>0. k * FrameBytes \in Nat
      BY Frames
    <3>1. /\ adev'.inbuf_size_in_bytes = adev.inbuf_size_in_bytes
          /\ adev'.inbuf_len = k * FrameBytes /\ adev'.inbuf_next = 0
      BY <1>t, <2>5, <3>0 DEF Adev
    <3>2. WholeFrames(p, k)'
      BY <1>0, <2>1, <2>5, <3>0, <3>1 DEF WholeFrames
    <3>3. InStep'
      BY <1>f, <2>1, <2>3, <2>5, <3>1 DEF InStep
    <3> QED BY <3>2, <3>3 DEF InputInv
  <2>6. CASE RxNoFrames /\ ~(adev' = adev /\ rx'.pc = rx.pc /\ rx'.got = rx.got)
    <3>1. NoInput /\ (rx' = rx \/ rx' = [rx EXCEPT !.pc = "check"])
      BY <2>6 DEF RxNoFrames, TypeInv
    <3>2. rx'.pc # "none" /\ (rx'.pc = "audio_get" => rx'.got = rx.got)
      BY <2>1, <3>1 DEF TypeInv
    <3>3. 0 * FrameBytes = 0 /\ 0 \in Nat /\ 0 <= p
      BY <1>0, Frames
    <3>4. adev' = [adev EXCEPT !.inbuf_len = 0 * FrameBytes, !.inbuf_next = 0]
      BY <3>1, <3>3, Zenon DEF NoInput
    <3> QED BY <2>5, <3>2, <3>3, <3>4, Zenon
  <2>7. CASE RxFrames
    <3>1. PICK k \in 1 .. adev.inbuf_size_in_bytes \div FrameBytes :
            adev' = [adev EXCEPT !.inbuf_len = k * FrameBytes, !.inbuf_next = 0]
      BY <2>7 DEF RxFrames, Refill
    <3>2. adev.inbuf_size_in_bytes \div FrameBytes = p
      BY <1>0, Frames DEF WholeFrames
    <3>3. k \in Nat /\ k <= p /\ rx' = rx
      BY <2>7, <3>1, <3>2 DEF RxFrames
    <3> QED BY <2>1, <2>5, <3>1, <3>3
  <2> QED BY <1>9, <2>4, <2>6, <2>7
<1> QED BY <1>1, <1>2, <1>3, <1>4, <1>5, <1>6, <1>7, <1>8, <1>9 DEF Next, MainStep, RxStep

-----------------------------------------------------------------------------
LEMMA InitInv == Init => IInv
<1>1. Init => SoundType /\ ReadyInv /\ BufferInv /\ OrderInv
  BY DEF Init, AudioInit, NoDevice, Returned, SoundType, AdevFields, ReadyInv, BufferInv,
         OrderInv, Sound, Ordered, FromRxProcess, FromKissptInit, FromRxInit, FromTxInit,
         FromQueues, FromTables, Transmitting, InHandler, Closing, Threads
<1>2. ASSUME Init PROVE TypeInv /\ OutputInv /\ InputInv
  <2>1. /\ FrameBytes \in Nat \ {0} /\ SymbolFrames \in Nat \ {0} /\ InRetries \in Nat
        /\ OutRetries \in Nat /\ MaxSound \in Nat /\ MaxQueued \in Nat
    BY AudioAssumption, ProcessAssumption
  <2>2. SymbolFrames * FrameBytes \in Nat \ {0} /\ 0 * FrameBytes = 0
    BY <2>1, SMT
  <2>3. NoDevice \in Adev
    BY DEF NoDevice, Adev
  <2>4. flush \in Flushes
    BY <1>2, <2>1 DEF Init, AudioInit, Returned, Flushes
  <2>5. TypeInv
    <3> DEFINE N == SymbolFrames * FrameBytes
    <3>1. N \in Nat \ {0}
      BY <2>2
    <3> HIDE DEF N
    <3>2. 0 \in 0 .. N - 1 /\ 0 \in 0 .. InRetries /\ 0 \in 0 .. MaxQueued /\ 0 \in 0 .. MaxSound
      BY <2>1, <3>1
    <3>3. rx \in [pc : {"none", "check", "audio_get"}, got : 0 .. N - 1, retries : 0 .. InRetries]
      BY <1>2, <3>2 DEF Init
    <3>4. rx \in [pc : {"none", "check", "audio_get"},
                  got : 0 .. SymbolFrames * FrameBytes - 1, retries : 0 .. InRetries]
      BY <3>3 DEF N
    <3> QED BY <1>2, <2>3, <2>4, <3>2, <3>4, Zenon DEF Init, AudioInit, TypeInv, Closing, InHandler
  <2>6. RoomFor(0)
    BY <1>2, <2>2 DEF Init, AudioInit, NoDevice, RoomFor, FromTables, FromQueues, FromTxInit,
                      FromRxInit, FromKissptInit, FromRxProcess
  <2>7. WholeFrames(0, 0)
    BY <1>2, <2>2 DEF Init, AudioInit, NoDevice, WholeFrames
  <2>8. InStep
    <3>1. 0 % FrameBytes = 0
      BY <2>2, Frames
    <3> QED BY <1>2, <3>1 DEF Init, AudioInit, NoDevice, InStep
  <2> QED BY <2>5, <2>6, <2>7, <2>8 DEF OutputInv, InputInv
<1> QED BY <1>1, <1>2 DEF IInv

LEMMA NextInv == IInv /\ [Next]_vars => IInv'
<1>1. CASE Next
  BY <1>1, ReadyStep, SoundStep, TypeStep, OutputStep, InputStep DEF IInv
<1>2. CASE UNCHANGED vars
  <2>1. IInv => (SoundType /\ ReadyInv /\ BufferInv /\ OrderInv)'
    BY <1>2 DEF vars, audioVars, IInv, SoundType, ReadyInv, BufferInv, OrderInv, Sound, Closing
  <2>2. TypeInv => TypeInv'
    BY <1>2 DEF vars, audioVars, TypeInv, Closing
  <2>3. OutputInv => OutputInv'
    <3>1. ASSUME NEW q \in Nat, RoomFor(q) PROVE RoomFor(q)'
      BY <1>2, <3>1 DEF vars, audioVars, RoomFor, Closing
    <3> QED BY <3>1 DEF OutputInv
  <2>4. InputInv => InputInv'
    <3>1. ASSUME NEW p \in Nat, NEW l \in Nat, WholeFrames(p, l) PROVE WholeFrames(p, l)'
      BY <1>2, <3>1 DEF vars, audioVars, WholeFrames
    <3>2. InStep => InStep'
      BY <1>2 DEF vars, audioVars, InStep, Closing
    <3> QED BY <3>1, <3>2 DEF InputInv
  <2> QED BY <2>1, <2>2, <2>3, <2>4 DEF IInv
<1> QED BY <1>1, <1>2

LEMMA Inductive == Spec => []IInv
BY InitInv, NextInv, PTL DEF Spec

LEMMA Implied == IInv => ReadyBeforeUse /\ SoundInOrder /\ NothingLeftBehind
<1> SUFFICES ASSUME IInv PROVE ReadyBeforeUse /\ SoundInOrder /\ NothingLeftBehind
  OBVIOUS
<1>1. ReadyBeforeUse
  BY DEF IInv, ReadyInv, ReadyBeforeUse, Closing, FromRxProcess, FromKissptInit, FromRxInit,
         FromTxInit, FromQueues, FromTables
<1>2. NothingLeftBehind
  BY DEF IInv, BufferInv, NothingLeftBehind, Transmitting
<1>3. SoundInOrder
  <2>1. Sound \in Seq(Nat)
    BY ConcatProperties DEF IInv, SoundType, Sound
  <2>2. DOMAIN Sound = 1 .. Len(Sound)
    BY <2>1
  <2> QED BY <2>2 DEF IInv, OrderInv, Ordered, SoundInOrder, Sound
<1> QED BY <1>1, <1>2, <1>3

\* tx_init may start its thread before it has set the rest up: no packet comes to
\* the thread before kisspt_init, and main calls that after everything else.
THEOREM ReadyFirst == Spec => []ReadyBeforeUse
BY Inductive, Implied, PTL

\* However the card takes what audio_flush offers it, and whatever sizes it has
\* settled on, the sound reaches it in order and none of it twice.
THEOREM InOrder == Spec => []SoundInOrder
BY Inductive, Implied, PTL

\* The next transmission begins with an empty buffer, since tx_frames goes through
\* audio_flush, which returns with outbuf written or dropped.
THEOREM CleanStart == Spec => []NothingLeftBehind
BY Inductive, Implied, PTL

LEMMA Types == IInv => TypeOK /\ FramesAligned
<1> SUFFICES ASSUME IInv PROVE TypeOK /\ FramesAligned
  OBVIOUS
<1>1. PICK q \in Nat : RoomFor(q)
  BY DEF IInv, OutputInv
<1>2. PICK p \in Nat, l \in Nat : WholeFrames(p, l)
  BY DEF IInv, InputInv
<1>3. Len(adev.outbuf) * FrameBytes <= adev.outbuf_size_in_bytes
  <2>1. Len(adev.outbuf) \in Nat
    BY DEF IInv, SoundType
  <2>2. \A k \in Nat : k <= q => k * FrameBytes <= q * FrameBytes
    BY <1>1, Frames
  <2>3. Len(adev.outbuf) * FrameBytes <= q * FrameBytes
    BY <1>1, <2>1, <2>2, Zenon DEF RoomFor
  <2> QED BY <1>1, <2>3 DEF RoomFor
<1>4. adev.inbuf_len <= adev.inbuf_size_in_bytes /\ adev.inbuf_next <= adev.inbuf_len
  BY <1>2, Frames DEF WholeFrames
<1>5. FramesAligned
  BY DEF IInv, InputInv, InStep, FramesAligned
<1> QED BY <1>3, <1>4, <1>5, Zenon DEF IInv, TypeInv, Flushes, SoundType, TypeOK

\* Neither buffer overflows, whatever period the driver settles on: outbuf is
\* flushed when it is exactly full, and its size is a whole number of frames.
THEOREM BuffersFit == Spec => []TypeOK
BY Inductive, Types, PTL

\* The receive thread does not take octets of two frames for one, for every frame
\* and symbol size and wherever audio_get gives up.
THEOREM InStepWithFrames == Spec => []FramesAligned
BY Inductive, Types, PTL
=============================================================================
