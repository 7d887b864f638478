# Verification of IPNode

IPNode (`src/src/`, about 11 000 lines of C) is a packet radio node: an AX.25 data
link, IL2P framing with Reed-Solomon blocks, a QPSK modem on a sound card and a
KISS pseudo terminal for the host's IP stack. It is four threads around two
queues. This directory holds TLA+ models of the parts whose behaviour is hard to
test, TLC configurations that check them on small instances, and TLAPS proofs of
what holds for every instance.

To check a module: `tlc -config X.cfg M`. To check proofs: `tlapm M_proof.tla`.

## 1. Inventory

```
  client --KISS--> [kiss_pt/kiss_frame] --tq_append--+
                     kiss thread                     v
  main thread   [ax25_link]--lm_data_request,--> [tq: HI, LO] --> [tx] --> IL2P --> audio
   rx_process     ^      lm_seize_request            transmit thread |
                  |                                                  | DLQ_SEIZE_CONFIRM
               [dlq] <----------------------------------------------+
                  ^
                  +--dlq_rec_frame-- [il2p_rec] <-- demod <-- audio   (receive thread)
```

| component | state | operations | modelled by |
|---|---|---|---|
| transmit queue, `tq.c` | lists HI and LO, `xmit_thread_is_waiting`, two mutexes, a condition | `tq_append`, `lm_data_request`, `lm_seize_request`, `tq_wait_while_empty`, `tq_peek`, `tq_remove` | `TransmitQueue` |
| transmitter, `tx.c` | program counter, `audio_out_dev_mutex`, PTT | `tx_thread`, `wait_for_clear_channel`, `tx_frames`, `send_one_frame` | `Transmitter`, `TransmitService` |
| data link queue and main loop, `dlq.c`, `rx.c` | one list, `recv_thread_is_waiting`, the earliest timer | append, `dlq_wait_while_empty`, `dlq_remove`, `dlq_delete`, `rx_process` | `DataLinkQueue` |
| data link, `ax25_link.c` | `ax25_dlsm_t`: state, V(S), V(A), V(R), RC, T1, T3, two rings of stashed frames, a queue, the reassembly buffer | a handler per frame type, timer, seize and channel event; `dl_data_indication` | `Ax25Link`, `Reassembler`, `LinkSession`, `LinkDelivery`, `LinkService` |
| packets, `ax25_pad.c` | octets | addresses, control octet and PID, frame types | `Il2pHeader` (the types also in `Ax25Link`) |
| IL2P, `il2p_header.c`, `il2p_codec.c`, `il2p_payload.c`, `il2p_send.c` | none between frames | header and block encoding and decoding | `Il2pHeader`, `Il2pPayload`, `FrameCodec` |
| FEC and scrambler, `fec_*.c`, `il2p_init.c`, `il2p_scramble.c` | tables, shift registers | GF(256), generator polynomials, encoder, decoder, scramblers | `Octets`, `ReedSolomon`, `Scrambler`, `MCFrameCodec` |
| IL2P receiver, `il2p_rec.c` | `il2p_context` | `il2p_rec_bit` | `Il2pReceiver` |
| KISS, `kiss_frame.c`, `kiss_pt.c` | `kiss_frame_t`, `pt_master_fd` | `kiss_rec_byte`, `kiss_unwrap`, `kiss_process_msg`, encapsulation, the listener, `kisspt_send_rec_packet` | `KissFrame` |
| audio, `audio.c` | `adev`: handles, buffers, their fill | `audio_open`, `audio_get`, `audio_put`, `audio_flush`, `audio_wait`, `audio_close` | `Audio` |
| start-up and shutdown, `ipnode.c` | what is set up, `node_shutdown` | `main`, `cleanup`, the start of the threads | `NodeProcess` |
| modem, PTT, configuration | | | not modelled (section 7) |

How they interact: queues and flags guarded by mutexes (tq, dlq), plain calls
within a thread (`rx_process` into `ax25_link`, `tx` into IL2P), and one loop
through three threads: the link asks for the channel with a null packet
(`lm_seize_request`), the transmitter answers with `DLQ_SEIZE_CONFIRM`, and only
then the link sends acknowledgements and queued data.

What is hard to test:

* the two wake-up protocols. Both test the queue outside the lock that orders
  the flag and the signal, and both read the flag outside any lock;
* `tx_thread` looks at each list several times, with up to a minute between
  looks, while others append;
* the link's sequence numbers over resets, retransmissions, duplicates and
  selective rejects; its timers, which pause with the carrier;
* a peer that restarts and connects anew while frames of the old connection are
  on the air and half a packet is in the reassembler;
* division of a payload into blocks, computed apart at both ends;
* clients that stop in the middle of a frame, and a terminal that takes half of one;
* a sound card that takes any part of what it is given, or fails, at any call;
* threads that are started before what they use is set up, and a signal handler
  that tears it down under them.

What makes each component correct is stated as its properties, section 4.
`PROJECT.json` lists every hazard at its line with the properties aimed at it.

### What this commit does not do

Some of the code cannot run in this commit. The models show it or allow for it:

* `il2p_rec_bit` clears its context with `memset` before every bit, so it never
  finds the sync word and **nothing is ever received** (theorem `NeverReceives`). Also
  `dcd_detect` always answers false, so `rx.c` passes no samples on.
* The body of `ptt_set` is compiled out (`DEBUG_TX`) and is the only source of
  `DLQ_CHANNEL_BUSY` apart from the detector, so the link never hears of a busy
  channel. `LinkSession` lets the channel be busy at any time all the same: that
  is what the handlers are written for.
* Nothing fills `reg_callsign_list` and nothing appends to `i_frame_queue`: the
  client interface of Dire Wolf, from which the code stems, was removed. The
  link handlers are therefore modelled with an external client and, in
  `LinkDelivery`, an external peer, and say what the code does once it is
  connected again.
* `dl_data_indication` drops all that is not a segment, and frees what it has
  reassembled without handing it to anybody. "Delivered" below means passed to
  it, and "put together" that the last segment was found in its place.

## 2. Modules and how they follow the code

**`TransmitQueue`**. One action per access that another thread can see.
`Enqueue` is the common body of the three functions that append (under
`tq_mutex`, one step); `CheckWaiting`, `LockToSignal`, `Signal`,
`UnlockAfterSignal` are the four lines after it. The flag is read without a
lock, which is a data race: the read may be satisfied as early as the append, so
`Enqueue` may include it. On the other side `TestEmpty`, `LockToWait`,
`SetWaiting`, `CondWait`, `Relock`, `ClearWaiting`, `UnlockAfterWait` are the
lines of `tq_wait_while_empty`; `CondWait` releases the mutex and sleeps in one
step, as POSIX says, and may wake without cause. `missed` is a history variable:
what was appended between the test and the flag.

**`Transmitter`** composes it (`INSTANCE TransmitQueue`) with the control flow of
`tx.c`; `tpc` is the label. Each `tq_peek` is its own action, since each is an
unlocked look. `wait_for_clear_channel` keeps its counter `n`, its restart at
`start_over_again` without a reset of `n`, the look at the HI list that skips
p-persistence, and the `trylock` of the audio device. A tick of the
p-persistence loop that loses the dice changes nothing and is a stuttering step.
Null packets are answered with a confirmation and not counted; packets the IL2P
encoder refuses are skipped and not counted either, as in `tx_frames`.
`audioLocked` is `audio_out_dev_mutex`. `confirms` stands for the items that
`dlq_seize_confirm` puts on the data link queue; `TakeConfirm` for the main
thread that removes them.

**`TransmitService`** is the abstract specification: lists per priority, one item
in hand, a key. `Transmitter` implements it with pending = queue, current = held
and keyed = ptt.

**`DataLinkQueue`** has the same wake-up shape with three differences taken from
`dlq.c`: the look at `queue_head` is not under `dlq_mutex`, the wait may be timed
(`pthread_cond_timedwait`), and after a time-out `rx_process` serves timers
instead of removing an item. The link is reduced to what it may do to its
earliest timer.

**`Ax25Link`** has no state: a link is a record and each handler an operator from
record (and frame) to record. Frames emitted, data delivered and seize requests
are collected in three fields of it. Every handler is whole: `i_frame`, for
example, includes `check_i_frame_ackd`, `i_frame_continued`, and the request for
the channel that `lm_data_indication` makes at its end. Received frames pass
through `ax25_frame_type`, which takes every frame for `cr_11`: it looks for the
C bits in the first characters of the addresses.

**`LinkSession`** puts one link under every event: any frame with any N(R), N(S)
and P/F, any order of timers, busy channel, client data, seize requests answered
or dropped (a 60 s time-out of the transmitter deletes the packet), and a peer
that may go off the air for good.

**`Reassembler`** is `dl_data_indication`, again operators on a record: `ra_buff`,
`ra_following`, and the three error exits.

**`LinkDelivery`** is end to end and goes both ways. The peer (external, as AX.25
describes it) connects to us, sends numbered messages, some of them segmented,
over a radio that loses frames, and receives what our client sends. It may
restart and connect anew whenever no SABM or UA is on the air, since that takes
longer than those are under way. Our side is `Ax25Link` with `Reassembler`,
a client, and the transmit queue reduced to the null packets in it. `load` picks
how many messages each client has. `cut` is the set of messages that the peer sent
before a restart and we did not deliver, until its SABM arrives; `Reassemble` passes
each message that a handler delivers to the reassembler, in turn.

**`LinkService`** is the abstract specification of a link: in each direction a queue
that may lose its newest part when an end gives up and its oldest when the
connection is made anew. The mapping reads our direction from the link's own
fields: what is under way is `txdata_by_ns` from the peer's V(R) to V(S), and
then `i_frame_queue`.

**`Octets`**, **`Scrambler`**, **`ReedSolomon`** are pure: bits and octets, the two shift
registers, and the field, generator, encoder and decoder as in `fec_*.c`. Loops
are folds and recursive functions. **`Il2pHeader`** has the addresses and control
octets of a packet and the type 1 header both ways. **`Il2pPayload`** has the
arithmetic of `il2p_payload_compute` and one pass of the block loops of encoder
and decoder as actions. **`FrameCodec`** extends them with the calls around the
loops: a packet goes from the transmit queue to `dlq_rec_frame` of the next
station, its header octet by octet, scrambled, with parity, and one octet of it
damaged on the air. Blocks of the payload are "repaired" or "beyond repair";
**`MCFrameCodec`** checks, when it is loaded (`FecRepairs`), that up to eight damaged
octets of a block are repaired by the encoder and decoder as modelled, and
(`HeaderRepairs`) that one octet of a header is, each of the 15 in turn; that the header's
code does so for every header and damage is proved (`HeaderRepaired`).

**`Il2pReceiver`** is `il2p_rec_bit`, state for state, its accumulator a set of bits.
`FrameCodec` has an action of that name too: what it gathers and repairs once the sync
word is found, as if the `memset` of `il2p_rec.c:32` did not clear it all before each bit.
**`KissFrame`** is the collector, fed by a client that may break off anywhere, and
the way back: the main thread tests `pt_master_fd` and writes in two steps, while
the listener closes it and sets it to -1 in others, and a write takes any part of
the frame. Input and output meet only in the descriptor, so a behaviour has one
of them (`traffic`).

**`Audio`** is `adev` and the loops over it: `audio_flush`, one action per way through
its loop, for the thread that calls it; `audio_get` likewise. **`NodeProcess`** adds
the threads: each call of `main`, the transmit thread between `put_symbols` and
`audio_wait`, the receive thread, and `cleanup`, which runs on the main thread in
the middle of whatever that was doing: if that was `malloc` or `free`, the handler's
own `free` waits for ever.

Operators and actions named `...Omitted`, `...Ahead`, `Any...`, `No...` and the
like, marked "a faulty variant, for comparison", are not part of the
specifications: each is a plausible slip in the code which the property it was
written for is shown to notice.

## 3. Runs

| run | configuration | bounds | result |
|---|---|---|---|
| `queue` | `TransmitQueue.cfg` | one KISS thread, the main thread, 2 packets and a null packet | holds, 21 080 states |
| `queue_notify` | `TransmitQueueNotify.cfg` | the same | **violated** |
| `transmitter` | `Transmitter.cfg` | 2 producers; an ordinary, a bad and a null packet; a carrier; `MaxTries` 1, `MaxBurst` 1 | holds, 159 772 |
| `events` | `DataLinkQueue.cfg` | receiver and transmitter report, 3 items | holds, 42 333 |
| `session` | `LinkSession.cfg` | modulo 4, k 2, N2 1, one content, `MaxQueue` 1, `MaxSeize` 1 | holds, 151 682 |
| `delivery` | `LinkDelivery.cfg` | modulo 4, 5 messages one way or one each way, segments of 2, peer window 1, 2 frames each way on the air, one restart of the peer | holds, 60 156 |
| `delivery_window` | `LinkDeliveryWindow.cfg` | peer window 2, no restart | **violated** |
| `delivery_answer` | `LinkDeliveryAnswer.cfg` | as `delivery`, one way, no restart | **violated** |
| `codec` | `MCFrameCodec.cfg` | all 256 control octets, 9 PIDs, lengths 0, 1, 1023, 1024, and both sides of every length at which the number or size of blocks changes; 2 callsigns, each with 11 octets in each place of the name, blanks or NULs from each place on, and blanks up to a NUL; 5 SSID octets; 4 octets of the header damaged in 2 ways | holds, 18 341 |
| `process` | `NodeProcess.cfg` | 3 frames of sound, 3 period sizes, 2 retries out and 1 in, one packet waiting, one SIGINT | holds, 392 319 |
| `receiver_bits` | `Il2pReceiverBits.cfg` | 24-bit accumulator, all bit streams | **violated** |
| `kiss` | `KissFrame.cfg` | packets of 1 or 2 octets from the four special ones and one other, without end | holds, 290 888 |

Why the bounds are enough:

* *Queues.* Packets are handed out, deleted and used again, so behaviours are
  unbounded; three are enough for a list of two with a third in hand or two lists
  that compete. The window of a lost wake-up needs one packet in it and one after
  it. A second KISS thread would run the same code as the first.
* *`MaxTries`, `MaxBurst`.* 6 000 and 256 in the code. Only "reached" and "not
  reached" are told apart, and both happen.
* *Modulo.* Sequence numbers are modulo 8 in the code. Modulo 4 keeps every wrap
  around and one peculiarity: the window constant 63 in `is_ns_in_window` is
  -1 modulo 8, and so it is modulo 4 (and 2); no other modulus would do. A k of 2
  is the smallest window with a gap inside; N2 1 allows a first try and a last.
  `delivery` has more messages than sequence numbers, so numbers are used again,
  and both packets of segments and single messages among them.
* *`MaxSeize`, `MaxQueue`.* They delay an event of the link until the transmitter
  has taken a null packet. With one null packet the link can be caught with a
  request outstanding in every state, which is what `AckWillBeSent` looks at.
* *Codec.* The numbers of blocks change at multiples of 239 and sizes with them; the
  proof covers all lengths and all packets that `ax25_from_frame` takes (`Queued` may be
  the whole of `AnyPacket`). The octets put into names are the ends of the ranges of
  characters that the code distinguishes, with the lowest bit set and clear. Header parity repairs one octet, and one is
  damaged; `HeaderRepairs` tries samples of what is proved for all, while `FecRepairs`,
  for the payload's code, rests on its samples.
* *Process.* Period sizes below, within and above the bounds for a buffer; two
  frames fill one, so three are one flush by `audio_put` and a rest for `tx_frames`.
  Octets of a frame are counted in two, of which `audio_get` may stop after one.
* *KISS.* `MAX_KISS_LEN` 8 is longer than the longest message of the run, which does
  not reach the collector's limit: nothing in the code says what should become of a
  message that is too long. That it is not taken for another is proved
  (`QueuedWasBegun`), as are the other two properties, for packets of any length.
* *Receiver.* 24 bits and 0xF15E48 in the code; the counterexample needs two bits.

`CHECK_DEADLOCK FALSE` is set where the modelled part really stops: a packet that
has gone through the codec, a KISS terminal that is gone, a link whose clients
have sent everything, and a process that has ended.

## 4. Properties and what they show

**Transmit queue.** `MissedOnlyInWindow`: while the thread sleeps, every packet in
the queue was appended between the emptiness test and the flag, or somebody is on
the way to signal. `AppendWakesSleeper` (liveness): an append made during the
sleep wakes it, the unlocked read notwithstanding. The protocol is sound but for
that window, and `NotifiedWhenNotEmpty`, what the comment at `tq.c:27` says,
fails in it: the packet waits until another one is queued.

**Transmitter.** `ChannelNotLeaked`: `tx_thread` unlocks `audio_out_dev_mutex` only
if it got a packet; had both lists been empty the device would be locked for good.
`OvertakenOnlyByLate`: a LO packet goes before a HI packet only if that one came
after the channel was claimed, or after the last frame. `HiServed`: a HI packet is
taken in the end, or the thread sleeps in the window above. `ImplementsService`:
`TransmitService`.

**Events.** `MissedOnlyInWindow` as above. `ItemHandled`: a running timer repairs a
lost wake-up. `NoUntimedSleep`: the time-out passed to the wait is never stale.
`TimerServedWhenQuiet`: a due timer is served, unless new events keep coming:
timers are looked at only after a wait that timed out, so a queue that never runs
dry starves them.

**Link.** `WindowKept`: at most k frames are outstanding and each can still be
resent, over all resets and rejects. `NothingDeliverableHeld`: nothing that could
be delivered is kept back. `NotFrozen`: a paused T1 means a busy channel.
`TimerRuns`: while something is awaited a timer runs. There is one exception in
the code and the property names it: `srej_frame` stops T1 and starts it again only
if it had a frame to resend. `AckWillBeSent`: an acknowledgement that is owed has a
null packet in the transmit queue, until the transmitter drops that packet
after 60 s; then nothing asks again, since `acknowledge_pending` stays set.
`DeadPeerNoticed`: the link to a peer that is gone comes down (same exception).

**Delivery.** With a peer window of one: `DeliveredInOrder` in both directions over
losses, a restart of the peer and the wrap of sequence numbers;
`AckedWasDelivered`: neither end frees what the other has not got; `NotSetUpAnew`:
no N(R) of a conforming peer is ever refused; `WholePackets`: no packet is put
together from segments of two, also if the peer restarted within the first;
`NothingStranded`: while our client's data are under way something will move them;
`ImplementsService`: `LinkService`; and, with the fairness below, `AllDelivered`.
With a window of two `DeliveredInOrder` fails: a retransmitted frame that was
delivered already is in the "window" of 6 numbers, is kept in `rxdata_by_ns`, and is
delivered again when the numbers come round. Only there and in `session`, where the
peer may send anything, are frames kept out of sequence and SREJs sent: a peer with a
window of one leaves no gap. `AnswerEndsRecovery` fails since no
frame is seen as a response: an idle link enquires after T3, never recognises the
answer, and gives up after N2 tries.

**Codec.** `OctetsSurvive`: a packet arrives with control octet, PID, names, SSIDs and
information part as sent (AX.25 layer 3 PIDs all become 0x20), one damaged octet
of the header notwithstanding, or a block was beyond repair, or a name has a
character that the encoder takes and `il2p_decode_header_type_1` does not: such a
packet is sent and refused by the next station. A name is compared without blanks at
its end (`Station`): a client may put "AA", a blank and a NUL into the octets of an
address, of which the sender reads "AA" with the blank and the receiver "AA". `BlocksFit`: blocks fit a
Reed-Solomon codeword.

**Receiver.** `AccumulatesRecentBits`, the comment at `il2p_rec.c:34`, is violated;
what follows from that is the theorem `NeverReceives`.

**KISS.** `Resynchronised`: after a broken frame at most one more is lost.
`OnlyWhatWasBegun`: no two packets are merged and no escape is misread; a client
that breaks off may have the beginning of its packet sent. `SentIsRead`: a packet
the terminal takes whole is read as such, whatever part of another it took before.

**Process.** `ReadyBeforeUse`: `tx_init` starts its thread before the rest of it is set
up, and nothing but the order of `main` keeps the thread from using it.
`SoundInOrder` and `NothingLeftBehind`: the card gets every frame once and in order,
and each transmission starts with an empty buffer. `FramesAligned`: `audio_get`
giving up between two octets does not shift all later ones. `TransmissionEnds`: every
way through `audio_flush` uses up a retry; the price is that a card which takes the
buffer in more than ten parts loses the rest. `Terminates`: SIGINT ends the process
once the receive thread runs.

The four violated runs are the findings of `PROJECT.json`. Seen on the way, and
not stated as a property since no line of the code says otherwise:

* after a reset the other slots of `txdata_by_ns` keep old frames, and a REJ with
  N(R) = V(S) makes `invoke_retransmission` go round the ring and send them;
* the link sends SREJ although `ax25_link.c:876` calls that an internal error in
  modulo 8;
* through IL2P every S and U frame arrives as a command unless the first octet
  of the destination is 0, for the encoder looks for the C bit there too;
* the final FEND of a message that fills `kiss_msg` is stored without a test for room;
* `select_t1_value` (`ax25_link.c:2020`) uses `t1_remaining_when_last_stopped` even
  if T1 has not run since: each RR that an idle link gets can lengthen `srt` by an
  eighth, until `t1v` is beyond the 30 s that line 2048 calls an internal error;
* a link that is created while the channel is busy believes it clear until the next
  change;
* SIGINT during start-up, before the receive thread is there and while `main` is
  within `malloc`, leaves the process waiting for itself.

## 5. Fairness

* *Threads run on*: `WF` on the steps of each thread inside its functions. Nobody
  is assumed to submit a packet, report an event or to wake without a signal.
* *`SF(TimeOut)`* in `DataLinkQueue`: a timed wait past its deadline is not
  interrupted for ever by wake-ups without cause.
* *`SF(CheckAfterDwait /\ tpc' = "slot")`* in `Transmitter`: the code restarts the wait when
  a carrier shows up in dwait, without counting, so its 60 s limit does not hold
  by itself; the channel must not be taken by somebody else in every dwait. In
  this commit `dcd_detect` is constantly false and this is trivially so.
* *`LinkSession`*: timers expire (T1 strongly, as it stops counting while the
  channel is busy), the transmitter answers or drops each null packet, and a
  busy channel becomes clear. These are the clock, `tx.c`, and the world.
* *`LinkDelivery`*: what is on the air arrives or is lost; of infinitely many polls,
  SABMs, answers and UAs not all are lost; the peer goes on sending and retrying, and
  the transmitter answers null packets. Our own timers need no fairness: for the
  peer's messages they can only give the link up.
* *`NodeProcess`*: each thread runs on (`WF` on its steps; a step that waits for a
  lock held for ever is not enabled). The card answers each call, and has input for
  the receive thread; without input `audio_get` would wait, and with it the only
  thread that still looks at the flag.

## 6. Proofs

All theorems hold for every value of the constants that satisfies the module's
named assumption.

* **`TransmitQueue_proof`**: `TypeCorrect`, `MissedOnly`. `MissedOnlyInWindow` is not
  inductive. Added are: who holds `wake_up_mutex` at which label (`MutexInv`), that
  the flag is set exactly over the wait (`FlagInv`), that in the window all
  that is queued is missed (`WindowInv`), and the same fact one step before the sleep
  (`SleepInv`). No signal can fall between the flag and the sleep, because both
  sides hold `wake_up_mutex` there.
* **`DataLinkQueue_proof`**: `TypeCorrect`, `MissedOnly` along the same argument, and
  `NeverUntimed` for `NoUntimedSleep`: from the moment the main thread computes
  its time-out no timer is started, because only the main thread starts one
  (`TimedInv`).
* **`Transmitter_proof`**: `NoLeak`, `Refinement` and `Overtaking`. `SeenInv` says that the packet
  seen by `tx_thread` is still in a list when the channel has been claimed, as only
  the transmit thread removes packets; so the branch that would keep the mutex
  is dead. `LockInv`, `OkInv`, `HeldInv` and `PttInv` tie mutex, result, packet and
  PTT to the label. With them each step is a step of `TransmitService` or a
  stutter; the initial states agree, hence `Spec => ImplementsService`.
  `Overtaking` (for `OvertakenOnlyByLate`) adds `LateInv`: when a LO packet is about
  to be taken, all in the HI list came after the last look at it. `WithinLimits` is the
  type invariant, the bounds of 60 s and 256 frames among it.
* **`Ax25Link_proof`**: what the two proofs about the link rest on. Distances around
  the ring of sequence numbers are in a few lemmas (`Ring`), where the modulus is no
  more than a bound, and every operator of `Ax25Link` has a lemma that it keeps the
  invariant of a link record (`Good`): its fields are typed, T1 is paused only with a
  carrier, the slot V(R) of `rxdata_by_ns` is empty, V(S) is within k of V(A) with
  every frame between them kept, the slot before V(A), where SET_VA stops freeing, is
  empty, a link that waits for the answer to its SABM has nothing left of the old
  connection, and an acknowledgement owed has a null packet or a request for one. A
  handler is proved from the calls it makes.
* **`LinkSession_proof`**: `LinkTyped`, `TimerThawed`, `NothingHeldBack`, `WindowSafe`,
  `AckSafe` and `TimersSafe`, for every modulus, window, N2 and content: what `Good`
  says of the link, whatever frames and timers it meets.
  A second pass (`Armed`) shows for each handler but `srej_frame` that a link which
  waits keeps a timer.
* **`LinkDelivery_proof`**: `LinkEndTyped`, `NeverSetUpAnew`, `OutboundInOrder` and
  `NeverStranded` (for `NothingStranded`), for any number of messages, modulus, window of
  the peer and bound on the air; and for a peer whose window is one `BothInOrder`
  (`DeliveredInOrder`), `NothingLetGoUnseen` (`AckedWasDelivered`), `PacketsWhole`
  (`WholePackets`) and `Serves`: `Spec => ImplementsService`. See below.
* **`NodeProcess_proof`**: `ReadyFirst` from what each step of `main` has behind it
  (`ReadyInv`); `CleanStart` from where the transmit thread is while `outbuf` is not
  empty (`BufferInv`); `InOrder` from `OrderInv`: what was played and what is in
  `outbuf` are together increasing and bounded by the frames put, whichever part the
  card takes. `BuffersFit` is the type invariant: no buffer is ever filled beyond its
  size. `InStepWithFrames` (for `FramesAligned`) ties the place in `inbuf` to the octet
  that `audio_get` would give next, over errors in the middle of a frame.
* **`Framing_proof`**, on IL2P: `BlocksCoverPayload`: the blocks planned for any length have
  together exactly that length; `BlocksAlwaysFit`: at most five and each fits,
  for every packet queued, since the encoder lets no size above 1023
  through (`SizeInv`). The quotient by an unknown divisor is split into the five
  divisors there are, each linear. `DescramblerUndoes`: `il2p_descramble_block` makes of
  what `il2p_scramble_block` puts out the block it was given. `HeaderRepaired`: the
  header's Reed-Solomon code repairs any damage to any one octet. `PacketsSurvive`
  (`OctetsSurvive`) uses both, see below. And `NeverReceives`: a word with one bit at most differs
  from the sync word in two or more, so the receiver's search never ends.
  On KISS: `KissInvariant`, `QueuedWasBegun` (`OnlyWhatWasBegun`),
  `ListenerResynchronises` (`Resynchronised`) and `SentPacketIsRead` (`SentIsRead`), see below.

**The argument of `LinkDelivery_proof`.** None of its invariants is inductive: whether
an N(R) is good, or a frame is the next one, depends on what was on the air when it was
sent. The invariant (`IInv`) measures every sequence number, those of the frames
under way included, as a distance from our V(A), so that a step of V(A) moves all of
them alike and nothing is said about wrapping round:

* `LinkInv`: `Good`, and the link is connected, in timer recovery or disconnected, never
  waiting for a UA; `AirInv`, `PeerInv`: types, and which frames either station sends;
* `PhaseInv`: a SABM or a UA is there only while the peer is connecting, one at a time,
  and nothing is behind the SABM: with it the old connection ends;
* `AckInv`: the N(R) on their way to us go up, from V(A) to what the peer expects and
  no further than V(S); a REJ asks for less. So `is_good_nr` accepts each;
* `SentInv(w)`, `DataInv(w)`: with w the message at V(A), the slots of `txdata_by_ns` up to
  V(S) hold w, w + 1 and so on, the queue continues with those not yet sent, and each I
  frame the peer will take carries the message of its N(S), one the peer has not got;
* `OrderInv`: I frames go up, or those before the one that goes back have been missed
  and the peer is waiting for the repetition; a REJ under way finds nothing that
  will do behind it. Without it a repeated frame could be taken twice;
* `ReceivedInv`: `InOrder(received)`.

Each handler gets two kinds of lemma: it keeps `Good` (`Ax25Link_proof`), and what it
does to V(A), V(S), the slots, the queue and the frames it emits is one of five moves:
nothing new (`Steady`), N(R) becomes V(A) (`Acknowledges`), frames are sent again
(`Resends`), the connection begins anew (`Begins`), the queue is sent as far as the window
allows (`Pops`). The actions of `LinkDelivery` are then proved from these moves and the
way the air changes.

*The half that receives* has its own invariant, `JInv`, for `PeerWindow = 1`. That is no
convenience: with two, `DeliveredInOrder` is false (run `delivery_window`), since an old
frame left in `rxdata_by_ns` is taken for a new one. Let the connection have begun with
message s of the peer, and V(R) be the number of message e:

* `TakenInv`: `rxdata_by_ns` is empty, all delivered is before e, and the only message
  handed over and not delivered is e, if it has been;
* `OfferedInv`: the I frames on their way to us carry e or e - 1, each under its own
  number, those of e - 1 first. Hence what is repeated is never taken for new,
  whatever the modulus;
* `ReportedInv`: the N(R) on their way back are V(R) as it was when the peer last
  heard, then V(R) as it is (`Reports`: those behind the UA, as a peer that is
  connecting takes nothing before it);
* `SegmentsInv`: what is in `ra_buff` are the first segments of the packet that e is in,
  or a rest of an earlier packet that the next first segment replaces.

*Nothing stranded* (`MovingInv`): T1 runs while anything is outstanding (`Armed`, from
`Ax25Link_proof`), and a queue with room in the window has a null packet waiting
(`Awaited`). The one exception to `Armed`, an SREJ, is a frame this peer does not send.

*Refinement.* `RowInv` says that what the peer has not got is a row of consecutive
messages: those from what it expects up to V(S), then `i_frame_queue`, and on a
connected link the last of them is the newest handed over. Then each action of
`LinkDelivery` only appends to that row, takes from its front (delivery,
or a SABM that clears the queues), cuts its end (a give-up) or leaves it, and likewise
in the other direction, where the row is of one message at most: a step of
`LinkService` or a stutter (`StepServes`, one lemma per action).

**The argument for the codec.** A packet goes through three transformations that are
undone at the other end, each with lemmas of its own, and two loops that must agree:

* *Header.* Every field is written bit by bit over the 13 octets and read back: fields
  do not overlap, and a number below 2^n is what its n bits say. The name in an
  address is any six octets; what the encoder makes of it (`TextOfAddress`) has no NUL
  but may end in a blank. It is filled up with blanks, and the receiver cuts all of
  them (`PaddedText`), so that what it puts into its own packet comes out of that as it
  is (`PaddedBack`). A name of other characters than letters and digits is the one case
  in which the decoder refuses what the encoder took.
* *Scrambler.* Five bits in, the receive register is a function of the transmit register
  and the last five bits (`Linked`), which the first five bits bring about (`Filled`);
  from there each bit in gives the bit of five before. The lengths are the delay's five
  bits dropped in front and flushed behind.
* *Header on the air.* `HeaderRepaired`: the Reed-Solomon code gives back a header with
  its two octets of parity, whichever of the 15 is damaged and however; see below.
* *Blocks.* `At(n, c)` is where block c of a payload of n octets begins. `EncodedTo` says
  of the encoder's output that its first blocks hold the octets in order, and the
  decoder, which computes the plan anew from the length in the header, finds each
  where it looks for it. `CodecInv` is the invariant, stage by stage: `Empty` before,
  `Sending` and `AllEncoded` within and after the encoder's loop, `Decoding` within the
  decoder's.

**The argument for the header's code.** `HeaderRepaired` is about all 256^13 headers, all
places and all damage, so it comes from the laws of the field, which the code only
has as tables and loops:

* *Exclusive or* (`XorLaws`): bitwise addition, a group in which each octet is its own
  inverse. *Times alpha* (`ShiftedIs`, `TimesAlphaBits`): a shift and the polynomial of
  `init_rs_char`; linear in the octet.
* *The tables* (`AlphaTable`, `PowersOfAlpha`, `LogarithmIs`): ALPHA_TO doubles from place
  to place, its 255 values are all different, and INDEX_OF is its inverse. `ProductIs` and
  `QuotientsAre`: products and quotients add and subtract logarithms modulo 255.
* *The encoder* (`RestMakesUp`): after each octet its register is what makes the octets so
  far a word with value 0 at the two roots of the generator (`GeneratorIs`), by the
  same recursion as Horner's rule (`ParityMakesZero`).
* *Damage* (`DamageShows`): an octet changed by x at place e gives the syndromes x and
  alpha^e x (`SyndromesAre`), since evaluation is linear; none is 0.
* *The decoder*: from these two, Berlekamp-Massey ends with 1 + alpha^e X (`LambdaIs`), the
  search finds its one root (`RootsAre`), Forney's formula gives x (`ErrorValueIs`), and
  the octet is put right (`ErrorIsRepaired`).

**The argument for KISS.** `kiss_encapsulate` and `kiss_unwrap` are recursive functions of
the octets. That one undoes the other for any length is an induction over the place
in the message; the induction principle itself is applied as the well-foundedness of <
to the set of places at which the claim fails. A frame has FENDs at its ends and
none within (`DataFrameIs`), which is what the collector relies on. The invariant
(`KissInv`) ties it to the client: what is still to come is the rest of the frame
of the packet begun last (`PipeIsRest`); a listener that is collecting has all of it so
far that fits (`Collected`) or, between frames, what the last one or two left
(`LeftOver`); and since a frame was sent whole the two are in step (`InStep`).
`QueuedWasBegun` holds for every `MAX_KISS_LEN`, messages that do not fit included, the
final FEND taken to be stored as if there were room. `ListenerResynchronises` needs
2 * `MaxFrameLen` + 3 <= `MAX_KISS_LEN`: a frame of escaped octets only with its type
and both FENDs fits. With the 2048 of the code that is so up to 1022 octets; a longer
packet with enough octets to escape is queued shortened.

The inductive invariants were also checked by TLC on the configurations above.

Only model-checked: all liveness (it needs ENABLED and fairness, out of reach of the
prover), and that the payload's code of 16 parity symbols repairs up to eight octets
(`FecRepairs`, on samples): Berlekamp-Massey for an unknown number of errors.

## 7. Not modelled

* *Modem* (`demod.c`, `costas_loop.c`, `timing_error_detector.c`, `rrc_fir.c`,
  `constellation.c`, `deque.c`, the symbols of `tx.c`): floating point filters and
  loops of one thread. TLA+ has no floating point, and a model with integers in
  its place would not be of this code. `dcd_detect` answers false at this commit, so
  no sample reaches it.
* *PTT and GPIO*: compiled out (`DEBUG_TX`) and not initialised by `main`.
* *Configuration*: one parse of a file at start.
* *Unused code*: `fft.c`, `crc16.c`: nothing calls them.
* Of the link: the values of T1 (SRT, `t1v`; only whether a timer runs is
  modelled), the list of links and the loops over it (links share nothing but the
  channel), the registered callsigns (never filled).
* Of packets: their text form, allocation and copying.
* Of FEC: erasures (IL2P has none). Of start-up: the sizes of allocations, a second
  SIGINT. After SIGINT the sound is not followed, and what a thread does with a
  closed device is any outcome, a crash included.
* The counters of `dlq.c` that only feed a message, and `tq_count`, which reads the list
  for a warning of `lm_data_request` (`tq.c:134`).

`PROJECT.json` gives the reason per component. Branches that no state can reach are
left out: state 2 of the link is never entered, and a length beyond 1023 is
refused before the codec's own test.

## 8. Plan

Done: the transmit side with its abstract specification and its refinement proof;
the events and main loop; the link under arbitrary frames, with proofs; delivery both
ways with a restart, segments, its abstract specification and the proof that it is
met; the codec with FEC and scrambler, and KISS with its terminal, both with proofs for
packets of any length and content; the receiver; audio, start-up and shutdown. Of the
safety properties that the passing runs check each is a theorem.

Next, most important first:

1. *T1*: `select_t1_value` and the timer's arithmetic as integers, with the bound of
   line 2048 as the property.
2. *Several links* with their list, the channel-busy and timer loops over it.
3. *Reed-Solomon*: that the payload's code repairs up to eight octets, from the same laws.

Each run answers one question; new modules are to be composed with the existing
ones so that the set of runs stays small.
