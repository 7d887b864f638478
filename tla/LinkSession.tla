----------------------------- MODULE LinkSession -----------------------------
(***************************************************************************)
(* One data link of ax25_link.c, driven by the receive loop, with a peer    *)
(* that may send any frame at any time until it goes off the air.           *)
(*                                                                          *)
(* lm_seize_request puts a null packet into the transmit queue.  The        *)
(* transmitter answers it with DLQ_SEIZE_CONFIRM once the channel is clear; *)
(* if it sees a carrier for 60 seconds it deletes the packet and says       *)
(* nothing (module Transmitter).                                            *)
(*                                                                          *)
(* The commit has no client interface: nothing registers a callsign and     *)
(* nothing fills i_frame_queue.  Both are taken from how ax25_link.c uses   *)
(* them and are external here (a SABM is for a registered callsign).        *)
(***************************************************************************)
EXTENDS Ax25Link, FiniteSetsExt

CONSTANTS MaxQueue,   \* bound on i_frame_queue
          MaxSeize    \* bound on the null packets in the transmit queue

ASSUME SessionAssumption ==
          /\ MaxQueue \in Nat \ {0}
          /\ MaxSeize \in Nat \ {0}

VARIABLES link,     \* the ax25_dlsm_t
          seizes,   \* null packets waiting in the transmit queue
          onAir     \* the peer is still there

vars == <<link, seizes, onAir>>

Init == link = NewLink /\ seizes = 0 /\ onAir = TRUE

\* What a handler called from rx_process does to the link and the transmit
\* queue.  The frames it sends and the data it delivers are not followed here.
\* Null packets beyond the bound are not counted; OtherTransmission stands for
\* what they would do.
Becomes(Result) ==
  \E L \in {Result} :
    /\ link' = Fresh(L)
    /\ seizes' = Min({seizes + L.seize, MaxSeize})
    /\ UNCHANGED onAir

PeerFrame(f) == onAir /\ Becomes(lm_data_indication(link, f))

PeerGone == onAir' = FALSE /\ UNCHANGED <<link, seizes>>

SeizeConfirm ==
  /\ seizes > 0
  /\ link' = Fresh(lm_seize_confirm(link))
  /\ seizes' = seizes - 1
  /\ UNCHANGED onAir

\* tx_frames confirms at the start of every transmission, whoever asked for it.
OtherTransmission ==
  /\ link' = Fresh(lm_seize_confirm(link))
  /\ UNCHANGED <<seizes, onAir>>

\* wait_for_clear_channel gave up: the null packet is deleted unanswered.
SeizeDropped ==
  /\ seizes > 0
  /\ seizes' = seizes - 1
  /\ UNCHANGED <<link, onAir>>

ChannelBusy(busy) == Becomes(lm_channel_busy(link, busy))

T1Expires == link.t1 = "running" /\ Becomes(ExpireT1(link))
T3Expires == link.t3 = "running" /\ Becomes(ExpireT3(link))

\* External: the client application hands over data for a link that is up.
ClientData(m) ==
  /\ link.state \in Up
  /\ Len(link.i_frame_queue) < MaxQueue
  /\ Becomes(SeizeForQueue([Fresh(link) EXCEPT !.i_frame_queue = Append(@, m)]))

\* A frame's C bits are not looked at (ax25_frame_type), so one value will do.
\* A SREJ may ask for one more frame in its information field.
PeerFrames ==
  {f \in [type : FrameTypes, cr : {"cmd"}, pf : BOOLEAN, nr : SeqNo, ns : SeqNo,
          msg : Msgs \cup {None} \cup {<<n>> : n \in SeqNo}] :
     /\ f.msg \in Msgs <=> f.type = "I"
     /\ f.msg \in {<<n>> : n \in SeqNo} => f.type = "SREJ"
     /\ f.ns = 0 \/ f.type = "I"
     /\ f.nr = 0 \/ f.type \in {"I", "RR", "RNR", "REJ", "SREJ"}}

Next ==
  \/ \E f \in PeerFrames : PeerFrame(f)
  \/ PeerGone
  \/ SeizeConfirm
  \/ OtherTransmission
  \/ SeizeDropped
  \/ \E busy \in BOOLEAN : ChannelBusy(busy)
  \/ T1Expires
  \/ T3Expires
  \/ \E m \in Msgs : ClientData(m)

Spec == Init /\ [][Next]_vars

\* Timers run on the clock and the transmitter empties its queue.  T1 does not
\* count the time it is paused: a channel that keeps getting clear suffices.
FairSpec ==
  /\ Spec
  /\ SF_vars(T1Expires)
  /\ WF_vars(T3Expires)
  /\ WF_vars(SeizeConfirm \/ SeizeDropped)
  /\ WF_vars(link.radio_channel_busy /\ ChannelBusy(FALSE))

-----------------------------------------------------------------------------
TypeOK == link \in Link /\ seizes \in 0 .. MaxSeize /\ onAir \in BOOLEAN

Outstanding == {n \in SeqNo : Minus(n, link.va) < Minus(link.vs, link.va)}

\* No more than k frames are ever unacknowledged, and each of them is still
\* stashed for a retransmission, whatever N(R)s, REJs and SREJs the peer
\* sends and however often the link is set up anew with frames outstanding.
WindowKept ==
  link.state \in Up =>
     /\ Minus(link.vs, link.va) <= k_maxframe
     /\ \A n \in Outstanding : link.txdata_by_ns[n] # None

\* The receive buffer never holds the frame that is expected next: a frame
\* that could be delivered has been.
NothingDeliverableHeld == link.rxdata_by_ns[link.vr] = None

\* While the link waits for an answer or for an acknowledgement T1 runs (or
\* waits for the carrier to go), and an idle link has T3: something will still
\* happen if the peer says nothing more.  Only a SREJ can put an end to it,
\* since srej_frame stops T1 and starts it again only if it had something to
\* send.
TimerArmed ==
  /\ link.state \in {"awaiting_connection", "timer_recovery"} => link.t1 # "stopped"
  /\ link.state = "connected" =>
       link.t1 # "stopped" \/ (link.vs = link.va /\ link.t3 = "running")

TimerRuns ==
  [][TimerArmed /\ ~TimerArmed' =>
       \E f \in PeerFrames : f.type = "SREJ" /\ PeerFrame(f)]_vars

\* T1 is frozen by pause_t1 only as long as there is a carrier.
NotFrozen == link.t1 = "paused" => link.radio_channel_busy

\* An acknowledgement the link remembers it owes has a null packet in the
\* transmit queue that will make it send it, and only a packet dropped by the
\* transmitter takes that away (then nothing asks for it again).
AckSecured == link.state \in Up /\ link.acknowledge_pending => seizes > 0

AckWillBeSent == [][AckSecured /\ ~AckSecured' => SeizeDropped]_vars

\* A peer that is gone is noticed: the link runs out of retries and is
\* disconnected, unless it was left without a timer (see TimerRuns).
DeadPeerNoticed ==
  ~onAir ~> \/ link.state \in {"none", "disconnected"}
            \/ link.t1 = "stopped" /\ link.t3 = "stopped"
=============================================================================
