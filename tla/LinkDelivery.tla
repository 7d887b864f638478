---------------------------- MODULE LinkDelivery ----------------------------
(***************************************************************************)
(* A link end to end.  The peer is an external AX.25 station that connects  *)
(* to us.  As a sender it keeps at most PeerWindow messages unacknowledged,  *)
(* sends the oldest again when its timer runs out, sends the frame a SREJ   *)
(* names, and answers an enquiry; as a receiver it takes what is in         *)
(* sequence and asks once (REJ) for what is missing.  It may restart and    *)
(* connect anew, having lost what it knew of the link.  The radio loses     *)
(* frames; it neither reorders nor duplicates them.  Our side is the link   *)
(* of Ax25Link with its reassembler and a client that has messages to send. *)
(*                                                                          *)
(* Messages are numbered over all connections; in a connection that begins  *)
(* with message s, message m travels as N(S) = m - s modulo Modulo.         *)
(***************************************************************************)
EXTENDS Ax25Link, Functions, FiniteSetsExt

CONSTANTS Total,        \* messages to send in one direction
          Mixed,        \* messages of either end if both send
          PeerWindow,   \* the peer's window
          Segments,     \* segments of a packet the peer has segmented
          MaxAir,       \* bound on the frames on their way in one direction
          MaxRestarts,  \* bound on the restarts of the peer
          MaxQueue,     \* bound on i_frame_queue
          MaxSeize,     \* bound on the null packets in the transmit queue
          NULL

ASSUME DeliveryAssumption ==
          /\ Total \in Nat /\ Mixed \in 0 .. Total
          /\ Msgs = 0 .. Total - 1
          /\ PeerWindow \in 1 .. Modulo - 1
          /\ Segments \in Nat \ {0}
          /\ MaxAir \in Nat \ {0}
          /\ MaxRestarts \in Nat
          /\ MaxQueue \in Nat \ {0}
          /\ MaxSeize \in Nat \ {0}
          /\ \A S \in SUBSET Msgs : S # NULL

VARIABLES load,        \* how many messages the clients of peer and node have
          link,        \* our ax25_dlsm_t
          seizes,      \* null packets in our transmit queue
          given,       \* messages our client has handed over
          delivered,   \* what dl_data_indication has been given
          ra,          \* the link's ra_buff and ra_following
          whole,       \* history: the segments of each packet put together
          toNode, toPeer,
          peer,        \* the peer's side of the link
          received,    \* what the peer's client has got
          cut          \* history: NULL, or the peer has restarted, unknown to us
                       \* yet, with this set of messages sent and not delivered

vars == <<load, link, seizes, given, delivered, ra, whole,
          toNode, toPeer, peer, received, cut>>
nodeVars == <<link, seizes, given, delivered, ra, whole>>
peerVars == <<peer, received>>

R == INSTANCE Reassembler

\* The peer's client sends packets of Segments segments, and after each one
\* message that is not segmented.
Period == Segments + 1
Contents(m) ==
  IF m % Period = Segments THEN R!PlainData
  ELSE R!SegmentData(m % Period = 0, Segments - 1 - (m % Period), 3)

\* The peer: messages up to base are acknowledged, up to next are sent, the
\* connection began with start; expect is its V(R).
Peer == [state : {"connecting", "connected", "disconnected"},
         start : Nat, base : Nat, next : Nat, expect : SeqNo,
         rejecting : BOOLEAN, restarts : 0 .. MaxRestarts]

\* The link after the peer's SABM, the UA received.
Init ==
  /\ load \in {<<Total, 0>>, <<0, Total>>, <<Mixed, Mixed>>}
  /\ link = Fresh(lm_data_indication(NewLink, UFrame("SABM", "cmd", TRUE)))
  /\ seizes = 0
  /\ given = 0 /\ delivered = <<>> /\ ra = R!Ready /\ whole = <<>>
  /\ toNode = <<>> /\ toPeer = <<>>
  /\ peer = [state |-> "connected", start |-> 0, base |-> 0, next |-> 0,
             expect |-> 0, rejecting |-> FALSE, restarts |-> 0]
  /\ received = <<>> /\ cut = NULL

-----------------------------------------------------------------------------
(* Our side.                                                                 *)

\* The reassembler is called with message m, ...
Collect(acc, m) ==
  LET r == R!dl_data_indication(acc.ra, Contents(m), m)
  IN  [ra |-> [r EXCEPT !.done = <<>>],
       whole |-> IF r.done = <<>> THEN acc.whole ELSE Append(acc.whole, r.done)]

\* ... for each message that is delivered.
Reassemble(ups) ==
  LET after[n \in 0 .. Len(ups)] ==
        IF n = 0 THEN [ra |-> ra, whole |-> whole] ELSE Collect(after[n - 1], ups[n])
  IN  ra' = after[Len(ups)].ra /\ whole' = after[Len(ups)].whole

\* The frames a handler emits go on the air in their order; what else it
\* leaves to others is taken out of the link.  The transmitter has taken so many
\* null packets; those beyond the bound are not counted (see NodeTransmits).
NodeStep(L, taken) ==
  /\ Len(toPeer) + Len(L.out) <= MaxAir
  /\ toPeer' = toPeer \o L.out
  /\ delivered' = delivered \o L.up
  /\ Reassemble(L.up)
  /\ link' = Fresh(L)
  /\ seizes' = Min({seizes - taken + L.seize, MaxSeize})
  /\ UNCHANGED <<load, peerVars>>

NodeReceive ==
  /\ toNode # <<>>
  /\ toNode' = Tail(toNode)
  /\ \E L \in {lm_data_indication(link, Head(toNode))} : NodeStep(L, 0)
  /\ cut' = IF Head(toNode).type = "SABM" THEN NULL ELSE cut
  /\ UNCHANGED given

NodeSeizeConfirm ==
  /\ seizes > 0
  /\ \E L \in {lm_seize_confirm(link)} : NodeStep(L, 1)
  /\ UNCHANGED <<given, toNode, cut>>

\* tx_frames confirms at the start of every transmission, whoever asked for it.
NodeTransmits ==
  /\ NodeStep(lm_seize_confirm(link), 0)
  /\ UNCHANGED <<given, toNode, cut>>

NodeTimer ==
  /\ \/ link.t1 = "running" /\ NodeStep(ExpireT1(link), 0)
     \/ link.t3 = "running" /\ NodeStep(ExpireT3(link), 0)
  /\ UNCHANGED <<given, toNode, cut>>

\* External: our client hands over its next message while the link is up.
ClientData ==
  /\ given < load[2]
  /\ link.state \in Up
  /\ Len(link.i_frame_queue) < MaxQueue
  /\ given' = given + 1
  /\ NodeStep(SeizeForQueue([link EXCEPT !.i_frame_queue = Append(@, given)]), 0)
  /\ UNCHANGED <<toNode, cut>>

-----------------------------------------------------------------------------
(* The peer and the radio, external.                                         *)

MessageFrame(m, pf) ==
  Frame("I", "cmd", pf, peer.expect, (m - peer.start) % Modulo, m)

PeerEmits(f) == Len(toNode) < MaxAir /\ toNode' = Append(toNode, f)

PeerIdle == UNCHANGED <<load, nodeVars, toPeer, cut>>

PeerSend ==
  /\ peer.state = "connected" /\ peer.next < load[1] /\ peer.next - peer.base < PeerWindow
  /\ PeerEmits(MessageFrame(peer.next, FALSE))
  /\ peer' = [peer EXCEPT !.next = @ + 1]
  /\ PeerIdle /\ UNCHANGED received

\* The peer's T1: the oldest unacknowledged frame again, with P = 1.
PeerResend ==
  /\ peer.state = "connected" /\ peer.base < peer.next
  /\ PeerEmits(MessageFrame(peer.base, TRUE))
  /\ PeerIdle /\ UNCHANGED peerVars

Supervisory == {"RR", "RNR", "REJ", "SREJ"}
Unnumbered == {"SABM", "DISC", "DM", "UA", "FRMR", "UI"}

\* N(R) of a frame from us, as the number of a message.
Acked(nr) ==
  LET d == Minus(nr, (peer.base - peer.start) % Modulo)
  IN  IF d <= peer.next - peer.base THEN peer.base + d ELSE peer.base

\* An I frame in sequence is taken and acknowledged; one out of sequence is
\* discarded, and asked for unless it has been.
PeerTakesI(f) ==
  LET P == [peer EXCEPT !.base = Acked(f.nr)]
  IN  IF f.ns = peer.expect
      THEN /\ received' = Append(received, f.msg)
           /\ peer' = [P EXCEPT !.expect = AX25MODULO(@ + 1), !.rejecting = FALSE]
           /\ PeerEmits(SFrame("RR", "res", f.pf, AX25MODULO(peer.expect + 1)))
      ELSE /\ peer' = [P EXCEPT !.rejecting = TRUE]
           /\ IF peer.rejecting THEN UNCHANGED toNode
              ELSE PeerEmits(SFrame("REJ", "res", f.pf, peer.expect))
           /\ UNCHANGED received

PeerTakesS(f) ==
  LET acks   == f.type # "SREJ" \/ f.pf
      wanted == {m \in peer.base .. peer.next - 1 :
                   f.type = "SREJ" /\ (m - peer.start) % Modulo = f.nr}
  IN  /\ peer' = IF acks THEN [peer EXCEPT !.base = Acked(f.nr)] ELSE peer
      /\ \/ \E m \in wanted : PeerEmits(MessageFrame(m, FALSE))
         \/ f.cr = "cmd" /\ f.pf /\ PeerEmits(SFrame("RR", "res", TRUE, peer.expect))
         \/ wanted = {} /\ ~(f.cr = "cmd" /\ f.pf) /\ UNCHANGED toNode
      /\ UNCHANGED received

PeerTakesU(f) ==
  peer' = [peer EXCEPT !.state =
             CASE f.type = "DM" /\ @ # "connecting" -> "disconnected"
               [] f.type = "UA" /\ @ = "connecting" -> "connected"
               [] OTHER -> @]

\* Without a connection it takes no notice of data and their acknowledgements.
PeerReceive ==
  /\ toPeer # <<>>
  /\ toPeer' = Tail(toPeer)
  /\ LET f == Head(toPeer) IN
       CASE f.type = "I" /\ peer.state = "connected" -> PeerTakesI(f)
         [] f.type \in Supervisory /\ peer.state = "connected" -> PeerTakesS(f)
         [] f.type \in Unnumbered -> PeerTakesU(f) /\ UNCHANGED <<toNode, received>>
         [] OTHER -> UNCHANGED <<toNode, peerVars>>
  /\ UNCHANGED <<load, nodeVars, cut>>

\* What the peer has sent and we have not delivered.
Undelivered ==
  {m \in (IF cut = NULL THEN {} ELSE cut) \cup (peer.start .. peer.next - 1) :
     m \notin Range(delivered)}

Sabm == UFrame("SABM", "cmd", TRUE)

OnAir(type) == \/ \E i \in DOMAIN toNode : toNode[i].type = type
               \/ \E i \in DOMAIN toPeer : toPeer[i].type = type

\* The peer starts anew: it has forgotten the link and what was under way on
\* it, and connects again, its client beginning with the next packet.  That
\* takes longer than its SABM and our UA are on their way.
PeerRestart ==
  LET first == CHOOSE m \in peer.next .. peer.next + Segments : m % Period = 0
  IN  /\ peer.restarts < MaxRestarts
      /\ ~OnAir("SABM") /\ ~OnAir("UA") /\ PeerEmits(Sabm)
      /\ peer' = [state |-> "connecting", start |-> first, base |-> first, next |-> first,
                  expect |-> 0, rejecting |-> FALSE, restarts |-> peer.restarts + 1]
      /\ cut' = Undelivered
      /\ UNCHANGED <<load, nodeVars, toPeer, received>>

\* Its SABM, or our UA, was lost.
PeerConnectAgain ==
  /\ peer.state = "connecting"
  /\ ~OnAir("SABM") /\ ~OnAir("UA") /\ PeerEmits(Sabm)
  /\ PeerIdle /\ UNCHANGED peerVars

LoseToNode ==
  /\ toNode # <<>> /\ toNode' = Tail(toNode)
  /\ UNCHANGED <<load, nodeVars, toPeer, peerVars, cut>>

LoseToPeer ==
  /\ toPeer # <<>> /\ toPeer' = Tail(toPeer)
  /\ UNCHANGED <<load, nodeVars, toNode, peerVars, cut>>

Next ==
  \/ NodeReceive \/ NodeSeizeConfirm \/ NodeTransmits \/ NodeTimer \/ ClientData
  \/ PeerSend \/ PeerResend \/ PeerReceive \/ PeerRestart \/ PeerConnectAgain
  \/ LoseToNode \/ LoseToPeer

Spec == Init /\ [][Next]_vars

\* What is on the air arrives or is lost, and of the polls, the SABMs, the
\* answers and the UAs not all are lost; the peer goes on sending and retrying.
FairSpec ==
  /\ Spec
  /\ WF_vars(LoseToNode \/ NodeReceive)
  /\ WF_vars(LoseToPeer \/ PeerReceive)
  /\ SF_vars(toNode # <<>> /\ Head(toNode).type = "I" /\ Head(toNode).pf /\ NodeReceive)
  /\ SF_vars(toNode # <<>> /\ Head(toNode).type = "SABM" /\ NodeReceive)
  /\ SF_vars(toPeer # <<>> /\ Head(toPeer).type \in Supervisory /\ PeerReceive)
  /\ SF_vars(toPeer # <<>> /\ Head(toPeer).type = "UA" /\ PeerReceive)
  /\ SF_vars(NodeSeizeConfirm)
  /\ SF_vars(PeerSend \/ PeerResend \/ PeerConnectAgain)

-----------------------------------------------------------------------------
TypeOK ==
  /\ link \in Link
  /\ load \in (0 .. Total) \X (0 .. Total)
  /\ seizes \in 0 .. MaxSeize /\ given \in 0 .. load[2]
  /\ delivered \in Seq(Msgs) /\ received \in Seq(Msgs)
  /\ toNode \in Seq(Frames) /\ toPeer \in Seq(Frames)
  /\ peer \in Peer /\ cut \in (SUBSET Msgs) \cup {NULL}

\* The clients get each other's messages in order, none twice, over losses,
\* retransmissions and the wrap of sequence numbers (i_frame_continued delivers
\* from rxdata_by_ns, and a repeated frame must not be taken for a new one).
InOrder(got) == \A i, j \in DOMAIN got : i < j => got[i] < got[j]
DeliveredInOrder == InOrder(delivered) /\ InOrder(received)

\* Neither side takes a message for acknowledged that has not arrived: what the
\* peer has let go of was delivered, and what we have freed was received.
AckedWasDelivered ==
  cut = NULL =>
    /\ \A m \in peer.start .. peer.base - 1 : m \in Range(delivered)
    /\ Minus(peer.expect, link.va) <= Minus(link.vs, link.va)

\* A conforming peer never makes us set up the link anew: is_good_nr accepts
\* every N(R) it sends, so nr_error_recovery is never reached.
NotSetUpAnew == link.state # "awaiting_connection"

\* dl_data_indication puts a packet together from all its segments and from no
\* others, even if the connection was cut within an earlier packet (sabm_frame
\* leaves ra_buff as it is).
WholePackets ==
  \A i \in DOMAIN whole :
    /\ whole[i][1] % Period = 0
    /\ whole[i] = [k \in 1 .. Segments |-> whole[i][1] + k - 1]

-----------------------------------------------------------------------------
(* The link implements LinkService.                                          *)

\* What our client has handed over and the peer has not got: the frames from
\* V(R) of the peer up to V(S), then the queue.
Unreceived ==
  LET sent == Minus(link.vs, peer.expect)
  IN  IF cut = NULL
        THEN [i \in 1 .. sent |-> link.txdata_by_ns[AX25MODULO(peer.expect + i - 1)]]
               \o link.i_frame_queue
        ELSE link.i_frame_queue

Service == INSTANCE LinkService WITH
  Ends <- {"peer", "node"},
  given <- [peer |-> peer.next, node |-> given],
  pending <- [peer |-> Ascending(Undelivered), node |-> Unreceived],
  got <- [peer |-> delivered, node |-> received]

\* In both directions, over losses, retransmissions and a restart of the peer,
\* messages come out in order and only the newest (when we give up) or the
\* oldest (when the peer connects anew) are dropped: what txdata_by_ns keeps
\* for invoke_retransmission and resend_for_srej is what was handed over.
ImplementsService == Service!Spec

\* Data that our client has handed over are never stranded: until the peer has
\* them a frame is on the air, a null packet in the transmit queue or T1 runs
\* (lm_data_indication and t1_expiry always leave one of them behind).
NothingStranded ==
  Unreceived # <<>> =>
     \/ toPeer # <<>> \/ toNode # <<>> \/ seizes > 0
     \/ link.t1 = "running" \/ link.state = "disconnected"

\* Every message of the peer's client is delivered, unless we gave up: a frame
\* that is repeated with P = 1 is answered with V(R) even if it is an old one.
AllDelivered ==
  <>(\/ peer.next >= load[1] /\ Undelivered = {} /\ cut = NULL
     \/ link.state = "disconnected")

\* "RR/RNR Response with F==1.": the answer to our enquiry, with everything
\* acknowledged, ends timer recovery.
AnswerEndsRecovery ==
  [][NodeReceive /\ link.state = "timer_recovery"
       /\ Head(toNode).type = "RR" /\ Head(toNode).cr = "res" /\ Head(toNode).pf
       /\ Head(toNode).nr = link.vs
     => link'.state = "connected"]_vars
=============================================================================
