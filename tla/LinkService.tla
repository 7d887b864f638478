----------------------------- MODULE LinkService -----------------------------
(***************************************************************************)
(* What a link promises the clients at its two ends: in each direction the  *)
(* messages handed over come out in that order, none twice and none         *)
(* skipped.  When an end gives the link up, the newest messages under way   *)
(* may be dropped; when the connection is made anew, the oldest.            *)
(***************************************************************************)
EXTENDS Naturals, Sequences

CONSTANT Ends  \* the senders, one for each direction

VARIABLES given,    \* how many messages the client of an end has handed over
          pending,  \* those of them under way
          got       \* what has come out at the other end

vars == <<given, pending, got>>

Init ==
  /\ given = [e \in Ends |-> 0]
  /\ pending = [e \in Ends |-> <<>>]
  /\ got = [e \in Ends |-> <<>>]

\* A client hands over its next message.
Give(e) ==
  /\ given' = [given EXCEPT ![e] = @ + 1]
  /\ pending' = [pending EXCEPT ![e] = Append(@, given[e])]
  /\ UNCHANGED got

\* One or more messages come out.
Deliver(e) ==
  \E k \in 1 .. Len(pending[e]) :
    /\ got' = [got EXCEPT ![e] = @ \o SubSeq(pending[e], 1, k)]
    /\ pending' = [pending EXCEPT ![e] = SubSeq(@, k + 1, Len(@))]
    /\ UNCHANGED given

GiveUp(e) ==
  \E k \in 0 .. Len(pending[e]) :
    /\ pending' = [pending EXCEPT ![e] = SubSeq(@, 1, k)]
    /\ UNCHANGED <<given, got>>

\* A client may go on with a later message than its next one.
Reconnect ==
  /\ DOMAIN given' = Ends /\ DOMAIN pending' = Ends
  /\ \A e \in Ends :
       /\ given'[e] >= given[e]
       /\ \E k \in 0 .. Len(pending[e]) :
            pending'[e] = SubSeq(pending[e], k + 1, Len(pending[e]))
  /\ UNCHANGED got

Next == (\E e \in Ends : Give(e) \/ Deliver(e) \/ GiveUp(e)) \/ Reconnect

Spec == Init /\ [][Next]_vars
=============================================================================
