--------------------------- MODULE TransmitService ---------------------------
(***************************************************************************)
(* What the transmit side promises to those who submit packets: the packets *)
(* of a priority are taken in the order they were submitted, one at a time; *)
(* the transmitter is keyed only with a packet in hand, and a packet that   *)
(* was taken is either finished while the transmitter is keyed or discarded *)
(* before it was keyed for it.                                              *)
(***************************************************************************)
EXTENDS Naturals, Sequences, Functions

CONSTANTS Priorities, Items

VARIABLES pending,  \* the submitted items of each priority, oldest first
          current,  \* the item in hand, a set of at most one
          keyed     \* is the transmitter on the air

svars == <<pending, current, keyed>>

SInit == /\ pending = [p \in Priorities |-> <<>>]
         /\ current = {}
         /\ keyed = FALSE

Submit(p, x) ==
  /\ x \notin current \cup UNION {Range(pending[q]) : q \in Priorities}
  /\ pending' = [pending EXCEPT ![p] = Append(@, x)]
  /\ UNCHANGED <<current, keyed>>

Take(p) ==
  /\ current = {}
  /\ pending[p] # <<>>
  /\ current' = {Head(pending[p])}
  /\ pending' = [pending EXCEPT ![p] = Tail(@)]
  /\ UNCHANGED keyed

Key == /\ ~keyed
       /\ current # {}
       /\ keyed' = TRUE
       /\ UNCHANGED <<pending, current>>

Finish == /\ keyed
          /\ current # {}
          /\ current' = {}
          /\ UNCHANGED <<pending, keyed>>

Discard == /\ ~keyed
           /\ current # {}
           /\ current' = {}
           /\ UNCHANGED <<pending, keyed>>

Unkey == /\ keyed
         /\ current = {}
         /\ keyed' = FALSE
         /\ UNCHANGED <<pending, current>>

SNext == \/ \E p \in Priorities : Take(p) \/ \E x \in Items : Submit(p, x)
         \/ Key \/ Finish \/ Discard \/ Unkey

SSpec == SInit /\ [][SNext]_svars
=============================================================================
