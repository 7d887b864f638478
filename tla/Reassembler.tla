----------------------------- MODULE Reassembler -----------------------------
(***************************************************************************)
(* The reassembler of ax25_link.c: dl_data_indication, which gets the       *)
(* information of every I frame in the order of its delivery and puts the   *)
(* segments of a larger packet together in ra_buff.  A segment is the       *)
(* record of what the code reads from it; ra_buff is NULL or counts octets  *)
(* (size expected, len so far) and remembers which segments they are from.  *)
(* The code frees a packet that is complete; here it is returned as done.   *)
(***************************************************************************)
EXTENDS Integers, Sequences

CONSTANT NULL

\* Any other packet, and segment `index' of a packet: its first one carries the
\* flag 0x80, each says how many follow, and len counts the octets of the
\* information part, of which one is the segment's own header.
PlainData == [segment |-> FALSE]
SegmentData(first, following, len) ==
  [segment |-> TRUE, first |-> first, following |-> following, len |-> len]

Ready == [ra_buff |-> NULL, ra_following |-> 0, done |-> <<>>]

\* cdata_new for the whole packet: its own PID is the octet after the header.
FirstSegment(R, d, m) ==
  [R EXCEPT !.ra_following = d.following,
            !.ra_buff = [size |-> (d.following + 1) * (d.len - 1) - 1,
                         len |-> d.len - 2, from |-> <<m>>]]

\* A faulty variant, for comparison: what has been put together is kept.
KeepBuffer(R) == R

\* Reassembler Protocol Error Z in the reassembling state.
ErrorZ(R) == [R EXCEPT !.ra_buff = NULL]

\* The buffer is handed to nobody and freed when the last segment is in it.
NextSegment(R, d, m) ==
  LET B == [R EXCEPT !.ra_following = d.following,
                     !.ra_buff.len = @ + d.len - 1,
                     !.ra_buff.from = Append(@, m)]
  IN  CASE R.ra_buff.len + d.len - 1 > R.ra_buff.size ->
             ErrorZ([R EXCEPT !.ra_following = d.following])
        [] R.ra_buff.len + d.len - 1 <= R.ra_buff.size /\ d.following = 0 ->
             [B EXCEPT !.ra_buff = NULL, !.done = B.ra_buff.from]
        [] OTHER -> B

\* Message m with contents d is delivered.
dl_data_indication(R0, d, m) ==
  LET R == [R0 EXCEPT !.done = <<>>]
  IN  CASE R.ra_buff = NULL -> IF d.segment /\ d.first THEN FirstSegment(R, d, m) ELSE R
        [] R.ra_buff # NULL /\ d.segment /\ ~d.first
             /\ d.following = R.ra_following - 1 -> NextSegment(R, d, m)
        [] OTHER -> ErrorZ(R)
=============================================================================
