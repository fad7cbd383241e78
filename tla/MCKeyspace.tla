----------------------------- MODULE MCKeyspace -----------------------------
(* Two keys whose entries are allocated in two places, so that an address   *)
(* is reused soon after a worker destroyed what was there.  A sorted set is *)
(* large unless it is empty; one TTL is handled in a pass; a millisecond    *)
(* has two ticks, so that deadlines fall inside a millisecond.              *)
EXTENDS Keyspace

CONSTANTS k1, k2, e1, e2, v1, n1, s1

\* 7 milliseconds are 14 ticks: when deadlines wrap at 16, a deadline one
\* millisecond in the past once the clock has come that far.
TtlSet == {-1, 0, 1, 7}
=============================================================================
