---------------------------- MODULE MCEventLoop ----------------------------
(* Two fds and two Conn addresses, so that both are reused while others are *)
(* in use, and two keys: one may be due while the other is not.             *)
EXTENDS EventLoop, TLC

CONSTANTS c1, c2, k1, k2

ConnSet == {c1, c2}
KeySet == {k1, k2}

Symm == Permutations(ConnSet) \cup Permutations(KeySet)
=============================================================================
